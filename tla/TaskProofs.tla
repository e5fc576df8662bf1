----------------------------- MODULE TaskProofs -----------------------------
(***************************************************************************)
(* Theorems about tasks, which EndBlock completes, about the solutions     *)
(* BeginBlock must accept, about the coins that rewards and stakes move,   *)
(* and about what workers are credited for.                                *)
(***************************************************************************)
EXTENDS SolutionProofs

-----------------------------------------------------------------------------
(* Completed tasks. *)

TaskInv == TypeInv /\ CompletedTaskIsDone

\* No step reopens a thread.
LEMMA ThreadsStayCompleted ==
    ASSUME TypeInv, [Next]_vars, NEW k \in DOMAIN threads, threads[k].completed
    PROVE  k \in DOMAIN threads' /\ threads'[k].completed
<1> PICK before \in SUBSET Files : threads[k] \in Thread(before)
    BY DEF TypeInv, TypeOK, IsThread
<1>1. k \in DOMAIN threads' /\ ThreadStep(k)
    BY NextThreadStep
<1>2. ~ReadyToEvaluate(threads[k])
    BY DEF ReadyToEvaluate
<1> QED
    BY <1>1, <1>2 DEF ThreadStep, Subscribed, Proposed, Reveal, Validated, Submitted, Thread

\* Which tasks are completed after EndBlock.
LEMMA WhatEndBlockCompletes ==
    ASSUME TypeInv, NEW id \in DOMAIN CompletedTasks
    PROVE  /\ id \in DOMAIN tasks \/ id = NoTask
           /\ id = NoTask => CompletedTasks[id].completed
                             \/ (id \in DOMAIN tasks /\ ~tasks[id].completed)
           /\ id # NoTask /\ CompletedTasks[id].completed =>
                tasks[id].completed \/ AllThreadsCompleted(id)
           /\ id \in DOMAIN tasks /\ tasks[id].completed => CompletedTasks[id].completed
<1> DEFINE scanned == 0 .. nextId - 1
           closed == [i \in DOMAIN tasks |->
                        IF i \in scanned /\ AllThreadsCompleted(i)
                        THEN [tasks[i] EXCEPT !.completed = TRUE]
                        ELSE tasks[i]]
<1>1. \A i \in DOMAIN tasks :
            /\ closed[i].completed => tasks[i].completed \/ AllThreadsCompleted(i)
            /\ tasks[i].completed => closed[i].completed
    BY DEF TypeInv, TypeOK, Task
<1>2. DOMAIN closed = DOMAIN tasks
    OBVIOUS
<1>3. CompletedTasks = closed \/ CompletedTasks = Put(closed, NoTask, PhantomTask)
    BY DEF CompletedTasks, CompletedIn
<1> HIDE DEF closed
<1>4. CASE CompletedTasks = closed
    BY <1>1, <1>2, <1>4
<1>5. CASE CompletedTasks = Put(closed, NoTask, PhantomTask)
    BY <1>1, <1>2, <1>5 DEF Put, PhantomTask
<1> QED
    BY <1>3, <1>4, <1>5

\* The task a thread belongs to, when it is completed, stays so.
LEMMA TasksStayCompleted ==
    ASSUME TypeInv, [Next]_vars, NEW id \in DOMAIN tasks, tasks[id].completed, id < nextId
    PROVE  id \in DOMAIN tasks' /\ tasks'[id].completed
<1>1. CASE EndBlock
    BY <1>1, WhatEndBlockCompletes, CompletedTasksShape DEF EndBlock
<1>2. ASSUME NEW a \in Requesters, NEW input \in FrameInputs, NEW reward \in Rewards,
             CreateVideoUpscalerTask(a, input, reward)
      PROVE  id \in DOMAIN tasks' /\ tasks'[id].completed
    <2>1. id # nextId
        BY DEF TypeInv, TypeOK
    <2> QED
        BY <1>2, <2>1 DEF CreateVideoUpscalerTask, Put
<1>3. CASE UNCHANGED tasks
    BY <1>3
<1> QED
    BY <1>1, <1>2, <1>3 DEF Next, vars, BeginBlock, AddWorker, SubscribeWorkerToTask,
        ProposeSolution, RevealSolution, SubmitValidation, SubmitSolution

\* A completed task has completed threads only: EndBlock finds every thread completed
\* before it completes a task, and no step reopens one.
LEMMA TaskInvariant == Spec => []TaskInv
<1>1. Init => TaskInv
    BY InitTypeInv DEF Init, TaskInv, CompletedTaskIsDone
<1>2. TaskInv /\ [Next]_vars => TaskInv'
    <2> SUFFICES ASSUME TaskInv, [Next]_vars
                 PROVE  TaskInv'
        OBVIOUS
    <2>1. TypeInv /\ TypeInv'
        BY NextTypeInv DEF TaskInv
    <2>2. NoTask \notin Nat /\ nextId \in Nat
        BY <2>1 DEF NoTask, TypeInv, TypeOK
    <2>3. ASSUME NEW id \in DOMAIN tasks', id = NoTask
          PROVE  /\ tasks'[id].completed
                 /\ \A k \in DOMAIN threads' : k[1] # id
        <3>1. \A k \in DOMAIN threads' : k[1] # NoTask
            BY <2>1, <2>2 DEF TypeInv, TypeOK, ThreadKeys
        <3>2. ASSUME EndBlock
              PROVE  tasks'[id].completed
            BY <2>1, <2>3, <3>2, WhatEndBlockCompletes DEF EndBlock, TaskInv, CompletedTaskIsDone
        <3>3. ASSUME NEW a \in Requesters, NEW input \in FrameInputs, NEW reward \in Rewards,
                     CreateVideoUpscalerTask(a, input, reward)
              PROVE  tasks'[id].completed
            BY <2>2, <2>3, <3>3 DEF CreateVideoUpscalerTask, Put, TaskInv, CompletedTaskIsDone
        <3>4. ASSUME UNCHANGED tasks
              PROVE  tasks'[id].completed
            BY <2>3, <3>4 DEF TaskInv, CompletedTaskIsDone
        <3>5. tasks'[id].completed
            BY <3>2, <3>3, <3>4 DEF Next, vars, BeginBlock, AddWorker, SubscribeWorkerToTask,
                ProposeSolution, RevealSolution, SubmitValidation, SubmitSolution
        <3> QED
            BY <2>3, <3>1, <3>5
    <2>4. ASSUME NEW id \in DOMAIN tasks', tasks'[id].completed,
                 NEW k \in DOMAIN threads', k[1] = id
          PROVE  threads'[k].completed
        <3>1. id # NoTask
            BY <2>3, <2>4
        <3>2. ASSUME id \in DOMAIN tasks, tasks[id].completed, k \in DOMAIN threads
              PROVE  threads'[k].completed
            <4>1. threads[k].completed
                BY <2>4, <3>2 DEF TaskInv, CompletedTaskIsDone, ThreadsOf
            <4> QED
                BY <2>1, <3>2, <4>1, ThreadsStayCompleted
        <3>3. CASE EndBlock
            <4>1. threads' = threads /\ tasks' = CompletedTasks
                BY <3>3 DEF EndBlock
            <4>2. tasks[id].completed \/ AllThreadsCompleted(id)
                BY <2>1, <2>4, <3>1, <4>1, WhatEndBlockCompletes
            <4>3. id \in DOMAIN tasks
                BY <2>1, <2>4, <3>1, <4>1, WhatEndBlockCompletes
            <4> QED
                BY <2>4, <3>2, <4>1, <4>2, <4>3 DEF AllThreadsCompleted, ThreadsOf
        <3>4. ASSUME NEW a \in Requesters, NEW input \in FrameInputs, NEW reward \in Rewards,
                     CreateVideoUpscalerTask(a, input, reward)
              PROVE  threads'[k].completed
            <4>1. id # nextId /\ id \in DOMAIN tasks /\ tasks[id].completed
                BY <2>4, <3>4 DEF CreateVideoUpscalerTask, Put
            <4>2. k \in DOMAIN threads
                BY <2>1, <2>4, <4>1, NewThreads
            <4> QED
                BY <3>2, <4>1, <4>2
        <3>5. CASE UNCHANGED tasks /\ DOMAIN threads' = DOMAIN threads
            BY <2>4, <3>2, <3>5
        <3> QED
            BY <3>3, <3>4, <3>5 DEF Next, vars, BeginBlock, AddWorker, SubscribeWorkerToTask,
                ProposeSolution, RevealSolution, SubmitValidation, SubmitSolution
    <2>5. CompletedTaskIsDone'
        BY <2>3, <2>4 DEF CompletedTaskIsDone, ThreadsOf
    <2> QED
        BY <2>1, <2>5 DEF TaskInv
<1> QED
    BY <1>1, <1>2, PTL DEF Spec

\* The scan of EndBlock, which starts at an id no task has and stores the task it reads
\* there, completes only tasks whose threads are all completed.
THEOREM CompletedTasksAreDone == Spec => []CompletedTaskIsDone
<1>1. TaskInv => CompletedTaskIsDone
    BY DEF TaskInv
<1> QED
    BY <1>1, TaskInvariant, PTL

\* Each handler but that of the submission asks whether the task is completed; a
\* submission only rewrites the directory of a thread that is completed already.
THEOREM CompletedTasksAreClosed == Spec => CompletedTaskIsClosed
<1>1. TaskInv /\ [Next]_vars =>
        [\A k \in DOMAIN threads : tasks[k[1]].completed =>
            /\ tasks'[k[1]].completed
            /\ threads'[k] = [threads[k] EXCEPT !.dir = threads'[k].dir]]_vars
    <2> SUFFICES ASSUME TaskInv, [Next]_vars, NEW k \in DOMAIN threads, tasks[k[1]].completed
                 PROVE  /\ tasks'[k[1]].completed
                        /\ threads'[k] = [threads[k] EXCEPT !.dir = threads'[k].dir]
        OBVIOUS
    <2> PICK before \in SUBSET Files : threads[k] \in Thread(before)
        BY DEF TaskInv, TypeInv, TypeOK, IsThread
    <2>1. k[1] \in DOMAIN tasks /\ k[1] < nextId
        BY DEF TaskInv, TypeInv, StoreShape
    <2>2. tasks'[k[1]].completed
        BY <2>1, TasksStayCompleted DEF TaskInv
    <2>3. threads[k].completed
        BY <2>1 DEF TaskInv, CompletedTaskIsDone, ThreadsOf
    <2>4. ThreadStep(k)
        BY NextThreadStep DEF TaskInv
    <2>5. ASSUME threads'[k] = threads[k]
          PROVE  threads'[k] = [threads[k] EXCEPT !.dir = threads'[k].dir]
        BY <2>5 DEF Thread
    <2>6. ASSUME NEW d \in Dirs, threads'[k] = Submitted(threads[k], d)
          PROVE  threads'[k] = [threads[k] EXCEPT !.dir = threads'[k].dir]
        BY <2>3, <2>6 DEF Submitted, Thread
    <2>7. threads'[k] = threads[k] \/ \E d \in Dirs : threads'[k] = Submitted(threads[k], d)
        BY <2>4 DEF ThreadStep, CanSubscribe, CanPropose, CanReveal, SubmitValidation,
            CanValidate, WorksOn
    <2> QED
        BY <2>2, <2>5, <2>6, <2>7
<1> QED
    BY <1>1, TaskInvariant, PTL DEF Spec, CompletedTaskIsClosed

-----------------------------------------------------------------------------
(* What validations agree on. *)

\* When every signature decodes, an evaluation counts all of them: the validations that
\* agree with a frame are at most those it adds to the frame's valid ones.
LEMMA AgreeingAreCounted ==
    ASSUME NEW thread, NEW V, NEW f \in DOMAIN thread.frames,
           IsFiniteSet(DOMAIN thread.frames),
           thread.validations \in Seq(V),
           \A i \in DOMAIN thread.validations :
                Undecodable \notin Range(thread.validations[i].hashes)
    PROVE  Cardinality(Agreeing(thread, f)) <= Cardinality(AgreeOn(thread, f))
<1> DEFINE pair == [i \in Agreeing(thread, f) |-> << f, i >>]
<1>1. \A c \in Checks(thread) : Signed(thread, c) # Undecodable
    BY DEF Checks, Signed, Range
<1>2. Counted(thread) = Checks(thread)
    BY <1>1 DEF Counted
<1>3. \A i \in Agreeing(thread, f) : << f, i >> \in AgreeOn(thread, f)
    BY <1>2 DEF Agreeing, AgreeOn, Checks, Signed
<1>4. pair \in Injection(Agreeing(thread, f), AgreeOn(thread, f))
    <2>1. pair \in [Agreeing(thread, f) -> AgreeOn(thread, f)]
        BY <1>3
    <2>2. \A i, j \in Agreeing(thread, f) : pair[i] = pair[j] => i = j
        OBVIOUS
    <2> QED
        BY <2>1, <2>2 DEF Injection, IsInjective
<1>5. IsFiniteSet(AgreeOn(thread, f))
    <2>1. IsFiniteSet(DOMAIN thread.validations)
        BY LenProperties, FS_Interval
    <2>2. IsFiniteSet((DOMAIN thread.frames) \X (DOMAIN thread.validations))
        BY <2>1, FS_Product
    <2>3. AgreeOn(thread, f) \subseteq (DOMAIN thread.frames) \X (DOMAIN thread.validations)
        BY DEF AgreeOn, Counted, Checks
    <2> QED
        BY <2>2, <2>3, FS_Subset
<1> QED
    BY <1>4, <1>5, FS_Injection

\* The solution of a thread that enough validations agree with passes its evaluation,
\* whatever has been counted before.
LEMMA AgreedPasses ==
    ASSUME NEW thread, NEW files \in SUBSET Files, thread \in Thread(files),
           IsAgreedOn(thread),
           \A i \in DOMAIN thread.validations :
                Undecodable \notin Range(thread.validations[i].hashes)
    PROVE  DOMAIN thread.frames # {} /\ IsSolutionAccepted(EvaluateVerifications(thread))
<1> DEFINE new    == EvaluateVerifications(thread)
           frames == DOMAIN thread.frames
           agreed == { f \in frames :
                        Cardinality(Agreeing(thread, f)) >= MinValidValidations(thread) }
<1>1. /\ thread.frames \in [files -> Frame] /\ frames = files
      /\ thread.validations \in Seq(Validation)
    BY DEF Thread
<1>2. IsFiniteSet(frames)
    BY <1>1, FilesAssumption, FS_Subset
<1>3. MinValidValidations(thread) \in {1, 2}
    BY DEF MinValidValidations
<1>4. /\ DOMAIN new.frames = frames
      /\ MinValidValidations(new) = MinValidValidations(thread)
      /\ \A f \in frames :
            new.frames[f].valid = thread.frames[f].valid + Cardinality(AgreeOn(thread, f))
    BY DEF EvaluateVerifications, MinValidValidations, Thread
<1>5. ASSUME NEW f \in agreed
      PROVE  new.frames[f].valid >= MinValidValidations(thread)
    <2>1. Cardinality(Agreeing(thread, f)) <= Cardinality(AgreeOn(thread, f))
        BY <1>1, <1>2, AgreeingAreCounted
    <2>2. Cardinality(AgreeOn(thread, f)) \in Nat
        BY <1>1, <1>2, CountsType
    <2>3. IsFiniteSet(Agreeing(thread, f))
        <3>1. IsFiniteSet(DOMAIN thread.validations)
            BY <1>1, LenProperties, FS_Interval
        <3>2. Agreeing(thread, f) \subseteq DOMAIN thread.validations
            BY DEF Agreeing
        <3> QED
            BY <3>1, <3>2, FS_Subset
    <2>4. Cardinality(Agreeing(thread, f)) \in Nat
        BY <2>3, FS_CardinalityType
    <2>5. thread.frames[f].valid \in Nat
        BY <1>1 DEF Frame
    <2>6. Cardinality(Agreeing(thread, f)) >= MinValidValidations(thread)
        OBVIOUS
    <2> QED
        BY <1>3, <1>4, <2>1, <2>2, <2>4, <2>5, <2>6
<1>6. agreed \subseteq ValidFrames(new) /\ ValidFrames(new) \subseteq frames
    BY <1>4, <1>5 DEF ValidFrames
<1>7. /\ IsFiniteSet(ValidFrames(new)) /\ Cardinality(ValidFrames(new)) \in Nat
      /\ IsFiniteSet(agreed) /\ Cardinality(agreed) \in Nat
      /\ Cardinality(agreed) <= Cardinality(ValidFrames(new))
    <2>1. IsFiniteSet(ValidFrames(new))
        BY <1>2, <1>6, FS_Subset
    <2> HIDE DEF agreed, new
    <2> QED
        BY <2>1, <1>6, FS_Subset, FS_CardinalityType
<1>8. /\ Cardinality(frames) \in Nat
      /\ RequiredFrames(Cardinality(frames)) \in Nat
      /\ RequiredFrames(Cardinality(frames)) >= 1
    <2>1. Cardinality(frames) \in Nat
        BY <1>2, FS_CardinalityType
    <2> QED
        BY <2>1, SomeFrameIsRequired DEF RequiredFrames
<1>9. Cardinality(agreed) >= RequiredFrames(Cardinality(frames))
    BY DEF IsAgreedOn
<1>10. frames # {}
    <2>1. agreed # {}
        BY <1>7, <1>8, <1>9, FS_EmptySet
    <2> QED
        BY <2>1
<1> HIDE DEF agreed, new
<1>11. Cardinality(ValidFrames(new)) >= RequiredFrames(Cardinality(frames))
    BY <1>7, <1>8, <1>9
<1>12. IsSolutionAccepted(new)
    BY <1>4, <1>10, <1>11 DEF IsSolutionAccepted
<1> QED
    BY <1>10, <1>12 DEF new

\* BeginBlock accepts what enough validations agree with: a thread that is not completed
\* has a task that is not completed either, which the walk does not skip, and the copy of
\* the task stored last holds every acceptance of the walk.
THEOREM AgreedIsAccepted == Spec => AgreedSolutionIsAccepted
<1>1. TaskInv => [BeginBlock => \A k \in DOMAIN threads : Agreed(k) => threads'[k].accepted]_vars
    <2> SUFFICES ASSUME TaskInv, BeginBlock, NEW k \in DOMAIN threads, Agreed(k)
                 PROVE  threads'[k].accepted
        OBVIOUS
    <2>1. PICK files \in SUBSET Files : threads[k] \in Thread(files)
        BY DEF TaskInv, TypeInv, TypeOK, IsThread
    <2>2. /\ DOMAIN threads[k].frames # {}
          /\ IsSolutionAccepted(EvaluateVerifications(threads[k]))
        BY <2>1, AgreedPasses DEF Agreed
    <2>3. FirstFrame(threads[k]) \in DOMAIN threads[k].frames
        BY <2>2 DEF FirstFrame
    <2>4. ReadyToEvaluate(threads[k])
        BY <2>2, <2>3 DEF Agreed, IsRevealed, ReadyToEvaluate
    <2>5. AcceptedNow(k)
        BY <2>2, <2>4 DEF AcceptedNow
    <2>6. k[1] \in DOMAIN tasks /\ k[2] \in Nat /\ k \in ThreadsOf(k[1])
        BY DEF TaskInv, TypeInv, TypeOK, StoreShape, ThreadKeys, ThreadsOf
    <2>7. ~tasks[k[1]].completed
        BY <2>6 DEF TaskInv, CompletedTaskIsDone, Agreed
    <2>8. Stored(k)
        BY <2>5, <2>6, <2>7 DEF Stored
    <2>9. threads'[k] = [EvaluateVerifications(threads[k]) EXCEPT !.accepted = AcceptedNow(k)]
        BY <2>4, <2>8 DEF BeginBlock, Evaluated
    <2>10. "accepted" \in DOMAIN EvaluateVerifications(threads[k])
        BY <2>1 DEF EvaluateVerifications, Thread
    <2> QED
        BY <2>5, <2>9, <2>10
<1> QED
    BY <1>1, TaskInvariant, PTL DEF AgreedSolutionIsAccepted

-----------------------------------------------------------------------------
(* Coins. *)

\* A worker owns no more than it had and won; another account no more than it had.
Funded(a) ==
    IF a \in DOMAIN workers
    THEN balance[a] + workers[a].staked <= InitialBalance + workers[a].winnings
    ELSE balance[a] <= InitialBalance

\* The proposer of a solution, whom SubmitSolution pays, has a worker record.
ProposersAreWorkers ==
    \A k \in DOMAIN threads : HasSolution(threads[k]) => threads[k].proposedBy \in DOMAIN workers

MoneyInv ==
    /\ TypeInv
    /\ \A a \in Accounts : Funded(a)
    /\ ProposersAreWorkers

\* A step that changes no record but where workers are, and adds to no balance, keeps
\* every account funded.
LEMMA KeepsFunded ==
    ASSUME MoneyInv, TypeInv',
           DOMAIN workers' = DOMAIN workers,
           \A a \in DOMAIN workers : /\ workers'[a].staked = workers[a].staked
                                     /\ workers'[a].winnings = workers[a].winnings,
           \A a \in Accounts : balance'[a] <= balance[a]
    PROVE  \A a \in Accounts : Funded(a)'
<1> SUFFICES ASSUME NEW a \in Accounts
             PROVE  Funded(a)'
    OBVIOUS
<1>1. /\ balance[a] \in Nat /\ balance'[a] \in Nat
      /\ a \in DOMAIN workers => workers[a].staked \in Nat /\ workers[a].winnings \in Nat
    BY DEF MoneyInv, TypeInv, TypeOK, Worker
<1>2. Funded(a) /\ balance'[a] <= balance[a]
    BY DEF MoneyInv
<1> QED
    BY <1>1, <1>2, ParamsAssumption DEF Funded

\* AddWorker moves the stake from the balance of an account to its record.
LEMMA AddWorkerFunded ==
    ASSUME MoneyInv, NEW w \in Providers, NEW stake \in Stakes, AddWorker(w, stake)
    PROVE  \A a \in Accounts : Funded(a)'
<1> SUFFICES ASSUME NEW a \in Accounts
             PROVE  Funded(a)'
    OBVIOUS
<1>1. /\ stake \in Nat /\ InitialBalance \in Nat
      /\ w \in Accounts /\ w \notin DOMAIN workers
      /\ workers' = Put(workers, w, NewWorker(stake))
      /\ balance' = [balance EXCEPT ![w] = @ - stake]
      /\ balance \in [Accounts -> Nat] /\ stake <= balance[w]
    BY MessagesAssumption, ParamsAssumption DEF AddWorker, Accounts, MoneyInv, TypeInv, TypeOK
<1>2. Funded(a)
    BY DEF MoneyInv
<1>3. CASE a = w
    <2>1. /\ a \in DOMAIN workers' /\ workers'[a].staked = stake /\ workers'[a].winnings = 0
          /\ balance'[a] = balance[a] - stake /\ balance[a] \in Nat
        BY <1>1, <1>3 DEF Put, NewWorker
    <2>2. balance[a] <= InitialBalance
        BY <1>1, <1>2, <1>3 DEF Funded
    <2> QED
        BY <1>1, <2>1, <2>2 DEF Funded
<1>4. CASE a # w
    <2>1. /\ a \in DOMAIN workers' <=> a \in DOMAIN workers
          /\ a \in DOMAIN workers => workers'[a] = workers[a]
          /\ balance'[a] = balance[a]
        BY <1>1, <1>4 DEF Put
    <2> QED
        BY <1>2, <2>1 DEF Funded
<1> QED
    BY <1>3, <1>4

\* What the submission of a solution does to the record of a worker.
LEMMA SubmissionRecords ==
    ASSUME TypeInv, NEW v \in DOMAIN workers, NEW w, NEW k, NEW payment \in Nat
    PROVE  LET new == AfterSubmission(v, w, k, payment)
           IN  /\ new.staked = workers[v].staked
               /\ new.winnings = workers[v].winnings + (IF v = w THEN payment ELSE 0)
<1>1. workers[v] \in Worker
    BY DEF TypeInv, TypeOK
<1>2. /\ Released(workers[v]) \in Worker
      /\ Released(workers[v]).staked = workers[v].staked
      /\ Released(workers[v]).winnings = workers[v].winnings
    BY <1>1 DEF Released, Worker
<1>3. \A released \in Worker :
        LET new == [released EXCEPT !.solutions = @ + 1, !.winnings = @ + payment]
        IN  new.staked = released.staked /\ new.winnings = released.winnings + payment
    BY DEF Worker
<1>4. workers[v].winnings \in Nat
    BY <1>1 DEF Worker
<1> QED
    BY <1>1, <1>2, <1>3, <1>4 DEF AfterSubmission, DeclareWinner

\* SubmitSolution adds to a balance no more than DeclareWinner adds to the record.
LEMMA SubmitFunded ==
    ASSUME MoneyInv, NEW w \in Providers, NEW k \in DOMAIN threads, NEW d \in Dirs,
           SubmitSolution(w, k, d)
    PROVE  \A a \in Accounts : Funded(a)'
<1> SUFFICES ASSUME NEW a \in Accounts
             PROVE  Funded(a)'
    OBVIOUS
<1> DEFINE payment == GetWinnerReward(tasks[k[1]].reward.amount, tasks[k[1]].threadAmount)
<1>1. payment \in Nat
    <2>1. tasks[k[1]].reward.amount \in Nat /\ tasks[k[1]].threadAmount \in Nat \ {0}
        BY DEF MoneyInv, TypeInv, TypeOK, StoreShape, Task, Coin
    <2> QED
        BY <2>1, GetWinnerRewardType
<1>2. /\ workers' = [v \in DOMAIN workers |-> AfterSubmission(v, w, k, payment)]
      /\ balance' = [balance EXCEPT ![w] = @ + payment] \/ balance' = balance
    BY DEF SubmitSolution
<1>3. w \in DOMAIN workers
    <2>1. threads[k].proposedBy = w
        BY DEF SubmitSolution, CanSubmit
    <2>2. w # Nobody
        BY AccountsAssumption DEF Accounts
    <2> QED
        BY <2>1, <2>2 DEF MoneyInv, ProposersAreWorkers, HasSolution
<1> HIDE DEF payment
<1>4. balance \in [Accounts -> Nat] /\ Funded(a) /\ TypeInv
    BY DEF MoneyInv, TypeInv, TypeOK
<1>5. /\ balance'[a] = balance[a] \/ (a = w /\ balance'[a] = balance[a] + payment)
      /\ DOMAIN workers' = DOMAIN workers
    BY <1>2, <1>4
<1>6. CASE a \in DOMAIN workers
    <2>1. /\ workers'[a].staked = workers[a].staked
          /\ workers'[a].winnings = workers[a].winnings + (IF a = w THEN payment ELSE 0)
        BY <1>1, <1>2, <1>4, <1>6, SubmissionRecords
    <2>2. workers[a].staked \in Nat /\ workers[a].winnings \in Nat /\ balance[a] \in Nat
        BY <1>4, <1>6 DEF TypeInv, TypeOK, Worker
    <2> QED
        BY <1>1, <1>4, <1>5, <1>6, <2>1, <2>2, ParamsAssumption DEF Funded
<1>7. CASE a \notin DOMAIN workers
    BY <1>3, <1>4, <1>5, <1>7 DEF Funded
<1> QED
    BY <1>6, <1>7

\* Every account is funded at first: there are no workers.
LEMMA InitMoney == Init => MoneyInv
<1> SUFFICES ASSUME Init
             PROVE  MoneyInv
    OBVIOUS
<1>1. \A a \in Accounts : Funded(a)
    BY ParamsAssumption DEF Init, Funded
<1> QED
    BY <1>1, InitTypeInv DEF Init, MoneyInv, ProposersAreWorkers

\* Every account stays funded, whichever messages are executed.
LEMMA NextMoney == MoneyInv /\ [Next]_vars => MoneyInv'
<1> SUFFICES ASSUME MoneyInv, [Next]_vars
             PROVE  MoneyInv'
    OBVIOUS
<1>1. TypeInv /\ TypeInv' /\ balance \in [Accounts -> Nat]
    BY NextTypeInv DEF MoneyInv, TypeInv, TypeOK
<1>2. \A a \in Accounts : Funded(a)'
    <2>1. CASE workers' = workers /\ balance' = balance
        BY <2>1, <1>1 DEF MoneyInv, Funded
    <2>2. ASSUME NEW a \in Requesters, NEW input \in FrameInputs, NEW reward \in Rewards,
                 CreateVideoUpscalerTask(a, input, reward)
          PROVE  \A b \in Accounts : Funded(b)'
        <3>1. reward.amount \in Nat /\ workers' = workers
            BY <2>2, MessagesAssumption DEF CreateVideoUpscalerTask, Coin
        <3>2. \A b \in Accounts : balance'[b] <= balance[b]
            BY <1>1, <2>2, <3>1 DEF CreateVideoUpscalerTask
        <3> QED
            BY <1>1, <3>1, <3>2, KeepsFunded
    <2>3. ASSUME NEW w \in Providers, NEW stake \in Stakes, AddWorker(w, stake)
          PROVE  \A b \in Accounts : Funded(b)'
        BY <2>3, AddWorkerFunded
    <2>4. ASSUME NEW w \in Providers, NEW k \in DOMAIN threads, SubscribeWorkerToTask(w, k)
          PROVE  \A b \in Accounts : Funded(b)'
        <3>1. /\ DOMAIN workers' = DOMAIN workers /\ balance' = balance
              /\ \A a \in DOMAIN workers : /\ workers'[a].staked = workers[a].staked
                                           /\ workers'[a].winnings = workers[a].winnings
            BY <1>1, <2>4 DEF SubscribeWorkerToTask, Assigned, TypeInv, TypeOK, Worker
        <3> QED
            BY <1>1, <3>1, KeepsFunded
    <2>5. ASSUME NEW w \in Providers, NEW k \in DOMAIN threads,
                 NEW hashes \in Verifications, SubmitValidation(w, k, hashes)
          PROVE  \A b \in Accounts : Funded(b)'
        <3>1. /\ DOMAIN workers' = DOMAIN workers /\ balance' = balance
              /\ \A a \in DOMAIN workers : /\ workers'[a].staked = workers[a].staked
                                           /\ workers'[a].winnings = workers[a].winnings
            BY <1>1, <2>5 DEF SubmitValidation, Released, TypeInv, TypeOK, Worker
        <3> QED
            BY <1>1, <3>1, KeepsFunded
    <2>6. ASSUME NEW w \in Providers, NEW k \in DOMAIN threads, NEW d \in Dirs,
                 SubmitSolution(w, k, d)
          PROVE  \A b \in Accounts : Funded(b)'
        BY <2>6, SubmitFunded
    <2> QED
        BY <2>1, <2>2, <2>3, <2>4, <2>5, <2>6 DEF Next, vars, BeginBlock, EndBlock,
            ProposeSolution, RevealSolution
<1>3. ProposersAreWorkers'
    <2> SUFFICES ASSUME NEW k \in DOMAIN threads', HasSolution(threads'[k])
                 PROVE  threads'[k].proposedBy \in DOMAIN workers'
        BY DEF ProposersAreWorkers, HasSolution
    <2>1. DOMAIN workers \subseteq DOMAIN workers'
        BY DEF Next, vars, BeginBlock, EndBlock, CreateVideoUpscalerTask, AddWorker, Put,
            SubscribeWorkerToTask, ProposeSolution, RevealSolution, SubmitValidation,
            SubmitSolution
    <2>2. CASE k \notin DOMAIN threads
        BY <1>1, <2>2, NewThreads DEF NewThread, HasSolution
    <2>3. CASE k \in DOMAIN threads
        <3>1. \/ threads'[k].proposedBy = threads[k].proposedBy
              \/ \E w \in DOMAIN workers : threads'[k].proposedBy = w
            BY <1>1, <2>3, NextThreadStep, SolutionsChange, EvaluationKeeps DEF CanPropose
        <3> QED
            BY <2>1, <2>3, <3>1 DEF MoneyInv, ProposersAreWorkers, HasSolution
    <2> QED
        BY <2>2, <2>3
<1> QED
    BY <1>1, <1>2, <1>3 DEF MoneyInv

\* Every account is funded at all times.
LEMMA MoneyInvariant == Spec => []MoneyInv
BY InitMoney, NextMoney, PTL DEF Spec

\* Whatever is submitted again, whatever transfer fails and in whatever coin rewards
\* are promised: no account is paid what the record of its winnings does not show.
THEOREM NoPayoutIsUnrecorded == Spec => []NoUnrecordedPayout
<1>1. MoneyInv => NoUnrecordedPayout
    BY DEF MoneyInv, NoUnrecordedPayout, Funded, TypeInv, TypeOK, Accounts
<1> QED
    BY <1>1, MoneyInvariant, PTL

-----------------------------------------------------------------------------
(* Credits. *)

\* The completed threads that a worker has won.
WonBy(w) == { k \in DOMAIN threads : threads[k].completed /\ threads[k].proposedBy = w }

CreditInv ==
    /\ MoneyInv
    /\ \A k \in DOMAIN threads : threads[k].completed => HasSolution(threads[k])
    /\ \A w \in DOMAIN workers :
        IsFiniteSet(WonBy(w)) /\ Cardinality(WonBy(w)) <= workers[w].solutions

\* Some solution is submitted now.
Submission ==
    \E w \in Providers, k \in DOMAIN threads, d \in Dirs : SubmitSolution(w, k, d)

\* Only SubmitSolution completes a thread.
LEMMA SameCompleted ==
    ASSUME TypeInv, [Next]_vars, ~Submission
    PROVE  /\ \A k \in DOMAIN threads :
                    k \in DOMAIN threads' /\ threads'[k].completed = threads[k].completed
           /\ \A k \in DOMAIN threads' \ DOMAIN threads : ~threads'[k].completed
<1>1. ASSUME NEW k \in DOMAIN threads
      PROVE  k \in DOMAIN threads' /\ threads'[k].completed = threads[k].completed
    <2> PICK before \in SUBSET Files : threads[k] \in Thread(before)
        BY DEF TypeInv, TypeOK, IsThread
    <2>1. CASE BeginBlock
        <3>1. Evaluated(k).completed = threads[k].completed
            BY DEF Evaluated, EvaluateVerifications, Thread
        <3> QED
            BY <2>1, <3>1 DEF BeginBlock
    <2>2. CASE UNCHANGED threads
        BY <2>2
    <2>3. ASSUME NEW a \in Requesters, NEW input \in FrameInputs, NEW reward \in Rewards,
                 CreateVideoUpscalerTask(a, input, reward)
          PROVE  k \in DOMAIN threads' /\ threads'[k].completed = threads[k].completed
        BY <2>3 DEF CreateVideoUpscalerTask, TypeInv, TypeOK, StoreShape, ThreadKeys
    <2>4. ASSUME NEW w \in Providers, NEW j \in DOMAIN threads, SubscribeWorkerToTask(w, j)
          PROVE  k \in DOMAIN threads' /\ threads'[k].completed = threads[k].completed
        BY <2>4 DEF SubscribeWorkerToTask, Thread
    <2>5. ASSUME NEW w \in Providers, NEW j \in DOMAIN threads, NEW files \in Proposals,
                 ProposeSolution(w, j, files)
          PROVE  k \in DOMAIN threads' /\ threads'[k].completed = threads[k].completed
        BY <2>5 DEF ProposeSolution, Thread
    <2>6. ASSUME NEW w \in Providers, NEW j \in DOMAIN threads, NEW entries \in Reveals,
                 RevealSolution(w, j, entries)
          PROVE  k \in DOMAIN threads' /\ threads'[k].completed = threads[k].completed
        <3>1. Reveal(threads[k], FromCliToFrames(entries)).completed = threads[k].completed
            BY DEF Reveal, Thread
        <3> QED
            BY <2>6, <3>1 DEF RevealSolution
    <2>7. ASSUME NEW w \in Providers, NEW j \in DOMAIN threads, NEW hashes \in Verifications,
                 SubmitValidation(w, j, hashes)
          PROVE  k \in DOMAIN threads' /\ threads'[k].completed = threads[k].completed
        BY <2>7 DEF SubmitValidation, Thread
    <2> QED
        BY <2>1, <2>2, <2>3, <2>4, <2>5, <2>6, <2>7 DEF Next, Submission, vars, EndBlock, AddWorker
<1>2. ASSUME NEW k \in DOMAIN threads', k \notin DOMAIN threads
      PROVE  ~threads'[k].completed
    BY <1>2, NewThreads DEF NewThread
<1> QED
    BY <1>1, <1>2

\* ... so that nobody wins a thread otherwise: who has won one keeps it.
LEMMA SameWon ==
    ASSUME CreditInv, [Next]_vars, ~Submission
    PROVE  \A w : WonBy(w)' = WonBy(w)
<1>1. TypeInv
    BY DEF CreditInv, MoneyInv
<1>2. \A k \in DOMAIN threads : threads[k].completed => threads'[k].proposedBy = threads[k].proposedBy
    BY <1>1, NextKeepsSolutions DEF CreditInv, KeepsSolution
<1> QED
    BY <1>1, <1>2, SameCompleted DEF WonBy

\* What the record of a worker shows is changed by its submissions only, and a new record
\* shows nothing.
LEMMA SameRecords ==
    ASSUME TypeInv, [Next]_vars, ~Submission
    PROVE  \A w \in DOMAIN workers' :
                IF w \in DOMAIN workers THEN workers'[w].solutions = workers[w].solutions
                ELSE workers'[w].solutions = 0
<1> SUFFICES ASSUME NEW w \in DOMAIN workers'
             PROVE  IF w \in DOMAIN workers THEN workers'[w].solutions = workers[w].solutions
                    ELSE workers'[w].solutions = 0
    OBVIOUS
<1>1. CASE UNCHANGED workers
    BY <1>1
<1>2. ASSUME NEW v \in Providers, NEW stake \in Stakes, AddWorker(v, stake)
      PROVE  IF w \in DOMAIN workers THEN workers'[w].solutions = workers[w].solutions
             ELSE workers'[w].solutions = 0
    BY <1>2 DEF AddWorker, Put, NewWorker
<1>3. ASSUME NEW v \in Providers, NEW k \in DOMAIN threads, SubscribeWorkerToTask(v, k)
      PROVE  IF w \in DOMAIN workers THEN workers'[w].solutions = workers[w].solutions
             ELSE workers'[w].solutions = 0
    BY <1>3 DEF SubscribeWorkerToTask, Assigned, TypeInv, TypeOK, Worker
<1>4. ASSUME NEW v \in Providers, NEW k \in DOMAIN threads, NEW hashes \in Verifications,
             SubmitValidation(v, k, hashes)
      PROVE  IF w \in DOMAIN workers THEN workers'[w].solutions = workers[w].solutions
             ELSE workers'[w].solutions = 0
    BY <1>4 DEF SubmitValidation, Released, TypeInv, TypeOK, Worker
<1> QED
    BY <1>1, <1>2, <1>3, <1>4 DEF Next, Submission, vars, BeginBlock, EndBlock,
        CreateVideoUpscalerTask, ProposeSolution, RevealSolution

\* SubmitSolution reads the winner again after releasing the workers of the thread, and
\* credits it with one solution.
LEMMA SubmissionCredits ==
    ASSUME TypeInv, NEW w \in Providers, NEW k \in DOMAIN threads, NEW d \in Dirs,
           SubmitSolution(w, k, d)
    PROVE  /\ DOMAIN workers' = DOMAIN workers
           /\ \A v \in DOMAIN workers :
                workers'[v].solutions = IF v = w THEN workers[v].solutions + 1
                                        ELSE workers[v].solutions
<1> DEFINE payment == GetWinnerReward(tasks[k[1]].reward.amount, tasks[k[1]].threadAmount)
<1>1. workers' = [v \in DOMAIN workers |-> AfterSubmission(v, w, k, payment)]
    BY DEF SubmitSolution
<1> HIDE DEF payment
<1>2. ASSUME NEW v \in DOMAIN workers
      PROVE  AfterSubmission(v, w, k, payment).solutions
                = IF v = w THEN workers[v].solutions + 1 ELSE workers[v].solutions
    <2>1. workers[v] \in Worker
        BY DEF TypeInv, TypeOK
    <2>2. PICK r : r = Released(workers[v])
        OBVIOUS
    <2>3. r \in Worker /\ r.solutions = workers[v].solutions
        BY <2>1, <2>2 DEF Released, Worker
    <2>4. [r EXCEPT !.solutions = @ + 1, !.winnings = @ + payment].solutions = r.solutions + 1
        BY <2>3 DEF Worker
    <2> QED
        BY <2>2, <2>3, <2>4 DEF AfterSubmission, DeclareWinner
<1> QED
    BY <1>1, <1>2

\* A thread that is submitted is won by the worker that submits it, once more or at last.
LEMMA SubmissionWins ==
    ASSUME TypeInv, NEW w \in Providers, NEW k \in DOMAIN threads, NEW d \in Dirs,
           SubmitSolution(w, k, d)
    PROVE  \A v : WonBy(v)' = IF v = w THEN WonBy(v) \cup {k} ELSE WonBy(v)
<1> PICK before \in SUBSET Files : threads[k] \in Thread(before)
    BY DEF TypeInv, TypeOK, IsThread
<1>1. /\ threads' = [threads EXCEPT ![k].dir = d, ![k].completed = TRUE]
      /\ threads[k].proposedBy = w
    BY DEF SubmitSolution, CanSubmit
<1>2. threads'[k].completed /\ threads'[k].proposedBy = w
    BY <1>1 DEF Thread
<1>3. DOMAIN threads' = DOMAIN threads /\ \A j \in DOMAIN threads \ {k} : threads'[j] = threads[j]
    BY <1>1
<1> QED
    BY <1>1, <1>2, <1>3 DEF WonBy

\* Every completed thread stays credited, whichever messages are executed.
LEMMA CreditInvariant == Spec => []CreditInv
<1>1. Init => CreditInv
    BY InitMoney DEF Init, CreditInv
<1>2. CreditInv /\ [Next]_vars => CreditInv'
    <2> SUFFICES ASSUME CreditInv, [Next]_vars
                 PROVE  CreditInv'
        OBVIOUS
    <2>1. MoneyInv' /\ TypeInv
        BY NextMoney DEF CreditInv, MoneyInv
    <2>2. \A w \in DOMAIN workers : workers[w].solutions \in Nat
        BY <2>1 DEF TypeInv, TypeOK, Worker
    <2>3. CASE Submission
        <3>1. PICK w \in Providers, k \in DOMAIN threads, d \in Dirs : SubmitSolution(w, k, d)
            BY <2>3 DEF Submission
        <3>2. ASSUME NEW j \in DOMAIN threads', threads'[j].completed
              PROVE  HasSolution(threads'[j])
            <4>1. j \in DOMAIN threads
                BY <3>1 DEF SubmitSolution
            <4>2. PICK before \in SUBSET Files : threads[j] \in Thread(before)
                BY <2>1, <4>1 DEF TypeInv, TypeOK, IsThread
            <4>3. threads'[j].proposedBy = threads[j].proposedBy
                BY <3>1, <4>1, <4>2 DEF SubmitSolution, Thread
            <4>4. CASE j = k
                BY <3>1, <4>3, <4>4, AccountsAssumption DEF SubmitSolution, CanSubmit, Accounts, HasSolution
            <4>5. CASE j # k
                BY <3>1, <3>2, <4>1, <4>3, <4>5 DEF SubmitSolution, CreditInv, HasSolution
            <4> QED
                BY <4>4, <4>5
        <3>3. ASSUME NEW v \in DOMAIN workers'
              PROVE  IsFiniteSet(WonBy(v)') /\ Cardinality(WonBy(v)') <= workers'[v].solutions
            <4>1. v \in DOMAIN workers
                BY <2>1, <3>1, SubmissionCredits
            <4>2. PICK won, now : won = WonBy(v) /\ now = WonBy(v)'
                OBVIOUS
            <4>3. IsFiniteSet(won) /\ Cardinality(won) <= workers[v].solutions
                BY <4>1, <4>2 DEF CreditInv
            <4>4. now = IF v = w THEN won \cup {k} ELSE won
                BY <2>1, <3>1, <4>2, SubmissionWins
            <4>5. workers'[v].solutions = IF v = w THEN workers[v].solutions + 1
                                          ELSE workers[v].solutions
                BY <2>1, <3>1, <4>1, SubmissionCredits
            <4>6. /\ IsFiniteSet(won \cup {k})
                  /\ Cardinality(won \cup {k}) <= Cardinality(won) + 1
                  /\ Cardinality(won) \in Nat /\ Cardinality(won \cup {k}) \in Nat
                <5>1. Cardinality(won) \in Nat
                    BY <4>3, FS_CardinalityType
                <5>2. /\ IsFiniteSet(won \cup {k})
                      /\ Cardinality(won \cup {k}) = Cardinality(won)
                         \/ Cardinality(won \cup {k}) = Cardinality(won) + 1
                    BY <4>3, FS_AddElement, Zenon
                <5> QED
                    BY <5>1, <5>2
            <4>7. IsFiniteSet(now) /\ Cardinality(now) <= workers'[v].solutions
                BY <2>2, <4>1, <4>3, <4>4, <4>5, <4>6
            <4> QED
                BY <4>2, <4>7
        <3> QED
            BY <2>1, <3>2, <3>3 DEF CreditInv
    <2>4. CASE ~Submission
        <3>1. ASSUME NEW k \in DOMAIN threads', threads'[k].completed
              PROVE  HasSolution(threads'[k])
            BY <2>1, <2>4, <3>1, SameCompleted, NextKeepsSolutions
                DEF CreditInv, KeepsSolution, HasSolution
        <3>2. ASSUME NEW w \in DOMAIN workers'
              PROVE  IsFiniteSet(WonBy(w)') /\ Cardinality(WonBy(w)') <= workers'[w].solutions
            <4>1. WonBy(w)' = WonBy(w)
                BY <2>4, SameWon
            <4>2. CASE w \in DOMAIN workers
                BY <2>1, <2>4, <4>1, <4>2, SameRecords DEF CreditInv
            <4>3. CASE w \notin DOMAIN workers
                <5>1. WonBy(w) = {}
                    BY <4>3 DEF CreditInv, MoneyInv, ProposersAreWorkers, WonBy
                <5>2. workers'[w].solutions = 0
                    BY <2>1, <2>4, <4>3, SameRecords
                <5> QED
                    BY <4>1, <5>1, <5>2, FS_EmptySet
            <4> QED
                BY <4>2, <4>3
        <3> QED
            BY <2>1, <3>1, <3>2 DEF CreditInv
    <2> QED
        BY <2>3, <2>4
<1> QED
    BY <1>1, <1>2, PTL DEF Spec

\* SubmitSolution writes the winner twice, from two reads of the store, and the same
\* solution may be submitted again: whatever order the messages of any number of workers
\* come in, each worker is credited for every thread it has won.
THEOREM CompletedIsCredited == Spec => []CompletedThreadsAreCredited
<1>1. CreditInv => CompletedThreadsAreCredited
    BY DEF CreditInv, MoneyInv, ProposersAreWorkers, CompletedThreadsAreCredited, WonBy
<1> QED
    BY <1>1, CreditInvariant, PTL

=============================================================================
