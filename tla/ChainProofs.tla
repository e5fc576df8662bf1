---------------------------- MODULE ChainProofs ----------------------------
(***************************************************************************)
(* Theorems about the replicated state of the video upscaler module, for   *)
(* any accounts, parameters, files and messages, and with none of the      *)
(* bounds a model checker needs.                                           *)
(***************************************************************************)
EXTENDS ChainProperties, ThreadRulesProofs

-----------------------------------------------------------------------------
(* Type correctness. *)

\* How the parts of the store fit together: a thread belongs to a stored task that
\* has an id already given out, a reward and at least one thread.  TypeOK needs it:
\* the reward of a winner is divided by the number of threads of the task.
StoreShape ==
    /\ IsFiniteSet(DOMAIN workers)
    /\ \A k \in DOMAIN threads :
        /\ k[1] \in DOMAIN tasks
        /\ k[1] < nextId
        /\ tasks[k[1]].threadAmount # 0
        /\ tasks[k[1]].reward \in Coin

TypeInv == TypeOK /\ StoreShape

\* InitGenesis gives a store of the right types.
LEMMA InitTypeInv == Init => TypeInv
<1> SUFFICES ASSUME Init
             PROVE  TypeInv
    OBVIOUS
<1>1. balance \in [Accounts -> Nat]
    BY ParamsAssumption DEF Init
<1>2. DOMAIN tasks = {} /\ DOMAIN threads = {} /\ DOMAIN workers = {}
    BY DEF Init
<1>3. tasks \in [DOMAIN tasks -> Task] /\ workers \in [DOMAIN workers -> Worker]
    BY <1>2 DEF Init
<1>4. IsFiniteSet(DOMAIN workers)
    BY <1>2, FS_EmptySet
<1> QED
    BY <1>1, <1>2, <1>3, <1>4, ParamsAssumption DEF Init, TypeInv, TypeOK, StoreShape

\* A new thread, with any number of frames to produce, has the type of a thread.
LEMMA NewThreadType ==
    ASSUME NEW size \in Int
    PROVE  IsThread(NewThread(size))
<1>1. << >> \in [{} -> Frame] /\ << >> \in Seq(Providers) /\ << >> \in Seq(Validation)
    OBVIOUS
<1> QED
    BY <1>1 DEF IsThread, Thread, NewThread

\* A created task, with the threads GenerateThreads makes, has the right types.
LEMMA CreateTypeInv ==
    ASSUME TypeInv,
           NEW a \in Requesters, NEW input \in FrameInputs, NEW reward \in Rewards,
           CreateVideoUpscalerTask(a, input, reward)
    PROVE  TypeInv'
<1>1. /\ input \in [start : Int, end : Int, threads : Int]
      /\ reward \in Coin
      /\ input.threads \in Nat \ {0}
    BY MessagesAssumption DEF CreateVideoUpscalerTask
<1>2. nextId \in Nat \ {0} /\ nextId' = nextId + 1
    BY DEF TypeInv, TypeOK, CreateVideoUpscalerTask
<1>3. tasks' = Put(tasks, nextId,
            [completed |-> FALSE, reward |-> reward, threadAmount |-> input.threads])
    BY DEF CreateVideoUpscalerTask
<1> DEFINE new == { << nextId, i >> : i \in 0 .. input.threads - 1 }
<1>4. /\ DOMAIN threads' = DOMAIN threads \cup new
      /\ \A k \in DOMAIN threads' : threads'[k] =
            IF k[1] = nextId
            THEN NewThread(ThreadSize(input.start, input.end, input.threads, k[2]))
            ELSE threads[k]
    BY DEF CreateVideoUpscalerTask
<1>5. \A k \in new : k \in ThreadKeys /\ k[1] = nextId /\ k[2] \in Nat
    BY <1>1, <1>2 DEF ThreadKeys
<1>6. \A k \in DOMAIN threads : k \in ThreadKeys /\ k[1] # nextId
    BY <1>2 DEF TypeInv, TypeOK, StoreShape, ThreadKeys
<1>7. \A k \in DOMAIN threads' : IsThread(threads'[k])
    <2> SUFFICES ASSUME NEW k \in DOMAIN threads'
                 PROVE  IsThread(threads'[k])
        OBVIOUS
    <2>1. CASE k \in DOMAIN threads
        BY <2>1, <1>4, <1>6 DEF TypeInv, TypeOK
    <2>2. CASE k \in new
        <3>1. k[2] \in Nat /\ k[1] = nextId
            BY <2>2, <1>5
        <3>2. ThreadSize(input.start, input.end, input.threads, k[2]) \in Int
            BY <1>1, <3>1, ThreadSizeType
        <3> QED
            BY <1>4, <3>1, <3>2, NewThreadType
    <2> QED
        BY <2>1, <2>2, <1>4
<1>8. /\ DOMAIN tasks' = DOMAIN tasks \cup {nextId}
      /\ DOMAIN tasks' \subseteq Nat \cup {NoTask}
      /\ tasks' \in [DOMAIN tasks' -> Task]
      /\ \A id \in DOMAIN tasks : id # nextId => tasks'[id] = tasks[id]
      /\ tasks'[nextId].threadAmount = input.threads /\ tasks'[nextId].reward = reward
    BY <1>1, <1>2, <1>3 DEF Put, TypeInv, TypeOK, Task
<1>9. balance' \in [Accounts -> Nat] /\ moduleBalance' \in Nat
    BY <1>1 DEF Coin, CreateVideoUpscalerTask, TypeInv, TypeOK, Accounts
<1>10. UNCHANGED << phase, minValidators, workers >>
    BY DEF CreateVideoUpscalerTask
<1>11. TypeOK'
    <2>1. DOMAIN threads' \subseteq ThreadKeys
        BY <1>4, <1>5, <1>6
    <2> QED
        BY <2>1, <1>2, <1>7, <1>8, <1>9, <1>10 DEF TypeInv, TypeOK
<1>12. StoreShape'
    <2>1. IsFiniteSet(DOMAIN workers')
        BY <1>10 DEF TypeInv, StoreShape
    <2>2. ASSUME NEW k \in DOMAIN threads'
          PROVE  /\ k[1] \in DOMAIN tasks' /\ k[1] < nextId'
                 /\ tasks'[k[1]].threadAmount # 0 /\ tasks'[k[1]].reward \in Coin
        <3>1. CASE k \in DOMAIN threads
            <4>1. /\ k[1] \in Nat /\ k[1] \in DOMAIN tasks /\ k[1] < nextId /\ k[1] # nextId
                  /\ tasks[k[1]].threadAmount # 0 /\ tasks[k[1]].reward \in Coin
                BY <3>1, <1>6 DEF TypeInv, StoreShape, ThreadKeys
            <4> QED
                BY <4>1, <1>2, <1>8
        <3>2. CASE k \in new
            BY <3>2, <1>1, <1>2, <1>5, <1>8
        <3> QED
            BY <3>1, <3>2, <1>4
    <2> QED
        BY <2>1, <2>2 DEF StoreShape
<1> QED
    BY <1>11, <1>12 DEF TypeInv

\* A registered worker has the right types, and nobody stakes what it does not own.
LEMMA AddWorkerTypeInv ==
    ASSUME TypeInv, NEW w \in Providers, NEW stake \in Stakes, AddWorker(w, stake)
    PROVE  TypeInv'
<1>1. stake \in Nat /\ NewWorker(stake) \in Worker
    BY MessagesAssumption DEF NewWorker, Worker
<1>2. /\ DOMAIN workers' = DOMAIN workers \cup {w}
      /\ workers' \in [DOMAIN workers' -> Worker]
    BY <1>1 DEF AddWorker, Put, TypeInv, TypeOK
<1>3. IsFiniteSet(DOMAIN workers')
    BY <1>2, FS_AddElement DEF TypeInv, StoreShape
<1>4. balance' \in [Accounts -> Nat] /\ moduleBalance' \in Nat
    BY <1>1 DEF AddWorker, TypeInv, TypeOK, Accounts
<1>5. UNCHANGED << phase, minValidators, nextId, tasks, threads >>
    BY DEF AddWorker
<1> QED
    BY <1>2, <1>3, <1>4, <1>5 DEF TypeInv, TypeOK, StoreShape

\* A step that rewrites threads and workers in place keeps the type of the store.
LEMMA InPlaceTypeInv ==
    ASSUME TypeInv,
           UNCHANGED << nextId, tasks >>,
           phase' \in {"begin", "deliver"}, minValidators' \in Nat,
           DOMAIN threads' = DOMAIN threads,
           \A k \in DOMAIN threads : IsThread(threads'[k]),
           DOMAIN workers' = DOMAIN workers,
           workers' \in [DOMAIN workers' -> Worker],
           balance' \in [Accounts -> Nat], moduleBalance' \in Nat
    PROVE  TypeInv'
<1>1. TypeOK'
    BY DEF TypeInv, TypeOK
<1>2. StoreShape'
    BY DEF TypeInv, StoreShape
<1> QED
    BY <1>1, <1>2 DEF TypeInv

\* A step that rewrites one thread and nothing but that thread and the workers.
LEMMA OneThreadTypeInv ==
    ASSUME TypeInv, NEW k \in DOMAIN threads, NEW thread,
           threads' = [threads EXCEPT ![k] = thread], IsThread(thread),
           UNCHANGED << phase, minValidators, nextId, tasks, balance, moduleBalance >>,
           DOMAIN workers' = DOMAIN workers,
           workers' \in [DOMAIN workers' -> Worker]
    PROVE  TypeInv'
<1>1. /\ phase' \in {"begin", "deliver"} /\ minValidators' \in Nat
      /\ balance' \in [Accounts -> Nat] /\ moduleBalance' \in Nat
    BY DEF TypeInv, TypeOK
<1>2. DOMAIN threads' = DOMAIN threads
    OBVIOUS
<1>3. \A j \in DOMAIN threads : IsThread(threads'[j])
    BY DEF TypeInv, TypeOK
<1> QED
    BY <1>1, <1>2, <1>3, InPlaceTypeInv

\* SubscribeWorkerToTask keeps the types.
LEMMA SubscribeTypeInv ==
    ASSUME TypeInv, NEW w \in Providers, NEW k \in DOMAIN threads, SubscribeWorkerToTask(w, k)
    PROVE  TypeInv'
<1> DEFINE thread == [threads[k] EXCEPT !.workers = Append(@, w)]
<1>1. PICK files \in SUBSET Files : threads[k] \in Thread(files)
    BY DEF TypeInv, TypeOK, IsThread
<1>2. Append(threads[k].workers, w) \in Seq(Providers)
    BY <1>1, AppendProperties DEF Thread
<1>3. IsThread(thread)
    BY <1>1, <1>2 DEF IsThread, Thread
<1>4. threads' = [threads EXCEPT ![k] = thread]
    BY DEF SubscribeWorkerToTask
<1>5. k[1] \in Nat /\ k[2] \in Nat
    BY DEF TypeInv, TypeOK, ThreadKeys
<1>6. DOMAIN workers' = DOMAIN workers /\ workers' \in [DOMAIN workers' -> Worker]
    BY <1>5 DEF SubscribeWorkerToTask, CanSubscribe, Assigned, TypeInv, TypeOK, Worker
<1>7. UNCHANGED << phase, minValidators, nextId, tasks, balance, moduleBalance >>
    BY DEF SubscribeWorkerToTask
<1> QED
    BY <1>3, <1>4, <1>6, <1>7, OneThreadTypeInv

\* ProposeSolution keeps the types.
LEMMA ProposeTypeInv ==
    ASSUME TypeInv, NEW w \in Providers, NEW k \in DOMAIN threads, NEW files \in Proposals,
           ProposeSolution(w, k, files)
    PROVE  TypeInv'
<1> DEFINE frames == [f \in files |-> [hash |-> NoHash, valid |-> 0, invalid |-> 0]]
           thread == [threads[k] EXCEPT !.proposedBy = w, !.frames = frames]
<1>1. PICK before \in SUBSET Files : threads[k] \in Thread(before)
    BY DEF TypeInv, TypeOK, IsThread
<1>2. frames \in [files -> Frame] /\ files \in SUBSET Files
    BY MessagesAssumption DEF Frame
<1>3. thread \in Thread(files)
    BY <1>1, <1>2 DEF Thread
<1>4. threads' = [threads EXCEPT ![k] = thread]
    BY DEF ProposeSolution
<1>5. /\ UNCHANGED << phase, minValidators, nextId, tasks, balance, moduleBalance >>
      /\ workers' = workers
    BY DEF ProposeSolution
<1>6. workers' \in [DOMAIN workers' -> Worker]
    BY <1>5 DEF TypeInv, TypeOK
<1>7. IsThread(thread)
    BY <1>2, <1>3 DEF IsThread
<1> QED
    BY <1>4, <1>5, <1>6, <1>7, OneThreadTypeInv

\* RevealSolution keeps the types, whatever FromCliToFrames makes of its entries.
LEMMA RevealTypeInv ==
    ASSUME TypeInv, NEW w \in Providers, NEW k \in DOMAIN threads, NEW entries \in Reveals,
           RevealSolution(w, k, entries)
    PROVE  TypeInv'
<1> DEFINE parsed == FromCliToFrames(entries)
           thread == Reveal(threads[k], parsed)
<1>1. PICK files \in SUBSET Files : threads[k] \in Thread(files)
    BY DEF TypeInv, TypeOK, IsThread
<1>2. \A f \in DOMAIN parsed : parsed[f] \in Hashes \cup {NoHash}
    BY MessagesAssumption, FromCliToFramesType
<1>3. thread.frames \in [files -> Frame]
    BY <1>1, <1>2 DEF Reveal, Thread, Frame
<1>4. thread \in Thread(files)
    BY <1>1, <1>3 DEF Reveal, Thread
<1>5. threads' = [threads EXCEPT ![k] = thread]
    BY DEF RevealSolution
<1>6. /\ UNCHANGED << phase, minValidators, nextId, tasks, balance, moduleBalance >>
      /\ workers' = workers
    BY DEF RevealSolution
<1>7. workers' \in [DOMAIN workers' -> Worker]
    BY <1>6 DEF TypeInv, TypeOK
<1>8. IsThread(thread)
    BY <1>4 DEF IsThread
<1> QED
    BY <1>5, <1>6, <1>7, <1>8, OneThreadTypeInv

\* SubmitValidation keeps the types.
LEMMA ValidateTypeInv ==
    ASSUME TypeInv, NEW w \in Providers, NEW k \in DOMAIN threads, NEW hashes \in Verifications,
           SubmitValidation(w, k, hashes)
    PROVE  TypeInv'
<1> DEFINE validation ==
               [validator |-> w, isReverse |-> IsReverse(threads[k], w), hashes |-> hashes]
           thread == [threads[k] EXCEPT !.validations = Append(@, validation)]
<1>1. PICK files \in SUBSET Files : threads[k] \in Thread(files)
    BY DEF TypeInv, TypeOK, IsThread
<1>2. IsReverse(threads[k], w) \in BOOLEAN
    BY DEF IsReverse
<1>3. validation \in Validation
    BY <1>2, MessagesAssumption DEF Validation
<1>4. Append(threads[k].validations, validation) \in Seq(Validation)
    BY <1>1, <1>3, AppendProperties DEF Thread
<1>5. IsThread(thread)
    BY <1>1, <1>4 DEF IsThread, Thread
<1>6. threads' = [threads EXCEPT ![k] = thread]
    BY DEF SubmitValidation
<1>7. DOMAIN workers' = DOMAIN workers /\ workers' \in [DOMAIN workers' -> Worker]
    BY DEF SubmitValidation, Released, TypeInv, TypeOK, Worker
<1>8. UNCHANGED << phase, minValidators, nextId, tasks, balance, moduleBalance >>
    BY DEF SubmitValidation
<1> QED
    BY <1>5, <1>6, <1>7, <1>8, OneThreadTypeInv

\* What the methods of Worker return is a worker.
LEMMA WorkerMethodsType ==
    ASSUME NEW worker \in Worker, NEW payment \in Nat
    PROVE  Released(worker) \in Worker /\ DeclareWinner(worker, payment) \in Worker
<1>1. Released(worker) \in Worker
    BY DEF Released, Worker
<1>2. ASSUME NEW w \in Worker
      PROVE  [w EXCEPT !.solutions = @ + 1, !.winnings = @ + payment] \in Worker
    <2>1. w.solutions + 1 \in Nat /\ w.winnings + payment \in Nat
        BY DEF Worker
    <2> QED
        BY <2>1 DEF Worker
<1> QED
    BY <1>1, <1>2 DEF DeclareWinner

\* SubmitSolution keeps the types, and its reward is a number.
LEMMA SubmitTypeInv ==
    ASSUME TypeInv, NEW w \in Providers, NEW k \in DOMAIN threads, NEW dir \in Dirs,
           SubmitSolution(w, k, dir)
    PROVE  TypeInv'
<1> DEFINE payment == GetWinnerReward(tasks[k[1]].reward.amount, tasks[k[1]].threadAmount)
           thread == [threads[k] EXCEPT !.dir = dir, !.completed = TRUE]
<1>1. PICK files \in SUBSET Files : threads[k] \in Thread(files)
    BY DEF TypeInv, TypeOK, IsThread
<1>2. IsThread(thread)
    BY <1>1 DEF IsThread, Thread
<1>3. payment \in Nat
    <2>1. tasks[k[1]].reward.amount \in Nat /\ tasks[k[1]].threadAmount \in Nat \ {0}
        BY DEF TypeInv, TypeOK, StoreShape, Task, Coin
    <2> QED
        BY <2>1, GetWinnerRewardType
<1>4. DOMAIN threads' = DOMAIN threads /\ \A j \in DOMAIN threads : IsThread(threads'[j])
    <2>1. threads' = [threads EXCEPT ![k] = thread]
        BY DEF SubmitSolution
    <2> QED
        BY <1>2, <2>1 DEF TypeInv, TypeOK
<1>5. DOMAIN workers' = DOMAIN workers /\ workers' \in [DOMAIN workers' -> Worker]
    <2>1. workers' = [v \in DOMAIN workers |-> AfterSubmission(v, w, k, payment)]
        BY DEF SubmitSolution
    <2>2. ASSUME NEW v \in DOMAIN workers
          PROVE  AfterSubmission(v, w, k, payment) \in Worker
        <3>1. workers[v] \in Worker
            BY DEF TypeInv, TypeOK
        <3>2. Released(workers[v]) \in Worker /\ DeclareWinner(workers[v], payment) \in Worker
            BY <3>1, <1>3, WorkerMethodsType
        <3> QED
            BY <3>1, <3>2 DEF AfterSubmission
    <2> QED
        BY <2>1, <2>2
<1>6. balance' \in [Accounts -> Nat] /\ moduleBalance' \in Nat
    BY <1>3 DEF SubmitSolution, CanPay, TypeInv, TypeOK, Accounts
<1>7. UNCHANGED << phase, minValidators, nextId, tasks >>
    BY DEF SubmitSolution
<1>8. phase' \in {"begin", "deliver"} /\ minValidators' \in Nat
    BY <1>7 DEF TypeInv, TypeOK
<1> QED
    BY <1>4, <1>5, <1>6, <1>7, <1>8, InPlaceTypeInv

\* The evaluation of a thread changes nothing but the counts of its frames, and the
\* verdict.
LEMMA EvaluatedType ==
    ASSUME TypeInv, NEW k \in DOMAIN threads
    PROVE  IsThread(Evaluated(k))
<1>1. PICK files \in SUBSET Files : threads[k] \in Thread(files)
    BY DEF TypeInv, TypeOK, IsThread
<1>2. /\ threads[k].frames \in [files -> Frame] /\ DOMAIN threads[k].frames = files
      /\ threads[k].validations \in Seq(Validation)
      /\ IsFiniteSet(files)
    BY <1>1, FilesAssumption, FS_Subset DEF Thread
<1>3. \A f \in files : /\ Cardinality(AgreeOn(threads[k], f)) \in Nat
                       /\ Cardinality(DifferOn(threads[k], f)) \in Nat
    BY <1>2, CountsType
<1>4. EvaluateVerifications(threads[k]).frames \in [files -> Frame]
    BY <1>1, <1>2, <1>3 DEF EvaluateVerifications, Thread, Frame
<1>5. EvaluateVerifications(threads[k]) \in Thread(files)
    BY <1>1, <1>4 DEF EvaluateVerifications, Thread
<1>6. AcceptedNow(k) \in BOOLEAN
    BY DEF AcceptedNow, IsSolutionAccepted
<1> QED
    BY <1>1, <1>5, <1>6 DEF Evaluated, IsThread, Thread

\* The acceptance walk of BeginBlock keeps the types.
LEMMA BeginBlockTypeInv ==
    ASSUME TypeInv, BeginBlock
    PROVE  TypeInv'
<1>1. Cardinality(DOMAIN workers) \in Nat
    BY FS_CardinalityType DEF TypeInv, StoreShape
<1>2. phase' \in {"begin", "deliver"} /\ minValidators' \in Nat
    BY <1>1 DEF BeginBlock, TypeInv, TypeOK
<1>3. /\ DOMAIN threads' = DOMAIN threads
      /\ \A k \in DOMAIN threads : IsThread(threads'[k])
    BY EvaluatedType DEF BeginBlock, TypeInv, TypeOK
<1>4. UNCHANGED << nextId, tasks, workers, balance, moduleBalance >>
    BY DEF BeginBlock
<1>5. /\ workers' \in [DOMAIN workers' -> Worker]
      /\ balance' \in [Accounts -> Nat] /\ moduleBalance' \in Nat
    BY <1>4 DEF TypeInv, TypeOK
<1> QED
    BY <1>2, <1>3, <1>4, <1>5, InPlaceTypeInv

\* EndBlock keeps every task, but for its being completed, and may store the
\* phantom task, to which no thread belongs.
LEMMA CompletedTasksShape ==
    ASSUME TypeInv
    PROVE  /\ DOMAIN tasks \subseteq DOMAIN CompletedTasks
           /\ DOMAIN CompletedTasks \subseteq DOMAIN tasks \cup {NoTask}
           /\ CompletedTasks \in [DOMAIN CompletedTasks -> Task]
           /\ \A id \in DOMAIN tasks : id # NoTask =>
                /\ CompletedTasks[id].threadAmount = tasks[id].threadAmount
                /\ CompletedTasks[id].reward = tasks[id].reward
<1> DEFINE scanned == 0 .. nextId - 1
           closed == [id \in DOMAIN tasks |->
                        IF id \in scanned /\ AllThreadsCompleted(id)
                        THEN [tasks[id] EXCEPT !.completed = TRUE]
                        ELSE tasks[id]]
<1>1. /\ closed \in [DOMAIN tasks -> Task]
      /\ \A id \in DOMAIN tasks : /\ closed[id].threadAmount = tasks[id].threadAmount
                                  /\ closed[id].reward = tasks[id].reward
    <2>1. ASSUME NEW id \in DOMAIN tasks
          PROVE  /\ [tasks[id] EXCEPT !.completed = TRUE] \in Task
                 /\ [tasks[id] EXCEPT !.completed = TRUE].threadAmount = tasks[id].threadAmount
                 /\ [tasks[id] EXCEPT !.completed = TRUE].reward = tasks[id].reward
                 /\ tasks[id] \in Task
        BY DEF TypeInv, TypeOK, Task
    <2> QED
        BY <2>1
<1>2. PhantomTask \in Task
    BY DEF PhantomTask, Task
<1>3. CompletedTasks = closed \/ CompletedTasks = Put(closed, NoTask, PhantomTask)
    BY DEF CompletedTasks, CompletedIn
<1> HIDE DEF closed
<1>4. DOMAIN closed = DOMAIN tasks
    BY <1>1
<1> DEFINE put == Put(closed, NoTask, PhantomTask)
<1>5. /\ DOMAIN put = DOMAIN tasks \cup {NoTask}
      /\ put \in [DOMAIN put -> Task]
      /\ \A id \in DOMAIN tasks : id # NoTask =>
            put[id].threadAmount = tasks[id].threadAmount /\ put[id].reward = tasks[id].reward
    BY <1>1, <1>2, <1>4 DEF Put
<1> QED
    BY <1>1, <1>3, <1>4, <1>5

\* EndBlock keeps the types, the task it stores under the first id included.
LEMMA EndBlockTypeInv ==
    ASSUME TypeInv, EndBlock
    PROVE  TypeInv'
<1>1. tasks' = CompletedTasks /\ phase' = "begin"
    BY DEF EndBlock
<1>2. UNCHANGED << minValidators, nextId, threads, workers, balance, moduleBalance >>
    BY DEF EndBlock
<1>3. TypeOK'
    BY <1>1, <1>2, CompletedTasksShape DEF TypeInv, TypeOK
<1>4. \A k \in DOMAIN threads : k[1] \in Nat /\ k[1] # NoTask
    BY DEF TypeInv, TypeOK, ThreadKeys, NoTask
<1>5. StoreShape'
    BY <1>1, <1>2, <1>4, CompletedTasksShape DEF TypeInv, StoreShape
<1> QED
    BY <1>3, <1>5 DEF TypeInv

\* Every step keeps the types.
LEMMA NextTypeInv == TypeInv /\ [Next]_vars => TypeInv'
<1> SUFFICES ASSUME TypeInv, [Next]_vars
             PROVE  TypeInv'
    OBVIOUS
<1>1. CASE BeginBlock
    BY <1>1, BeginBlockTypeInv
<1>2. CASE EndBlock
    BY <1>2, EndBlockTypeInv
<1>3. CASE \E a \in Requesters, input \in FrameInputs, reward \in Rewards :
                CreateVideoUpscalerTask(a, input, reward)
    BY <1>3, CreateTypeInv
<1>4. CASE \E w \in Providers, stake \in Stakes : AddWorker(w, stake)
    BY <1>4, AddWorkerTypeInv
<1>5. CASE \E w \in Providers, k \in DOMAIN threads : SubscribeWorkerToTask(w, k)
    BY <1>5, SubscribeTypeInv
<1>6. CASE \E w \in Providers, k \in DOMAIN threads, files \in Proposals :
                ProposeSolution(w, k, files)
    BY <1>6, ProposeTypeInv
<1>7. CASE \E w \in Providers, k \in DOMAIN threads, entries \in Reveals :
                RevealSolution(w, k, entries)
    BY <1>7, RevealTypeInv
<1>8. CASE \E w \in Providers, k \in DOMAIN threads, hashes \in Verifications :
                SubmitValidation(w, k, hashes)
    BY <1>8, ValidateTypeInv
<1>9. CASE \E w \in Providers, k \in DOMAIN threads, dir \in Dirs : SubmitSolution(w, k, dir)
    BY <1>9, SubmitTypeInv
<1>10. CASE UNCHANGED vars
    BY <1>10 DEF vars, TypeInv, TypeOK, StoreShape
<1> QED
    BY <1>1, <1>2, <1>3, <1>4, <1>5, <1>6, <1>7, <1>8, <1>9, <1>10 DEF Next

\* Every message, with any content it may have, and every block leave a store of the
\* right type; in particular no balance is ever negative.
THEOREM TypeCorrect == Spec => []TypeOK
<1>1. TypeInv => TypeOK
    BY DEF TypeInv
<1> QED
    BY <1>1, InitTypeInv, NextTypeInv, PTL DEF Spec

-----------------------------------------------------------------------------
(* Assignments.                                                            *)
(*                                                                         *)
(* Each of the two invariants needs the other: a completed thread has      *)
(* released all its workers because SubmitSolution releases the workers it *)
(* lists, and every worker that is on it is listed.                        *)

Assignments == AssignedWorkerIsListed /\ CompletedThreadReleasesWorkers

\* The worker v is after the step where it was before it.
Stays(v) ==
    /\ v \in DOMAIN workers
    /\ workers'[v].currentTaskId = workers[v].currentTaskId
    /\ workers'[v].currentThreadIndex = workers[v].currentThreadIndex

\* A step that keeps the lists of workers, and moves a worker only to make it idle,
\* keeps every worker listed.
LEMMA KeepsListed ==
    ASSUME AssignedWorkerIsListed,
           DOMAIN threads \subseteq DOMAIN threads',
           \A k \in DOMAIN threads : threads'[k].workers = threads[k].workers,
           \A v \in DOMAIN workers' : Stays(v) \/ workers'[v].currentTaskId = NoTask
    PROVE  AssignedWorkerIsListed'
<1> SUFFICES ASSUME NEW v \in DOMAIN workers', ~IsIdle(v)'
             PROVE  /\ CurrentThread(v)' \in DOMAIN threads'
                    /\ v \in Range(threads'[CurrentThread(v)'].workers)
    BY DEF AssignedWorkerIsListed
<1>1. Stays(v)
    BY DEF IsIdle
<1>2. CurrentThread(v)' = CurrentThread(v) /\ ~IsIdle(v) /\ v \in DOMAIN workers
    BY <1>1 DEF Stays, CurrentThread, IsIdle
<1>3. CurrentThread(v) \in DOMAIN threads /\ v \in Range(threads[CurrentThread(v)].workers)
    BY <1>2 DEF AssignedWorkerIsListed
<1> QED
    BY <1>2, <1>3

\* If such a step completes no thread either, no worker is on a completed one.
LEMMA KeepsAssignments ==
    ASSUME TypeInv', Assignments,
           DOMAIN threads \subseteq DOMAIN threads',
           \A k \in DOMAIN threads : threads'[k].workers = threads[k].workers,
           \A k \in DOMAIN threads' :
                threads'[k].completed => k \in DOMAIN threads /\ threads[k].completed,
           \A v \in DOMAIN workers' : Stays(v) \/ workers'[v].currentTaskId = NoTask
    PROVE  Assignments'
<1>1. AssignedWorkerIsListed'
    BY KeepsListed DEF Assignments
<1>2. CompletedThreadReleasesWorkers'
    <2> SUFFICES ASSUME NEW k \in DOMAIN threads', threads'[k].completed,
                        NEW v \in DOMAIN workers', CurrentThread(v)' = k
                 PROVE  FALSE
        BY DEF CompletedThreadReleasesWorkers
    <2>1. workers'[v].currentTaskId # NoTask
        BY DEF TypeInv, TypeOK, ThreadKeys, CurrentThread, NoTask
    <2>2. Stays(v)
        BY <2>1
    <2>3. CurrentThread(v) = k /\ v \in DOMAIN workers
        BY <2>2 DEF Stays, CurrentThread
    <2> QED
        BY <2>3 DEF Assignments, CompletedThreadReleasesWorkers
<1> QED
    BY <1>1, <1>2 DEF Assignments

\* A worker that subscribes is on an open thread that lists it.
LEMMA SubscribeAssignments ==
    ASSUME TypeInv, TypeInv', Assignments,
           NEW w \in Providers, NEW k \in DOMAIN threads, SubscribeWorkerToTask(w, k)
    PROVE  Assignments'
<1>1. /\ DOMAIN threads' = DOMAIN threads
      /\ threads'[k].workers = Append(threads[k].workers, w)
      /\ \A j \in DOMAIN threads : j # k => threads'[j] = threads[j]
      /\ \A j \in DOMAIN threads : threads'[j].completed = threads[j].completed
    <2>1. PICK files \in SUBSET Files : threads[k] \in Thread(files)
        BY DEF TypeInv, TypeOK, IsThread
    <2> QED
        BY <2>1 DEF SubscribeWorkerToTask, Thread
<1>2. threads[k].workers \in Seq(Providers)
    BY DEF TypeInv, TypeOK, IsThread, Thread
<1>3. Range(threads'[k].workers) = Range(threads[k].workers) \cup {w}
    BY <1>1, <1>2, RangeOfAppend
<1>4. /\ w \in DOMAIN workers /\ DOMAIN workers' = DOMAIN workers
      /\ \A v \in DOMAIN workers : v # w => workers'[v] = workers[v]
    BY DEF SubscribeWorkerToTask, CanSubscribe
<1>5. CurrentThread(w)' = k
    <2>1. k = << k[1], k[2] >>
        BY DEF TypeInv, TypeOK, ThreadKeys
    <2>2. workers[w] \in Worker
        BY <1>4 DEF TypeInv, TypeOK
    <2> QED
        BY <1>4, <2>1, <2>2 DEF SubscribeWorkerToTask, Assigned, CurrentThread, Worker
<1>6. \A v \in DOMAIN workers : v # w =>
            CurrentThread(v)' = CurrentThread(v) /\ IsIdle(v)' = IsIdle(v)
    BY <1>4 DEF CurrentThread, IsIdle
<1>7. AssignedWorkerIsListed'
    <2> SUFFICES ASSUME NEW v \in DOMAIN workers', ~IsIdle(v)'
                 PROVE  /\ CurrentThread(v)' \in DOMAIN threads'
                        /\ v \in Range(threads'[CurrentThread(v)'].workers)
        BY DEF AssignedWorkerIsListed
    <2>1. CASE v = w
        BY <2>1, <1>1, <1>3, <1>5
    <2>2. CASE v # w
        <3>1. /\ CurrentThread(v)' = CurrentThread(v) /\ CurrentThread(v) \in DOMAIN threads
              /\ v \in Range(threads[CurrentThread(v)].workers)
            BY <2>2, <1>4, <1>6 DEF Assignments, AssignedWorkerIsListed
        <3> QED
            BY <3>1, <1>1, <1>3
    <2> QED
        BY <2>1, <2>2
<1>8. CompletedThreadReleasesWorkers'
    <2> SUFFICES ASSUME NEW j \in DOMAIN threads', threads'[j].completed,
                        NEW v \in DOMAIN workers'
                 PROVE  CurrentThread(v)' # j
        BY DEF CompletedThreadReleasesWorkers
    <2>1. threads[j].completed /\ j # k
        BY <1>1 DEF SubscribeWorkerToTask, CanSubscribe
    <2>2. CASE v = w
        BY <2>1, <2>2, <1>5
    <2>3. CASE v # w
        BY <2>1, <2>3, <1>1, <1>4, <1>6 DEF Assignments, CompletedThreadReleasesWorkers
    <2> QED
        BY <2>2, <2>3
<1> QED
    BY <1>7, <1>8 DEF Assignments

\* SubmitSolution releases every worker that is on the thread it completes.
LEMMA SubmitAssignments ==
    ASSUME TypeInv, TypeInv', Assignments,
           NEW w \in Providers, NEW k \in DOMAIN threads, NEW dir \in Dirs,
           SubmitSolution(w, k, dir)
    PROVE  Assignments'
<1> DEFINE payment == GetWinnerReward(tasks[k[1]].reward.amount, tasks[k[1]].threadAmount)
<1>1. /\ DOMAIN threads' = DOMAIN threads
      /\ \A j \in DOMAIN threads : threads'[j].workers = threads[j].workers
      /\ \A j \in DOMAIN threads : j # k => threads'[j] = threads[j]
    <2>1. PICK files \in SUBSET Files : threads[k] \in Thread(files)
        BY DEF TypeInv, TypeOK, IsThread
    <2> QED
        BY <2>1 DEF SubmitSolution, Thread
<1>2. workers' = [v \in DOMAIN workers |-> AfterSubmission(v, w, k, payment)]
    BY DEF SubmitSolution
<1>3. \A v \in DOMAIN workers : v = w \/ v \in StillOn(k) => workers'[v].currentTaskId = NoTask
    <2> SUFFICES ASSUME NEW v \in DOMAIN workers, v = w \/ v \in StillOn(k)
                 PROVE  workers'[v].currentTaskId = NoTask
        OBVIOUS
    <2>1. workers[v] \in Worker
        BY DEF TypeInv, TypeOK
    <2>2. /\ Released(workers[v]).currentTaskId = NoTask
          /\ DeclareWinner(workers[v], payment).currentTaskId = NoTask
        BY <2>1 DEF Released, DeclareWinner, Worker
    <2> QED
        BY <1>2, <2>2 DEF AfterSubmission
<1>4. \A v \in DOMAIN workers : ~(v = w \/ v \in StillOn(k)) => workers'[v] = workers[v]
    BY <1>2 DEF AfterSubmission
<1>5. \A v \in DOMAIN workers' : Stays(v) \/ workers'[v].currentTaskId = NoTask
    BY <1>2, <1>3, <1>4 DEF Stays
<1>6. AssignedWorkerIsListed'
    BY <1>1, <1>5, KeepsListed DEF Assignments
<1>7. CompletedThreadReleasesWorkers'
    <2> SUFFICES ASSUME NEW j \in DOMAIN threads', threads'[j].completed,
                        NEW v \in DOMAIN workers', CurrentThread(v)' = j
                 PROVE  FALSE
        BY DEF CompletedThreadReleasesWorkers
    <2>1. workers'[v].currentTaskId # NoTask
        BY DEF TypeInv, TypeOK, ThreadKeys, CurrentThread, NoTask
    <2>2. v \in DOMAIN workers /\ v \notin StillOn(k) /\ workers'[v] = workers[v]
        BY <1>2, <1>3, <1>4, <2>1
    <2>3. CurrentThread(v) = j /\ ~IsIdle(v)
        BY <2>1, <2>2 DEF CurrentThread, IsIdle
    <2>4. CASE j = k
        <3>1. v \in Range(threads[k].workers)
            BY <2>2, <2>3, <2>4 DEF Assignments, AssignedWorkerIsListed
        <3> QED
            BY <3>1, <2>2, <2>3, <2>4 DEF StillOn
    <2>5. CASE j # k
        BY <2>2, <2>3, <2>5, <1>1 DEF Assignments, CompletedThreadReleasesWorkers
    <2> QED
        BY <2>4, <2>5
<1> QED
    BY <1>6, <1>7 DEF Assignments

\* The other messages, and the blocks, keep the lists of workers and complete no
\* thread.
LEMMA NextAssignments ==
    TypeInv /\ TypeInv' /\ Assignments /\ [Next]_vars => Assignments'
<1> SUFFICES ASSUME TypeInv, TypeInv', Assignments, [Next]_vars
             PROVE  Assignments'
    OBVIOUS
<1> USE DEF Stays
<1>1. CASE BeginBlock
    <2>1. \A k \in DOMAIN threads : /\ Evaluated(k).workers = threads[k].workers
                                    /\ Evaluated(k).completed = threads[k].completed
        BY DEF TypeInv, TypeOK, IsThread, Thread, Evaluated, EvaluateVerifications
    <2> QED
        BY <1>1, <2>1, KeepsAssignments DEF BeginBlock
<1>2. CASE EndBlock
    BY <1>2, KeepsAssignments DEF EndBlock
<1>3. ASSUME NEW a \in Requesters, NEW input \in FrameInputs, NEW reward \in Rewards,
             CreateVideoUpscalerTask(a, input, reward)
      PROVE  Assignments'
    <2>1. \A k \in DOMAIN threads : threads'[k] = threads[k]
        BY <1>3 DEF CreateVideoUpscalerTask, TypeInv, TypeOK, StoreShape, ThreadKeys
    <2>2. \A k \in DOMAIN threads' : k \in DOMAIN threads \/ ~threads'[k].completed
        BY <1>3 DEF CreateVideoUpscalerTask, NewThread
    <2>3. DOMAIN threads \subseteq DOMAIN threads' /\ workers' = workers
        BY <1>3 DEF CreateVideoUpscalerTask
    <2> QED
        BY <2>1, <2>2, <2>3, KeepsAssignments
<1>4. ASSUME NEW w \in Providers, NEW stake \in Stakes, AddWorker(w, stake)
      PROVE  Assignments'
    <2>1. threads' = threads
        BY <1>4 DEF AddWorker
    <2>2. \A v \in DOMAIN workers' : Stays(v) \/ workers'[v].currentTaskId = NoTask
        BY <1>4 DEF AddWorker, Put, NewWorker
    <2> QED
        BY <2>1, <2>2, KeepsAssignments
<1>5. ASSUME NEW w \in Providers, NEW k \in DOMAIN threads, SubscribeWorkerToTask(w, k)
      PROVE  Assignments'
    BY <1>5, SubscribeAssignments
<1>6. ASSUME NEW w \in Providers, NEW k \in DOMAIN threads, NEW files \in Proposals,
             ProposeSolution(w, k, files)
      PROVE  Assignments'
    <2>1. PICK before \in SUBSET Files : threads[k] \in Thread(before)
        BY DEF TypeInv, TypeOK, IsThread
    <2> QED
        BY <1>6, <2>1, KeepsAssignments DEF ProposeSolution, Thread
<1>7. ASSUME NEW w \in Providers, NEW k \in DOMAIN threads, NEW entries \in Reveals,
             RevealSolution(w, k, entries)
      PROVE  Assignments'
    <2>1. PICK files \in SUBSET Files : threads[k] \in Thread(files)
        BY DEF TypeInv, TypeOK, IsThread
    <2>2. /\ Reveal(threads[k], FromCliToFrames(entries)).workers = threads[k].workers
          /\ Reveal(threads[k], FromCliToFrames(entries)).completed = threads[k].completed
        BY <2>1 DEF Reveal, Thread
    <2> QED
        BY <1>7, <2>2, KeepsAssignments DEF RevealSolution
<1>8. ASSUME NEW w \in Providers, NEW k \in DOMAIN threads, NEW hashes \in Verifications,
             SubmitValidation(w, k, hashes)
      PROVE  Assignments'
    <2>1. PICK files \in SUBSET Files : threads[k] \in Thread(files)
        BY DEF TypeInv, TypeOK, IsThread
    <2>2. /\ DOMAIN threads' = DOMAIN threads
          /\ \A j \in DOMAIN threads : /\ threads'[j].workers = threads[j].workers
                                       /\ threads'[j].completed = threads[j].completed
        BY <1>8, <2>1 DEF SubmitValidation, Thread
    <2>3. \A v \in DOMAIN workers' : Stays(v) \/ workers'[v].currentTaskId = NoTask
        BY <1>8 DEF SubmitValidation, Released, TypeInv, TypeOK, Worker
    <2> QED
        BY <2>2, <2>3, KeepsAssignments
<1>9. ASSUME NEW w \in Providers, NEW k \in DOMAIN threads, NEW dir \in Dirs,
             SubmitSolution(w, k, dir)
      PROVE  Assignments'
    BY <1>9, SubmitAssignments
<1>10. CASE UNCHANGED vars
    BY <1>10, KeepsAssignments DEF vars
<1> QED
    BY <1>1, <1>2, <1>3, <1>4, <1>5, <1>6, <1>7, <1>8, <1>9, <1>10 DEF Next

\* Worker records and lists of threads agree in every reachable store.
LEMMA AssignmentsInvariant == Spec => [](TypeInv /\ Assignments)
<1>1. Init => TypeInv /\ Assignments
    BY InitTypeInv DEF Init, Assignments, AssignedWorkerIsListed, CompletedThreadReleasesWorkers
<1>2. (TypeInv /\ Assignments) /\ [Next]_vars => (TypeInv /\ Assignments)'
    BY NextTypeInv, NextAssignments
<1> QED
    BY <1>1, <1>2, PTL DEF Spec

\* A worker that is not idle is on a stored thread that lists it, whatever order the
\* messages of any number of workers come in: the unchecked index of BeginBlock is
\* always in range, and the case RevealSolution and SubmitValidation say "shouldn't
\* happen" does not.
THEOREM AssignedIsListed == Spec => []AssignedWorkerIsListed
<1>1. TypeInv /\ Assignments => AssignedWorkerIsListed
    BY DEF Assignments
<1> QED
    BY <1>1, AssignmentsInvariant, PTL

\* SubmitSolution releases every worker of the thread it completes, and no worker
\* can be assigned to a completed thread afterwards.
THEOREM CompletedReleases == Spec => []CompletedThreadReleasesWorkers
<1>1. TypeInv /\ Assignments => CompletedThreadReleasesWorkers
    BY DEF Assignments
<1> QED
    BY <1>1, AssignmentsInvariant, PTL

-----------------------------------------------------------------------------
(* Solutions. *)

\* What a step may do to the solution and the validations of a stored thread.
KeepsSolution(k) ==
    /\ k \in DOMAIN threads'
    /\ HasSolution(threads[k]) =>
        /\ threads'[k].proposedBy = threads[k].proposedBy
        /\ DOMAIN threads'[k].frames = DOMAIN threads[k].frames
    /\ threads'[k].validations # threads[k].validations => HasSolution(threads[k])

\* No step removes a thread, or changes who proposed its solution.
LEMMA NextKeepsSolutions ==
    TypeInv /\ [Next]_vars => \A k \in DOMAIN threads : KeepsSolution(k)
<1> SUFFICES ASSUME TypeInv, [Next]_vars, NEW k \in DOMAIN threads
             PROVE  KeepsSolution(k)
    OBVIOUS
<1> USE DEF KeepsSolution
<1> PICK before \in SUBSET Files : threads[k] \in Thread(before)
    BY DEF TypeInv, TypeOK, IsThread
<1>1. CASE BeginBlock
    <2>1. /\ Evaluated(k).proposedBy = threads[k].proposedBy
          /\ DOMAIN Evaluated(k).frames = DOMAIN threads[k].frames
          /\ Evaluated(k).validations = threads[k].validations
        BY DEF Evaluated, EvaluateVerifications, Thread
    <2> QED
        BY <1>1, <2>1 DEF BeginBlock
<1>2. CASE EndBlock
    BY <1>2 DEF EndBlock
<1>3. ASSUME NEW a \in Requesters, NEW input \in FrameInputs, NEW reward \in Rewards,
             CreateVideoUpscalerTask(a, input, reward)
      PROVE  KeepsSolution(k)
    BY <1>3 DEF CreateVideoUpscalerTask, TypeInv, TypeOK, StoreShape, ThreadKeys
<1>4. ASSUME NEW w \in Providers, NEW stake \in Stakes, AddWorker(w, stake)
      PROVE  KeepsSolution(k)
    BY <1>4 DEF AddWorker
<1>5. ASSUME NEW w \in Providers, NEW j \in DOMAIN threads, SubscribeWorkerToTask(w, j)
      PROVE  KeepsSolution(k)
    BY <1>5 DEF SubscribeWorkerToTask, Thread
<1>6. ASSUME NEW w \in Providers, NEW j \in DOMAIN threads, NEW files \in Proposals,
             ProposeSolution(w, j, files)
      PROVE  KeepsSolution(k)
    BY <1>6 DEF ProposeSolution, CanPropose, Thread
<1>7. ASSUME NEW w \in Providers, NEW j \in DOMAIN threads, NEW entries \in Reveals,
             RevealSolution(w, j, entries)
      PROVE  KeepsSolution(k)
    <2>1. LET revealed == Reveal(threads[k], FromCliToFrames(entries))
          IN  /\ revealed.proposedBy = threads[k].proposedBy
              /\ DOMAIN revealed.frames = DOMAIN threads[k].frames
              /\ revealed.validations = threads[k].validations
        BY DEF Reveal, Thread
    <2> QED
        BY <1>7, <2>1 DEF RevealSolution
<1>8. ASSUME NEW w \in Providers, NEW j \in DOMAIN threads, NEW hashes \in Verifications,
             SubmitValidation(w, j, hashes)
      PROVE  KeepsSolution(k)
    BY <1>8 DEF SubmitValidation, CanValidate, Thread
<1>9. ASSUME NEW w \in Providers, NEW j \in DOMAIN threads, NEW dir \in Dirs,
             SubmitSolution(w, j, dir)
      PROVE  KeepsSolution(k)
    BY <1>9 DEF SubmitSolution, Thread
<1>10. CASE UNCHANGED vars
    BY <1>10 DEF vars
<1> QED
    BY <1>1, <1>2, <1>3, <1>4, <1>5, <1>6, <1>7, <1>8, <1>9, <1>10 DEF Next

\* Once a thread has a proposer, no message and no block replaces it or the files it
\* proposed: among any number of racing proposals the first one wins.
THEOREM FirstProposalIsKept == Spec => FirstProposalWins
<1>1. TypeInv /\ [Next]_vars =>
        [\A k \in DOMAIN threads : HasSolution(threads[k]) =>
            /\ threads'[k].proposedBy = threads[k].proposedBy
            /\ DOMAIN threads'[k].frames = DOMAIN threads[k].frames]_vars
    BY NextKeepsSolutions DEF KeepsSolution
<1> QED
    BY <1>1, InitTypeInv, NextTypeInv, PTL DEF Spec, FirstProposalWins

\* The threads a step adds to the store are new ones.
LEMMA OnlyNewThreadsAppear ==
    ASSUME [Next]_vars, NEW k \in DOMAIN threads', k \notin DOMAIN threads
    PROVE  threads'[k].validations = << >>
<1>1. ASSUME NEW a \in Requesters, NEW input \in FrameInputs, NEW reward \in Rewards,
             CreateVideoUpscalerTask(a, input, reward)
      PROVE  threads'[k].validations = << >>
    BY <1>1 DEF CreateVideoUpscalerTask, NewThread
<1>2. CASE BeginBlock \/ EndBlock \/ UNCHANGED vars
    BY <1>2 DEF BeginBlock, EndBlock, vars
<1>3. ASSUME NEW w \in Providers, NEW stake \in Stakes, AddWorker(w, stake)
      PROVE  FALSE
    BY <1>3 DEF AddWorker
<1>4. ASSUME NEW w \in Providers, NEW j \in DOMAIN threads,
             \/ SubscribeWorkerToTask(w, j)
             \/ \E files \in Proposals : ProposeSolution(w, j, files)
             \/ \E entries \in Reveals : RevealSolution(w, j, entries)
             \/ \E hashes \in Verifications : SubmitValidation(w, j, hashes)
             \/ \E dir \in Dirs : SubmitSolution(w, j, dir)
      PROVE  FALSE
    BY <1>4 DEF SubscribeWorkerToTask, ProposeSolution, RevealSolution, SubmitValidation,
        SubmitSolution
<1> QED
    BY <1>1, <1>2, <1>3, <1>4 DEF Next

\* A thread with validations has a solution: the one that EndBlock dereferences in
\* every thread with enough validations is never nil, and the chain never stops there.
THEOREM ValidatedHasSolution == Spec => []ValidatedThreadHasSolution
<1> DEFINE Inv == TypeInv /\ ValidatedThreadHasSolution
<1>1. Init => Inv
    BY InitTypeInv DEF Init, ValidatedThreadHasSolution
<1>2. Inv /\ [Next]_vars => Inv'
    <2> SUFFICES ASSUME Inv, [Next]_vars
                 PROVE  Inv'
        OBVIOUS
    <2>1. TypeInv' /\ \A k \in DOMAIN threads : KeepsSolution(k)
        BY NextTypeInv, NextKeepsSolutions
    <2>2. ASSUME NEW k \in DOMAIN threads
          PROVE  threads'[k].validations # << >> => HasSolution(threads'[k])
        BY <2>1 DEF KeepsSolution, ValidatedThreadHasSolution, HasSolution
    <2>3. ASSUME NEW k \in DOMAIN threads', k \notin DOMAIN threads
          PROVE  threads'[k].validations = << >>
        BY <2>3, OnlyNewThreadsAppear
    <2> QED
        BY <2>1, <2>2, <2>3 DEF ValidatedThreadHasSolution
<1> QED
    BY <1>1, <1>2, PTL DEF Spec

=============================================================================
