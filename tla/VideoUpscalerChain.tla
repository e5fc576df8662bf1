------------------------- MODULE VideoUpscalerChain -------------------------
(***************************************************************************)
(* The replicated state of the video upscaler module and every step that   *)
(* changes it: the message handlers of keeper/msg_server.go and the        *)
(* consensus part of BeginBlock and EndBlock of module/module.go.          *)
(*                                                                         *)
(* A transaction whose handler returns an error or panics is reverted, so  *)
(* a rejected message is a disabled action.  Messages come from nodes that *)
(* retry, repeat and race one another: any handler may be called by any    *)
(* provider, at any time, with any of the inputs.                          *)
(*                                                                         *)
(* The threads of a task, a list inside the stored task, are here a map of *)
(* their own from <<task id, index in the list>>.                          *)
(***************************************************************************)
EXTENDS ThreadRules

CONSTANTS
    Requesters,          \* accounts that create tasks
    Providers,           \* accounts that register as workers
    StakeDenom,          \* the denomination of stakes, and of a worker's winnings
    MinWorkerStaking,    \* module parameters
    MaxWorkersPerThread,
    GenesisValidators,   \* the parameter MinValidators at genesis
    InitialBalance,      \* what every account owns at genesis
    Files,               \* file names, as numbers
    Hashes,              \* hashes of rendered files
    Dirs,                \* directories solutions are uploaded to
    NoReward,            \* the nil Reward of a task that was never created
    \* The contents of the messages.
    Stakes,              \* amounts
    Rewards,             \* [denom, amount]
    FrameInputs,         \* [start, end, threads]
    Proposals,           \* sets of files
    Reveals,             \* sequences of entries: [file, hash] or Malformed
    Verifications,       \* file -> signature
    \* Bounds: how far the model explores, never what the code allows.
    MaxTasks,            \* tasks created
    MaxValidations,      \* validations of one thread
    MaxSolutions         \* solutions submitted by one worker

Accounts   == Requesters \cup Providers
Signatures == Hashes \cup {Undecodable}
Coin       == [denom : STRING, amount : Nat]

ASSUME AccountsAssumption == Nobody \notin Accounts

ASSUME ParamsAssumption ==
    /\ MinWorkerStaking \in Nat
    /\ MaxWorkersPerThread \in Nat
    /\ GenesisValidators \in Nat
    /\ InitialBalance \in Nat
    /\ {MaxTasks, MaxValidations, MaxSolutions} \subseteq Nat

ASSUME FilesAssumption ==
    /\ Files \subseteq Nat
    /\ IsFiniteSet(Files)
    /\ NoHash \notin Signatures
    /\ Undecodable \notin Hashes
    /\ NoDir \notin Dirs

ASSUME MessagesAssumption ==
    /\ Stakes \subseteq Nat
    /\ Rewards \subseteq Coin
    /\ FrameInputs \subseteq [start : Int, end : Int, threads : Int]
    /\ Proposals \subseteq SUBSET Files
    /\ Reveals \subseteq Seq([file : Files, hash : Hashes \cup {NoHash}] \cup {Malformed})
    /\ Verifications \subseteq UNION { [F -> Signatures] : F \in SUBSET Files }

VARIABLES
    phase,          \* "begin": BeginBlock is next; "deliver": transactions, or EndBlock
    minValidators,  \* Params.MinValidators
    nextId,         \* VideoUpscalerTaskInfo.NextId
    tasks,          \* VideoUpscalerTasks: id -> [completed, reward, threadAmount]
    threads,        \* <<task id, index>> -> thread
    workers,        \* Workers: address -> worker
    balance,        \* coins of StakeDenom of each account
    moduleBalance   \* coins of StakeDenom of the module account

vars == << phase, minValidators, nextId, tasks, threads, workers, balance, moduleBalance >>

\* The task id "": what an idle worker's CurrentTaskId holds.
NoTask == -1

\* collections.Map.Set: insert or overwrite.
Put(map, key, value) ==
    [x \in DOMAIN map \cup {key} |-> IF x = key THEN value ELSE map[x]]

-----------------------------------------------------------------------------
(* The records of the store. *)

ThreadKeys == Nat \X Nat

Frame == [hash : Hashes \cup {NoHash}, valid : Nat, invalid : Nat]

Validation ==
    [validator : Providers,
     isReverse : BOOLEAN,
     hashes    : UNION { [F -> Signatures] : F \in SUBSET Files }]

\* Threads whose solution has these files.
Thread(files) ==
    [size        : Int,
     workers     : Seq(Providers),
     proposedBy  : Providers \cup {Nobody},
     frames      : [files -> Frame],
     dir         : Dirs \cup {NoDir},
     accepted    : BOOLEAN,
     validations : Seq(Validation),
     completed   : BOOLEAN]

IsThread(thread) == \E files \in SUBSET Files : thread \in Thread(files)

Task == [completed : BOOLEAN, reward : Coin \cup {NoReward}, threadAmount : Nat]

Worker ==
    [enabled            : BOOLEAN,
     staked             : Nat,
     currentTaskId      : Nat \cup {NoTask},
     currentThreadIndex : Nat,
     solutions          : Nat,
     winnings           : Nat]

TypeOK ==
    /\ phase \in {"begin", "deliver"}
    /\ minValidators \in Nat
    /\ nextId \in Nat \ {0}
    /\ DOMAIN tasks \subseteq Nat \cup {NoTask}
    /\ tasks \in [DOMAIN tasks -> Task]
    /\ DOMAIN threads \subseteq ThreadKeys
    /\ \A k \in DOMAIN threads : IsThread(threads[k])
    /\ DOMAIN workers \subseteq Providers
    /\ workers \in [DOMAIN workers -> Worker]
    /\ balance \in [Accounts -> Nat]
    /\ moduleBalance \in Nat

CurrentThread(w) == << workers[w].currentTaskId, workers[w].currentThreadIndex >>

IsIdle(w) == workers[w].currentTaskId = NoTask

ThreadsOf(id) == { k \in DOMAIN threads : k[1] = id }

\* Worker.ReleaseValidator, and the release of the workers in SubmitSolution.
\* (Mutant: the task id is not reset.)
Released_IndexOnly(worker) == [worker EXCEPT !.currentThreadIndex = 0]

Released(worker) ==
    [worker EXCEPT !.currentTaskId = NoTask, !.currentThreadIndex = 0]

\* Worker.DeclareWinner.  (Mutant: the winnings are overwritten.)
DeclareWinner_Overwrites(worker, payment) ==
    [Released(worker) EXCEPT !.solutions = @ + 1, !.winnings = payment]

DeclareWinner(worker, payment) ==
    [Released(worker) EXCEPT !.solutions = @ + 1, !.winnings = @ + payment]

\* The assignment made by SubscribeWorkerToTask.  (Mutant: the index counts from 1.)
Assigned_FromOne(worker, k) ==
    [worker EXCEPT !.currentTaskId = k[1], !.currentThreadIndex = k[2] + 1]

Assigned(worker, k) ==
    [worker EXCEPT !.currentTaskId = k[1], !.currentThreadIndex = k[2]]

-----------------------------------------------------------------------------
(* NewGenesisState and InitGenesis: parameters and the id counter. *)

Init ==
    /\ phase = "begin"
    /\ minValidators = GenesisValidators
    /\ nextId = 1
    /\ tasks = << >>
    /\ threads = << >>
    /\ workers = << >>
    /\ balance = [a \in Accounts |-> InitialBalance]
    /\ moduleBalance = 0

-----------------------------------------------------------------------------
(* Messages. *)

\* A task without threads cannot be split: splitFrames divides by zero.  The
\* result of the transfer is ignored, so a creator who cannot pay, or whose coin is
\* of another denomination, gets the task all the same.
CreateVideoUpscalerTask(creator, input, reward) ==
    /\ phase = "deliver"
    /\ nextId <= MaxTasks
    /\ input.threads > 0
    /\ nextId' = nextId + 1
    /\ tasks' = Put(tasks, nextId,
            [completed |-> FALSE, reward |-> reward, threadAmount |-> input.threads])
    /\ threads' =
            [k \in DOMAIN threads \cup { << nextId, i >> : i \in 0 .. input.threads - 1 } |->
                IF k[1] = nextId
                THEN NewThread(ThreadSize(input.start, input.end, input.threads, k[2]))
                ELSE threads[k]]
    /\ IF reward.denom = StakeDenom /\ balance[creator] >= reward.amount
       THEN /\ balance' = [balance EXCEPT ![creator] = @ - reward.amount]
            /\ moduleBalance' = moduleBalance + reward.amount
       ELSE UNCHANGED << balance, moduleBalance >>
    /\ UNCHANGED << phase, minValidators, workers >>

NewWorker(stake) ==
    [enabled            |-> TRUE,
     staked             |-> stake,
     currentTaskId      |-> NoTask,
     currentThreadIndex |-> 0,
     solutions          |-> 0,
     winnings           |-> 0]

AddWorker(creator, stake) ==
    /\ phase = "deliver"
    /\ creator \notin DOMAIN workers
    /\ stake >= MinWorkerStaking
    /\ balance[creator] >= MinWorkerStaking
    /\ balance[creator] >= stake
    /\ workers' = Put(workers, creator, NewWorker(stake))
    /\ balance' = [balance EXCEPT ![creator] = @ - stake]
    /\ moduleBalance' = moduleBalance + stake
    /\ UNCHANGED << phase, minValidators, nextId, tasks, threads >>

\* That the worker is idle is checked by the node that sends the message, not here.
\* (Mutants: one worker too many; a worker that is listed already; the states of the task
\* and of the thread are not checked.)
CanSubscribe_OneTooMany(w, k) ==
    /\ w \in DOMAIN workers
    /\ workers[w].enabled
    /\ k \in DOMAIN threads
    /\ ~tasks[k[1]].completed
    /\ Len(threads[k].workers) <= MaxWorkersPerThread
    /\ ~threads[k].completed
    /\ w \notin Range(threads[k].workers)

CanSubscribe_Repeated(w, k) ==
    /\ w \in DOMAIN workers
    /\ workers[w].enabled
    /\ k \in DOMAIN threads
    /\ ~tasks[k[1]].completed
    /\ Len(threads[k].workers) < MaxWorkersPerThread
    /\ ~threads[k].completed

CanSubscribe_Unchecked(w, k) ==
    /\ w \in DOMAIN workers
    /\ workers[w].enabled
    /\ k \in DOMAIN threads
    /\ Len(threads[k].workers) < MaxWorkersPerThread
    /\ w \notin Range(threads[k].workers)

CanSubscribe(w, k) ==
    /\ w \in DOMAIN workers
    /\ workers[w].enabled
    /\ k \in DOMAIN threads
    /\ ~tasks[k[1]].completed
    /\ Len(threads[k].workers) < MaxWorkersPerThread
    /\ ~threads[k].completed
    /\ w \notin Range(threads[k].workers)

SubscribeWorkerToTask(w, k) ==
    /\ phase = "deliver"
    /\ CanSubscribe(w, k)
    /\ threads' = [threads EXCEPT ![k].workers = Append(@, w)]
    /\ workers' = [workers EXCEPT ![w] = Assigned(@, k)]
    /\ UNCHANGED << phase, minValidators, nextId, tasks, balance, moduleBalance >>

\* Being listed in the thread is enough: the worker may have moved on to another.
\* (Mutant: a later proposal replaces the first.)
CanPropose_Again(w, k, files) ==
    /\ w \in DOMAIN workers
    /\ workers[w].enabled
    /\ k \in DOMAIN threads
    /\ ~tasks[k[1]].completed
    /\ w \in Range(threads[k].workers)
    /\ Cardinality(files) = threads[k].size

CanPropose(w, k, files) ==
    /\ w \in DOMAIN workers
    /\ workers[w].enabled
    /\ k \in DOMAIN threads
    /\ ~tasks[k[1]].completed
    /\ ~HasSolution(threads[k])
    /\ w \in Range(threads[k].workers)
    /\ Cardinality(files) = threads[k].size

ProposeSolution(w, k, files) ==
    /\ phase = "deliver"
    /\ CanPropose(w, k, files)
    /\ threads' = [threads EXCEPT
            ![k].proposedBy = w,
            ![k].frames = [f \in files |-> [hash |-> NoHash, valid |-> 0, invalid |-> 0]]]
    /\ UNCHANGED << phase, minValidators, nextId, tasks, workers, balance, moduleBalance >>

\* The worker is working on this thread of a task still in progress.
WorksOn(w, k) ==
    /\ w \in DOMAIN workers
    /\ k \in DOMAIN threads
    /\ CurrentThread(w) = k
    /\ ~tasks[k[1]].completed
    /\ w \in Range(threads[k].workers)

\* The thread with the parsed frames of a reveal written over the stored ones.
Reveal(thread, parsed) ==
    [thread EXCEPT !.frames =
        [f \in DOMAIN thread.frames |->
            IF f \in DOMAIN parsed
            THEN [thread.frames[f] EXCEPT !.hash = parsed[f]]
            ELSE thread.frames[f]]]

\* (Mutants: some frames may be missing; an accepted solution may be revealed again.)
CanReveal_Partly(w, k, entries) ==
    /\ WorksOn(w, k)
    /\ ~threads[k].accepted
    /\ threads[k].proposedBy = w
    /\ Len(entries) = Cardinality(DOMAIN threads[k].frames)
    /\ DOMAIN FromCliToFrames(entries) \subseteq DOMAIN threads[k].frames

CanReveal_Accepted(w, k, entries) ==
    /\ WorksOn(w, k)
    /\ threads[k].proposedBy = w
    /\ Len(entries) = Cardinality(DOMAIN threads[k].frames)
    /\ DOMAIN FromCliToFrames(entries) \subseteq DOMAIN threads[k].frames
    /\ IsRevealed(Reveal(threads[k], FromCliToFrames(entries)))

CanReveal(w, k, entries) ==
    /\ WorksOn(w, k)
    /\ ~threads[k].accepted
    /\ threads[k].proposedBy = w
    /\ Len(entries) = Cardinality(DOMAIN threads[k].frames)
    /\ DOMAIN FromCliToFrames(entries) \subseteq DOMAIN threads[k].frames
    /\ IsRevealed(Reveal(threads[k], FromCliToFrames(entries)))

RevealSolution(w, k, entries) ==
    /\ phase = "deliver"
    /\ CanReveal(w, k, entries)
    /\ threads' = [threads EXCEPT ![k] = Reveal(@, FromCliToFrames(entries))]
    /\ UNCHANGED << phase, minValidators, nextId, tasks, workers, balance, moduleBalance >>

\* With no solution yet the handler dereferences nil after storing the validation:
\* it panics, and the transaction is reverted.  (Mutant: it does not.)
CanValidate_NoSolution(w, k) ==
    /\ WorksOn(w, k)
    /\ workers[w].enabled
    /\ Len(threads[k].validations) < MaxValidations

CanValidate(w, k) ==
    /\ WorksOn(w, k)
    /\ workers[w].enabled
    /\ HasSolution(threads[k])
    /\ Len(threads[k].validations) < MaxValidations

SubmitValidation(w, k, hashes) ==
    /\ phase = "deliver"
    /\ CanValidate(w, k)
    /\ threads' = [threads EXCEPT ![k].validations = Append(@,
            [validator |-> w, isReverse |-> IsReverse(threads[k], w), hashes |-> hashes])]
    /\ workers' = IF w = threads[k].proposedBy
                  THEN workers
                  ELSE [workers EXCEPT ![w] = Released(@)]
    /\ UNCHANGED << phase, minValidators, nextId, tasks, balance, moduleBalance >>

\* Neither that the solution has been accepted nor that the thread is still open is
\* checked.  A reward in another denomination cannot be added to the winnings: the
\* handler panics.
CanSubmit(w, k) ==
    /\ k \in DOMAIN threads
    /\ threads[k].proposedBy = w
    /\ tasks[k[1]].reward.denom = StakeDenom
    /\ workers[w].solutions < MaxSolutions

\* The workers a submission releases: those listed in the thread and still on it.
\* (Mutant: only those that have sent a validation.)
StillOn_Validators(k) ==
    { w \in DOMAIN workers :
        /\ \E i \in DOMAIN threads[k].validations : threads[k].validations[i].validator = w
        /\ CurrentThread(w) = k }

StillOn(k) ==
    { w \in DOMAIN workers : w \in Range(threads[k].workers) /\ CurrentThread(w) = k }

\* A worker after winner's submission for k.  The winner is read again after the
\* release, and loses its assignment even when it is to another thread.  (Mutant: the
\* release is written last.)
AfterSubmission_ReleaseLast(w, winner, k, payment) ==
    IF w \in StillOn(k) THEN Released(workers[w])
    ELSE IF w = winner THEN DeclareWinner(workers[w], payment)
    ELSE workers[w]

AfterSubmission(w, winner, k, payment) ==
    IF w = winner THEN DeclareWinner(workers[w], payment)
    ELSE IF w \in StillOn(k) THEN Released(workers[w])
    ELSE workers[w]

\* The module account pays from one balance: rewards and stakes together.  A transfer
\* that fails is ignored.  (Mutant: the transfer cannot fail.)
CanPay_Always(payment) == payment \in Nat

CanPay(payment) == moduleBalance >= payment

SubmitSolution(w, k, dir) ==
    LET payment == GetWinnerReward(tasks[k[1]].reward.amount, tasks[k[1]].threadAmount)
    IN  /\ phase = "deliver"
        /\ CanSubmit(w, k)
        /\ threads' = [threads EXCEPT ![k].dir = dir, ![k].completed = TRUE]
        /\ workers' = [v \in DOMAIN workers |-> AfterSubmission(v, w, k, payment)]
        /\ IF CanPay(payment)
           THEN /\ balance' = [balance EXCEPT ![w] = @ + payment]
                /\ moduleBalance' = moduleBalance - payment
           ELSE UNCHANGED << balance, moduleBalance >>
        /\ UNCHANGED << phase, minValidators, nextId, tasks >>

-----------------------------------------------------------------------------
(* Blocks. *)

\* The thread is accepted by the BeginBlock that runs now.
AcceptedNow(k) ==
    /\ ReadyToEvaluate(threads[k])
    /\ IsSolutionAccepted(EvaluateVerifications(threads[k]))

\* The walk evaluates the threads of a task in order, on one copy of the task, and
\* stores the whole copy each time it accepts one: what it counted in the threads
\* up to the last accepted one is kept, what it counted after that is lost.  (Mutant:
\* the copy stored is the one from before the acceptance.)
Stored_Before(k) ==
    /\ ~tasks[k[1]].completed
    /\ \E j \in ThreadsOf(k[1]) : j[2] > k[2] /\ AcceptedNow(j)

Stored(k) ==
    /\ ~tasks[k[1]].completed
    /\ \E j \in ThreadsOf(k[1]) : j[2] >= k[2] /\ AcceptedNow(j)

Evaluated(k) ==
    IF ReadyToEvaluate(threads[k])
    THEN [EvaluateVerifications(threads[k]) EXCEPT !.accepted = AcceptedNow(k)]
    ELSE threads[k]

BeginBlock ==
    /\ phase = "begin"
    /\ phase' = "deliver"
    /\ minValidators' = LET count == Cardinality(DOMAIN workers)
                        IN  IF count > 1 /\ count < 7 THEN count ELSE minValidators
    /\ threads' = [k \in DOMAIN threads |-> IF Stored(k) THEN Evaluated(k) ELSE threads[k]]
    /\ UNCHANGED << nextId, tasks, workers, balance, moduleBalance >>

\* (Mutant: one completed thread is enough.)
AllThreadsCompleted_Some(id) == \E k \in ThreadsOf(id) : threads[k].completed

AllThreadsCompleted(id) == \A k \in ThreadsOf(id) : threads[k].completed

\* What the store returns for an id it does not hold, completed.
PhantomTask ==
    [completed |-> TRUE, reward |-> NoReward, threadAmount |-> 0]

\* Ids are scanned from 0, and no task has the id 0: the zero task read for it has
\* no thread left to do and is stored as completed, under its own id "".
CompletedIn(scanned) ==
    LET closed == [id \in DOMAIN tasks |->
                    IF id \in scanned /\ AllThreadsCompleted(id)
                    THEN [tasks[id] EXCEPT !.completed = TRUE]
                    ELSE tasks[id]]
    IN  IF scanned \subseteq DOMAIN tasks THEN closed ELSE Put(closed, NoTask, PhantomTask)

\* (Mutant: the last id is left out.)
CompletedTasks_ButLast == CompletedIn(0 .. nextId - 2)

CompletedTasks == CompletedIn(0 .. nextId - 1)

EndBlock ==
    /\ phase = "deliver"
    /\ phase' = "begin"
    /\ tasks' = CompletedTasks
    /\ UNCHANGED << minValidators, nextId, threads, workers, balance, moduleBalance >>

-----------------------------------------------------------------------------

Next ==
    \/ BeginBlock
    \/ EndBlock
    \/ \E a \in Requesters, input \in FrameInputs, reward \in Rewards :
            CreateVideoUpscalerTask(a, input, reward)
    \/ \E w \in Providers, stake \in Stakes : AddWorker(w, stake)
    \/ \E w \in Providers, k \in DOMAIN threads : SubscribeWorkerToTask(w, k)
    \/ \E w \in Providers, k \in DOMAIN threads, files \in Proposals : ProposeSolution(w, k, files)
    \/ \E w \in Providers, k \in DOMAIN threads, entries \in Reveals : RevealSolution(w, k, entries)
    \/ \E w \in Providers, k \in DOMAIN threads, hashes \in Verifications :
            SubmitValidation(w, k, hashes)
    \/ \E w \in Providers, k \in DOMAIN threads, dir \in Dirs : SubmitSolution(w, k, dir)

Spec == Init /\ [][Next]_vars

=============================================================================
