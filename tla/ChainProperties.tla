-------------------------- MODULE ChainProperties --------------------------
(***************************************************************************)
(* What the replicated state of the video upscaler module must satisfy.    *)
(***************************************************************************)
EXTENDS VideoUpscalerChain

\* Indices of threads in any task the model creates.
Threads == UNION { 0 .. input.threads - 1 : input \in FrameInputs }

-----------------------------------------------------------------------------
(* Workers and the threads they are assigned to. *)

\* A worker that is not idle is assigned to a stored thread that lists it.
\* RevealSolution and SubmitValidation call the opposite "this shouldn't happen";
\* BeginBlock indexes the threads of the task with no check, and returns early,
\* before the acceptance walk every node must run alike, when the task is missing.
AssignedWorkerIsListed ==
    \A w \in DOMAIN workers :
        ~IsIdle(w) => /\ CurrentThread(w) \in DOMAIN threads
                      /\ w \in Range(threads[CurrentThread(w)].workers)

\* No worker stays assigned to a completed thread: nothing would ever make it idle
\* again, and idle workers are the only ones a node looks for new work for.
CompletedThreadReleasesWorkers ==
    \A k \in DOMAIN threads : threads[k].completed =>
        \A w \in DOMAIN workers : CurrentThread(w) # k

\* A thread lists each worker once and no more workers than the parameter allows,
\* whoever races for the last place and repeats its subscription before it is taken.
WorkersBoundedAndDistinct ==
    \A k \in DOMAIN threads :
        LET list == threads[k].workers
        IN  /\ Len(list) <= MaxWorkersPerThread
            /\ \A i, j \in DOMAIN list : list[i] = list[j] => i = j

-----------------------------------------------------------------------------
(* Solutions and validations. *)

\* A thread with validations has a solution.  EndBlock reads Solution.ProposedBy of
\* every thread with enough validations: a nil solution there would stop the chain.
ValidatedThreadHasSolution ==
    \A k \in DOMAIN threads : threads[k].validations # << >> => HasSolution(threads[k])

\* SubmitValidation stores what it is sent and never looks for an earlier
\* validation of the same worker.  It is the release of the validator, who cannot
\* subscribe to the thread again, that leaves the proposer as the only worker whose
\* validations can be counted twice.
OthersValidateOnce ==
    \A k \in DOMAIN threads :
        LET vs == threads[k].validations
        IN  \A i, j \in DOMAIN vs :
                vs[i].validator = vs[j].validator /\ i # j =>
                    vs[i].validator = threads[k].proposedBy

\* A validation is by a listed worker, and records the direction this worker
\* renders in: the list only grows at its end, so the direction stays the worker's.
ValidationsMatchWorkers ==
    \A k \in DOMAIN threads : \A i \in DOMAIN threads[k].validations :
        LET v == threads[k].validations[i]
        IN  /\ v.validator \in Range(threads[k].workers)
            /\ v.isReverse = IsReverse(threads[k], v.validator)

\* A stored solution has the hashes of all its frames or of none, although
\* FromCliToFrames drops entries: what a reveal leaves out must have been revealed
\* before.  BeginBlock takes the first frame for the whole.
HashesAreWholeOrNone ==
    \A k \in DOMAIN threads :
        \/ IsRevealed(threads[k])
        \/ \A f \in DOMAIN threads[k].frames : threads[k].frames[f].hash = NoHash

\* A thread is accepted only when it is revealed and at least one of its frames was
\* found valid: an empty solution, or one nobody agreed with, never is.
AcceptedIsRevealedAndValid ==
    \A k \in DOMAIN threads : threads[k].accepted =>
        /\ HasSolution(threads[k])
        /\ IsRevealed(threads[k])
        /\ \E f \in DOMAIN threads[k].frames : threads[k].frames[f].valid > 0

\* The first proposal wins: once a thread has a proposer it keeps it, and the files
\* it proposed, however many nodes race to propose.
FirstProposalWins ==
    [][\A k \in DOMAIN threads : HasSolution(threads[k]) =>
            /\ threads'[k].proposedBy = threads[k].proposedBy
            /\ DOMAIN threads'[k].frames = DOMAIN threads[k].frames]_vars

\* What has been accepted is final: no later reveal and no later evaluation changes
\* the hashes or the counts of an accepted solution.
AcceptedSolutionIsFinal ==
    [][\A k \in DOMAIN threads : threads[k].accepted =>
            /\ threads'[k].accepted
            /\ threads'[k].frames = threads[k].frames]_vars

\* The stored validations whose hash of a frame is the one of the solution.
Agreeing(thread, f) ==
    { i \in DOMAIN thread.validations :
        /\ f \in DOMAIN thread.validations[i].hashes
        /\ thread.validations[i].hashes[f] = thread.frames[f].hash }

\* As many of them as IsSolutionAccepted asks for, on as many frames.
IsAgreedOn(thread) ==
    Cardinality({ f \in DOMAIN thread.frames :
        Cardinality(Agreeing(thread, f)) >= MinValidValidations(thread) })
    >= RequiredFrames(Cardinality(DOMAIN thread.frames))

\* An open thread has a revealed solution that enough validations agree with, and every
\* signature in them decodes.
Agreed(k) ==
    /\ HasSolution(threads[k]) /\ IsRevealed(threads[k])
    /\ ~threads[k].accepted /\ ~threads[k].completed
    /\ EnoughValidations(threads[k])
    /\ IsAgreedOn(threads[k])
    /\ \A i \in DOMAIN threads[k].validations :
        Undecodable \notin Range(threads[k].validations[i].hashes)

\* BeginBlock accepts every solution agreed on, whatever other validations say of it,
\* whatever an evaluation of an earlier reveal has counted, and whichever threads of
\* the task are evaluated in the same walk.
AgreedSolutionIsAccepted ==
    [][BeginBlock => \A k \in DOMAIN threads : Agreed(k) => threads'[k].accepted]_vars

-----------------------------------------------------------------------------
(* The life of a thread. *)

\* The stage of a stored thread.
StageOf(thread) ==
    [name |-> IF thread.completed THEN "completed"
              ELSE IF ~HasSolution(thread) THEN "open"
              ELSE IF DOMAIN thread.frames # {} /\ IsRevealed(thread) THEN "revealed"
              ELSE "proposed",
     winner   |-> thread.proposedBy,
     accepted |-> thread.accepted]

Lifecycle == INSTANCE ThreadLifecycle WITH
    Keys     <- (1 .. MaxTasks) \X Threads,
    Workers  <- Providers,
    NoWinner <- Nobody,
    stage    <- [k \in DOMAIN threads |-> StageOf(threads[k])]

\* Every message and every block is a step of the life of a thread, or leaves the
\* stages alone: no order of calls takes a thread back, skips the proposal, changes
\* the winner or touches a completed thread.
FollowsLifecycle == Lifecycle!Spec

-----------------------------------------------------------------------------
(* Tasks. *)

\* A completed task has only completed threads, and the task stored under the id ""
\* is completed and has none, so nothing can be assigned to it: "" is also the
\* CurrentTaskId of every idle worker.
CompletedTaskIsDone ==
    \A id \in DOMAIN tasks :
        /\ tasks[id].completed => \A k \in ThreadsOf(id) : threads[k].completed
        /\ id = NoTask => tasks[id].completed /\ ThreadsOf(id) = {}

\* A completed task is closed: its threads take no more workers, proposals,
\* validations or reveals.  Only the directory can still be submitted again.
CompletedTaskIsClosed ==
    [][\A k \in DOMAIN threads : tasks[k[1]].completed =>
            /\ tasks'[k[1]].completed
            /\ threads'[k] = [threads[k] EXCEPT !.dir = threads'[k].dir]]_vars

-----------------------------------------------------------------------------
(* Money. *)

\* An account owns what it started with, plus what its recorded winnings and minus
\* what its recorded stake say, and less only by the rewards it paid: no payment is
\* made that the winner's reputation does not show.
NoUnrecordedPayout ==
    \A w \in DOMAIN workers :
        balance[w] + workers[w].staked <= InitialBalance + workers[w].winnings

\* Every completed thread is credited to the worker that won it.  SubmitSolution writes
\* the winner twice, once to release it and once to credit it, from two reads of the
\* store.  (A repeated submission is credited again.)
CompletedThreadsAreCredited ==
    /\ \A k \in DOMAIN threads : threads[k].completed => threads[k].proposedBy \in DOMAIN workers
    /\ \A w \in DOMAIN workers :
        Cardinality({ k \in DOMAIN threads : threads[k].completed /\ threads[k].proposedBy = w })
            <= workers[w].solutions

-----------------------------------------------------------------------------
(* Progress.  Blocks are made as long as the chain lives; no message need come. *)

Fairness == WF_vars(BeginBlock) /\ WF_vars(EndBlock)

FairSpec == Spec /\ Fairness

\* A task whose last thread has been completed is closed by a later EndBlock.
DoneTaskIsClosed ==
    \A id \in 1 .. MaxTasks :
        (id \in DOMAIN tasks /\ \A k \in ThreadsOf(id) : threads[k].completed)
            ~> (id \in DOMAIN tasks /\ tasks[id].completed)

=============================================================================
