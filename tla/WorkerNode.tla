----------------------------- MODULE WorkerNode -----------------------------
(***************************************************************************)
(* The nodes that run a worker, beside the chain they are part of.         *)
(*                                                                         *)
(* At every block the hooks of a node look at the stored state and at the  *)
(* flags of the local database, and start goroutines.  A goroutine renders *)
(* or sends one message through the command line, and writes flags on its  *)
(* way; every step below is what a goroutine does between two points at    *)
(* which another may see it.  A crash ends the goroutines of a node; its   *)
(* database, its files and its containers stay.                            *)
(*                                                                         *)
(* Providers outside Nodes send what they like: the chain's own actions.   *)
(***************************************************************************)
EXTENDS ChainProperties, BagsExt, SequencesExt

CONSTANTS
    Nodes,          \* providers whose node runs this code
    MinReward,      \* Configuration.MinReward
    RenderedHash,   \* the hash every node gets for a frame it renders
    UploadedDir,    \* the directory every upload gives
    CliOutcomes,    \* what a call of the command line whose message is accepted may come
                    \* to: see Cli
    Failures,       \* TRUE: containers, downloads, uploads and keys may fail, and
                    \* containers linger when they have exited
    Crashes,        \* TRUE: nodes may crash
    \* Bounds.
    MaxJobs,        \* goroutines of one kind for one thread of one node, and copies of
                    \* a message in the mempool
    MaxGoroutines,  \* goroutines in all
    MaxPending      \* messages in the mempool

Outcomes == {"sent", "lost", "refused", "unknown"}

ASSUME NodesAssumption ==
    /\ Nodes \subseteq Providers
    /\ RenderedHash \in Hashes
    /\ UploadedDir \in Dirs
    /\ MinReward \in Nat
    /\ CliOutcomes \subseteq Outcomes
    /\ {Failures, Crashes} \subseteq BOOLEAN
    /\ {MaxJobs, MaxGoroutines, MaxPending} \subseteq Nat \ {0}

VARIABLES
    registered,   \* node -> the workers table has a row for its address
    taskRow,      \* node -> the tasks table: task id -> [index, subscribed]
    flags,        \* node -> thread -> the columns of the threads table that are true
    download,     \* node -> thread -> the work path has entries
    output,       \* node -> thread -> the frames in the output directory
    container,    \* node -> thread -> the frame in the container, NoContainer, Exited
    jobs,         \* bag of goroutines: [node, kind, key, pc, files]
    mempool,      \* bag of messages: [kind, from, key, files]
    simulated     \* the messages that the state of the last commit accepts

nodeVars ==
    << registered, taskRow, flags, download, output, container, jobs, mempool, simulated >>

Keys == (1 .. MaxTasks) \X Threads

NoContainer == 0
Exited      == -1

IsRunning(n, k) == container[n][k] \notin {NoContainer, Exited}

-----------------------------------------------------------------------------
(* The threads table.  UpdateThread overwrites all eight columns, so a row is
   one of these sets whatever it was before.  (Mutant: RevealSolution sets one
   column too many.) *)

Fetching    == {"workStarted"}
Downloading == {"downloadStarted", "workStarted"}
Downloaded  == {"downloadStarted", "downloadCompleted", "workStarted"}
Unfinished  == {"downloadStarted", "downloadCompleted"}
Rendered    == Downloaded \cup {"workCompleted"}
Proposed    == Rendered \cup {"solutionProposed"}
Verifying   == Proposed \cup {"verificationStarted"}
Revealed    == Verifying \cup {"solutionRevealed"}
Submitting  == Revealed \cup {"submitionStarted"}

Rows == { {}, Fetching, Downloading, Downloaded, Unfinished, Rendered, Proposed, Verifying,
          Revealed, Submitting }

UpdateThread(n, k, row) == flags' = [flags EXCEPT ![n][k] = row]

-----------------------------------------------------------------------------
(* Goroutines. *)

Job(n, kind, k, pc, files) == [node |-> n, kind |-> kind, key |-> k, pc |-> pc, files |-> files]

Started(n, kind, k) == Job(n, kind, k, "start", {})

\* How many goroutines of a kind run for a thread.
Running(n, kind, k) ==
    MapThenSumSet(LAMBDA j : jobs[j],
        { j \in DOMAIN jobs : j.node = n /\ j.kind = kind /\ j.key = k })

\* The goroutines a hook starts, up to the bounds.
Spawn(new) ==
    LET admitted == { j \in new : Running(j.node, j.kind, j.key) < MaxJobs }
    IN  jobs' = IF BagCardinality(jobs) + Cardinality(admitted) <= MaxGoroutines
                THEN jobs (+) SetToBag(admitted)
                ELSE jobs

Become(j, pc, files) ==
    jobs' = (jobs (-) SetToBag({j})) (+) SetToBag({[j EXCEPT !.pc = pc, !.files = files]})

Goto(j, pc) == Become(j, pc, j.files)

End(j) == jobs' = jobs (-) SetToBag({j})

\* A call of the command line.  For --gas auto the node runs the handler on the state of
\* the last commit: what it refuses is not sent, and the call fails.  The message is then
\* signed and handed to the local mempool.  An exit without error does not mean that it
\* got there (a refusal by CheckTx is printed, not returned), nor an error that it did not.
Answers(message) == IF message \in simulated THEN CliOutcomes ELSE {"refused"}

Cli(j, outcome, message) ==
    /\ outcome \in Answers(message)
    /\ IF outcome \in {"sent", "unknown"}
       THEN /\ message \in DOMAIN mempool => mempool[message] < MaxJobs
            /\ BagCardinality(mempool) < MaxPending
            /\ mempool' = mempool (+) SetToBag({message})
       ELSE UNCHANGED mempool

CliFailed(outcome) == outcome \in {"refused", "unknown"}

Message(j) == [kind |-> j.kind, from |-> j.node, key |-> j.key, files |-> j.files]

-----------------------------------------------------------------------------
(* The handlers, as they see the messages of nodes. *)

Entries(files) == [i \in 1 .. Cardinality(files) |->
                    [file |-> SetToSortSeq(files, <)[i], hash |-> RenderedHash]]

SignedFrames(files) == [f \in files |-> RenderedHash]

\* The handler would accept the message now.
Accepts(m) ==
    CASE m.kind = "register"  -> m.from \notin DOMAIN workers /\ balance[m.from] >= MinWorkerStaking
      [] m.kind = "subscribe" -> CanSubscribe(m.from, m.key)
      [] m.kind = "propose"   -> CanPropose(m.from, m.key, m.files)
      [] m.kind = "verify"    -> CanValidate(m.from, m.key)
      [] m.kind = "reveal"    -> CanReveal(m.from, m.key, Entries(m.files))
      [] m.kind = "submit"    -> CanSubmit(m.from, m.key)

\* All messages a node may send, and those accepted now.
Messages ==
    [kind  : {"register", "subscribe", "propose", "verify", "reveal", "submit"},
     from  : Nodes,
     key   : Keys \cup {<< 0, 0 >>},
     files : SUBSET Files]

Accepted == { m \in Messages : Accepts(m) }

-----------------------------------------------------------------------------
(* The hooks. *)

\* The work the thread of a busy worker asks for.  The rows read here may be old
\* when the goroutines run.
WorkOf(n) ==
    LET k == CurrentThread(n)
        t == threads[k]
        f == flags[n][k]
        fresh == ~t.completed /\ "downloadStarted" \notin f
    IN  IF n \in DOMAIN workers /\ workers[n].enabled /\ ~IsIdle(n)
        THEN { Started(n, kind, k) : kind \in
                { x \in {"work", "reset", "propose", "verify"} :
                    \/ x = "work" /\ (fresh \/ ("workStarted" \in f /\ container[n][k] = Exited))
                    \/ x = "reset" /\ ~fresh /\ "downloadCompleted" \notin f /\ ~download[n][k]
                    \/ x = "propose" /\ ~HasSolution(t) /\ "workCompleted" \in f
                                     /\ "solutionProposed" \notin f
                    \/ x = "verify" /\ HasSolution(t) /\ "verificationStarted" \notin f } }
        ELSE {}

\* The accepted solutions of the node that still have to be uploaded.  (Mutant: any
\* solution.)
UploadsOf_Unaccepted(n) ==
    { Started(n, "submit", k) : k \in
        { k \in DOMAIN threads :
            /\ ~tasks[k[1]].completed
            /\ threads[k].proposedBy = n
            /\ threads[k].dir = NoDir
            /\ "submitionStarted" \notin flags[n][k] } }

UploadsOf(n) ==
    { Started(n, "submit", k) : k \in
        { k \in DOMAIN threads :
            /\ ~tasks[k[1]].completed
            /\ threads[k].proposedBy = n
            /\ threads'[k].accepted
            /\ threads[k].dir = NoDir
            /\ "submitionStarted" \notin flags[n][k] } }

\* BeginBlock: the goroutines are started around the acceptance walk.
NodeBeginBlock ==
    /\ BeginBlock
    /\ Spawn(UNION { WorkOf(n) \cup UploadsOf(n) : n \in Nodes })
    /\ UNCHANGED << registered, taskRow, flags, download, output, container, mempool, simulated >>

HasPlace(k) == ~threads[k].completed /\ Len(threads[k].workers) < MaxWorkersPerThread

\* getPendingVideoUpscalerTask: the first open task that pays enough and has a place.
PendingTasks ==
    { id \in DOMAIN tasks \ {NoTask} :
        /\ ~tasks[id].completed
        /\ tasks[id].reward.amount >= MinReward
        /\ \E k \in ThreadsOf(id) : HasPlace(k) }

\* ReadTask inserts a missing row, but taskId is the primary key: a task has the row
\* of the first thread that was looked for, and any other thread reads as not
\* subscribed.  UpdateTask writes to a row of the same thread only.
IsSubscribed(n, k) ==
    /\ k[1] \in DOMAIN taskRow[n]
    /\ taskRow[n][k[1]] = [index |-> k[2], subscribed |-> TRUE]

\* The threads of the pending task an idle worker may subscribe to now.
Eligible(n) ==
    IF PendingTasks = {} THEN {}
    ELSE { k \in ThreadsOf(Min(PendingTasks)) :
            HasPlace(k) /\ n \notin Range(threads[k].workers) /\ ~IsSubscribed(n, k) }

\* The subscription of an idle worker, to the first of these threads.
SubscriptionOf(n) ==
    IF n \in DOMAIN workers /\ workers[n].enabled /\ IsIdle(n)
    THEN { Started(n, "subscribe", k) : k \in
            { k \in Eligible(n) : \A l \in Eligible(n) : k[2] <= l[2] } }
    ELSE {}

\* UpdateTask(k, value), after ReadTask(k).
WithTaskRow(rows, k, value) ==
    IF k[1] \notin DOMAIN rows \/ rows[k[1]].index = k[2]
    THEN Put(rows, k[1], [index |-> k[2], subscribed |-> value])
    ELSE rows

RegistrationOf(n) ==
    IF n \notin DOMAIN workers /\ ~registered[n]
    THEN { Started(n, "register", << 0, 0 >>) } ELSE {}

\* The solutions of the node that have validations enough to be revealed.  (Mutant:
\* the number of validations is not looked at.)
RevealsOf_Early(n) ==
    { Started(n, "reveal", k) : k \in
        { k \in DOMAIN threads :
            /\ ~tasks[k[1]].completed
            /\ threads[k].workers # << >>
            /\ ~threads[k].completed
            /\ threads[k].proposedBy = n
            /\ "solutionRevealed" \notin flags[n][k] } }

RevealsOf(n) ==
    { Started(n, "reveal", k) : k \in
        { k \in DOMAIN threads :
            /\ ~tasks[k[1]].completed
            /\ threads[k].validations # << >> /\ threads[k].workers # << >>
            /\ EnoughValidations(threads[k])
            /\ ~threads[k].completed
            /\ threads[k].proposedBy = n
            /\ "solutionRevealed" \notin flags[n][k] } }

\* EndBlock, and the commit of the block.  A reset decided in BeginBlock is written before
\* BeginBlock returns.
NodeEndBlock ==
    /\ \A j \in DOMAIN jobs : j.kind # "reset"
    /\ EndBlock
    /\ Spawn(UNION { RegistrationOf(n) \cup SubscriptionOf(n) \cup RevealsOf(n) : n \in Nodes })
    /\ taskRow' = [n \in Nodes |->
            LET subscription == SubscriptionOf(n)
            IN  IF subscription = {} THEN taskRow[n]
                ELSE WithTaskRow(taskRow[n], (CHOOSE s \in subscription : TRUE).key, TRUE)]
    /\ simulated' = Accepted'
    /\ UNCHANGED << registered, flags, download, output, container, mempool >>

-----------------------------------------------------------------------------
(* StartWork. *)

\* A reset writes its row from within BeginBlock.
Reset(j) ==
    /\ j.kind = "reset"
    /\ UpdateThread(j.node, j.key, {})
    /\ End(j)
    /\ UNCHANGED << registered, taskRow, download, output, container, mempool >>

StartWork(j) ==
    /\ j.kind = "work" /\ j.pc = "start"
    /\ UpdateThread(j.node, j.key, Fetching)
    /\ Goto(j, "check")
    /\ UNCHANGED << registered, taskRow, download, output, container, mempool >>

\* docker rm removes a container that has exited, and not one that runs; or it fails.
RemoveContainer(n, k) ==
    \/ container' = [container EXCEPT ![n][k] = IF @ = Exited THEN NoContainer ELSE @]
    \/ Failures /\ UNCHANGED container

\* When the container engine does not answer, no container seems to run.
CheckContainer(j) ==
    /\ j.kind = "work" /\ j.pc = "check"
    /\ \/ /\ IsRunning(j.node, j.key)
          /\ End(j)
          /\ UNCHANGED << flags, container >>
       \/ /\ ~IsRunning(j.node, j.key) \/ Failures
          /\ RemoveContainer(j.node, j.key)
          /\ UpdateThread(j.node, j.key, Downloading)
          /\ Goto(j, "download")
    /\ UNCHANGED << registered, taskRow, download, output, mempool >>

\* The directory fills before the download is complete.
ReceiveFirst(j) ==
    /\ j.kind = "work" /\ j.pc = "download"
    /\ ~download[j.node][j.key]
    /\ download' = [download EXCEPT ![j.node][j.key] = TRUE]
    /\ UNCHANGED << registered, taskRow, flags, output, container, jobs, mempool >>

EndDownload(j) ==
    /\ j.kind = "work" /\ j.pc = "download"
    /\ \/ /\ download[j.node][j.key]
          /\ UpdateThread(j.node, j.key, Downloaded)
          /\ Goto(j, "render")
       \/ /\ Failures
          /\ UpdateThread(j.node, j.key, Downloading)
          /\ End(j)
    /\ UNCHANGED << registered, taskRow, download, output, container, mempool >>

\* The frames of a thread, by the number of the file.
FramesOf(k) == 1 .. threads[k].size

\* RenderVideo goes through the frames in order or in reverse; files holds those it
\* has been through.  (Mutant: the reverse loop begins one frame too late.)
NextFrame_Past(j) ==
    LET left == FramesOf(j.key) \ j.files
    IN  IF IsReverse(threads[j.key], j.node) THEN Max(left) + 1 ELSE Min(left)

NextFrame(j) ==
    LET left == FramesOf(j.key) \ j.files
    IN  IF IsReverse(threads[j.key], j.node) THEN Max(left) ELSE Min(left)

\* A frame is skipped when a container of this name exists or cannot be started.
RenderFrame(j) ==
    /\ j.kind = "work" /\ j.pc = "render"
    /\ j.files # FramesOf(j.key)
    /\ \/ /\ container[j.node][j.key] = NoContainer
          /\ container' = [container EXCEPT ![j.node][j.key] = NextFrame(j)]
          /\ Goto(j, "wait")
       \/ /\ container[j.node][j.key] # NoContainer \/ Failures
          /\ Become(j, "render", j.files \cup {NextFrame(j)})
          /\ UNCHANGED container
    /\ UNCHANGED << registered, taskRow, flags, download, output, mempool >>

\* The container has exited, and its log can no longer be read: it has been removed
\* (--rm).  The goroutine goes on to the next frame.
PassFrame(j) ==
    /\ j.kind = "work" /\ j.pc = "wait"
    /\ ~IsRunning(j.node, j.key)
    /\ Become(j, "render", j.files \cup {NextFrame(j)})
    /\ UNCHANGED << registered, taskRow, flags, download, output, container, mempool >>

\* The log has been read, and the file of the frame is not there: the frame is rendered
\* again.  The file is looked for under a name it never has (see RenderFrames).
RenderAgain(j) ==
    /\ j.kind = "work" /\ j.pc = "wait"
    /\ ~IsRunning(j.node, j.key)
    /\ Goto(j, "render")
    /\ UNCHANGED << registered, taskRow, flags, download, output, container, mempool >>

IsWhole(n, k) == Cardinality(output[n][k]) = threads[k].size

\* The directory is made by the containers that save frames: without any, it is not there.
CountFrames(j) ==
    /\ j.kind = "work" /\ j.pc = "render"
    /\ j.files = FramesOf(j.key)
    /\ Goto(j, IF output[j.node][j.key] # {} /\ IsWhole(j.node, j.key)
               THEN "whole" ELSE "short")
    /\ UNCHANGED << registered, taskRow, flags, download, output, container, mempool >>

EndWork(j) ==
    /\ j.kind = "work" /\ j.pc \in {"whole", "short"}
    /\ UpdateThread(j.node, j.key, IF j.pc = "whole" THEN Rendered ELSE Unfinished)
    /\ End(j)
    /\ UNCHANGED << registered, taskRow, download, output, container, mempool >>

\* Containers run, exit and are removed (--rm) whatever becomes of the goroutine.  One
\* may be seen exited, with its frame or without, before it is removed.
ContainerExits(n, k) ==
    /\ IsRunning(n, k)
    /\ \/ output' = [output EXCEPT ![n][k] = @ \cup {container[n][k]}]
       \/ Failures /\ UNCHANGED output
    /\ container' = [container EXCEPT ![n][k] = IF Failures THEN Exited ELSE NoContainer]
    /\ UNCHANGED << registered, taskRow, flags, download, jobs, mempool >>

ContainerIsRemoved(n, k) ==
    /\ container[n][k] = Exited
    /\ container' = [container EXCEPT ![n][k] = NoContainer]
    /\ UNCHANGED << registered, taskRow, flags, download, output, jobs, mempool >>

-----------------------------------------------------------------------------
(* The goroutines that send messages. *)

\* The flags a goroutine writes first, and those it writes when it fails before or
\* while it sends.  (Mutant: a submission that failed stays marked.)
Begun(kind) ==
    CASE kind = "propose" -> Proposed [] kind = "verify" -> Verifying [] kind = "submit" -> Submitting

Undone_SubmissionStays(kind) ==
    CASE kind = "propose" -> Rendered [] kind = "verify" -> Proposed [] kind = "submit" -> Submitting

Undone(kind) ==
    CASE kind = "propose" -> Rendered [] kind = "verify" -> Proposed [] kind = "submit" -> Revealed

Begin(j) ==
    /\ j.kind \in {"propose", "verify", "submit"} /\ j.pc = "start"
    /\ UpdateThread(j.node, j.key, Begun(j.kind))
    /\ Goto(j, "prepare")
    /\ UNCHANGED << registered, taskRow, download, output, container, mempool >>

\* More than a fifth of the frames, but one, have been rendered.
EnoughToVerify(n, k) ==
    5 * Cardinality(output[n][k]) > threads[k].size - 1 /\ output[n][k] # {}

Prepared(j) ==
    CASE j.kind = "propose" -> IsWhole(j.node, j.key)
      [] j.kind = "verify"  -> EnoughToVerify(j.node, j.key)
      [] j.kind = "submit"  -> TRUE

\* The output directory is read, hashed and signed, or uploaded.
Prepare(j) ==
    /\ j.kind \in {"propose", "verify", "submit"} /\ j.pc = "prepare"
    /\ \/ /\ Prepared(j)
          /\ Become(j, "send", output[j.node][j.key])
          /\ UNCHANGED flags
       \/ /\ ~Prepared(j) \/ Failures
          /\ UpdateThread(j.node, j.key, Undone(j.kind))
          /\ End(j)
    /\ UNCHANGED << registered, taskRow, download, output, container, mempool >>

\* A proposal that could not be sent keeps its flag; the others take theirs back.
Send(j, outcome) ==
    /\ j.kind \in {"propose", "verify", "submit"} /\ j.pc = "send"
    /\ Cli(j, outcome, Message(j))
    /\ IF CliFailed(outcome) /\ j.kind # "propose"
       THEN UpdateThread(j.node, j.key, Undone(j.kind))
       ELSE UNCHANGED flags
    /\ End(j)
    /\ UNCHANGED << registered, taskRow, download, output, container >>

\* RevealSolution writes its flag after the message has been sent.
PrepareReveal(j) ==
    /\ j.kind = "reveal" /\ j.pc = "start"
    /\ \/ Become(j, "send", output[j.node][j.key])
       \/ Failures /\ End(j)
    /\ UNCHANGED << registered, taskRow, flags, download, output, container, mempool >>

\* (Mutant: whether it has been sent or not.)
MarksReveal_Always(outcome) == outcome \in CliOutcomes

MarksReveal(outcome) == ~CliFailed(outcome)

SendReveal(j, outcome) ==
    /\ j.kind = "reveal" /\ j.pc = "send"
    /\ Cli(j, outcome, Message(j))
    /\ IF MarksReveal(outcome) THEN Goto(j, "mark") ELSE End(j)
    /\ UNCHANGED << registered, taskRow, flags, download, output, container >>

MarkRevealed(j) ==
    /\ j.kind = "reveal" /\ j.pc = "mark"
    /\ UpdateThread(j.node, j.key, Revealed)
    /\ End(j)
    /\ UNCHANGED << registered, taskRow, download, output, container, mempool >>

\* SubscribeWorkerToTask.
Subscribe(j, outcome) ==
    /\ j.kind = "subscribe"
    /\ Cli(j, outcome, Message(j))
    /\ taskRow' = IF CliFailed(outcome)
                  THEN [taskRow EXCEPT ![j.node] =
                            IF j.key[1] \in DOMAIN @ THEN WithTaskRow(@, j.key, FALSE) ELSE @]
                  ELSE taskRow
    /\ End(j)
    /\ UNCHANGED << registered, flags, download, output, container >>

\* RegisterWorker, when its eight seconds are over.
Register(j) ==
    /\ j.kind = "register" /\ j.pc = "start"
    /\ registered' = [registered EXCEPT ![j.node] = TRUE]
    /\ Goto(j, "send")
    /\ UNCHANGED << taskRow, flags, download, output, container, mempool >>

\* The row is deleted when the message could not be sent.  (Mutant: it is kept.)
KeepsRow_Always(outcome) == outcome \in CliOutcomes

KeepsRow(outcome) == ~CliFailed(outcome)

SendRegistration(j, outcome) ==
    /\ j.kind = "register" /\ j.pc = "send"
    /\ Cli(j, outcome, Message(j))
    /\ registered' = [registered EXCEPT ![j.node] = @ /\ KeepsRow(outcome)]
    /\ End(j)
    /\ UNCHANGED << taskRow, flags, download, output, container >>

-----------------------------------------------------------------------------
(* Delivery. *)

Handle(m) ==
    \/ m.kind = "register"  /\ AddWorker(m.from, MinWorkerStaking)
    \/ m.kind = "subscribe" /\ SubscribeWorkerToTask(m.from, m.key)
    \/ m.kind = "propose"   /\ ProposeSolution(m.from, m.key, m.files)
    \/ m.kind = "verify"    /\ SubmitValidation(m.from, m.key, SignedFrames(m.files))
    \/ m.kind = "reveal"    /\ RevealSolution(m.from, m.key, Entries(m.files))
    \/ m.kind = "submit"    /\ SubmitSolution(m.from, m.key, UploadedDir)

\* Messages are delivered in any order, those of one sender too.  (The sequence number of
\* the account forbids that: the orders it leaves are among these.)
Deliver(m) ==
    /\ phase = "deliver"
    /\ IF Accepts(m) THEN Handle(m) ELSE UNCHANGED vars
    /\ mempool' = mempool (-) SetToBag({m})
    /\ UNCHANGED << registered, taskRow, flags, download, output, container, jobs, simulated >>

-----------------------------------------------------------------------------

Crash(n) ==
    /\ Crashes
    /\ jobs' = [j \in { j \in DOMAIN jobs : j.node # n } |-> jobs[j]]
    /\ UNCHANGED << registered, taskRow, flags, download, output, container, mempool >>

NodeInit ==
    /\ Init
    /\ registered = [n \in Nodes |-> FALSE]
    /\ taskRow = [n \in Nodes |-> << >>]
    /\ flags = [n \in Nodes |-> [k \in Keys |-> {}]]
    /\ download = [n \in Nodes |-> [k \in Keys |-> FALSE]]
    /\ output = [n \in Nodes |-> [k \in Keys |-> {}]]
    /\ container = [n \in Nodes |-> [k \in Keys |-> NoContainer]]
    /\ jobs = EmptyBag
    /\ mempool = EmptyBag
    /\ simulated = Accepted

\* A step of a goroutine that no one outside the node has to help with.
Step(j) ==
    \/ Reset(j) \/ StartWork(j) \/ CheckContainer(j) \/ ReceiveFirst(j) \/ EndDownload(j)
    \/ RenderFrame(j) \/ PassFrame(j) \/ RenderAgain(j) \/ CountFrames(j) \/ EndWork(j)
    \/ Begin(j) \/ Prepare(j) \/ PrepareReveal(j) \/ MarkRevealed(j) \/ Register(j)

Call(j, outcome) ==
    \/ Send(j, outcome) \/ SendReveal(j, outcome)
    \/ Subscribe(j, outcome) \/ SendRegistration(j, outcome)

\* What the requesters and the providers without a node of this kind do.
Others ==
    /\ \/ \E a \in Requesters, input \in FrameInputs, reward \in Rewards :
                CreateVideoUpscalerTask(a, input, reward)
       \/ \E w \in Providers \ Nodes :
            \/ \E stake \in Stakes : AddWorker(w, stake)
            \/ \E k \in DOMAIN threads :
                \/ SubscribeWorkerToTask(w, k)
                \/ \E files \in Proposals : ProposeSolution(w, k, files)
                \/ \E entries \in Reveals : RevealSolution(w, k, entries)
                \/ \E hashes \in Verifications : SubmitValidation(w, k, hashes)
                \/ \E dir \in Dirs : SubmitSolution(w, k, dir)
    /\ UNCHANGED nodeVars

\* What steps outside the chain leave alone.
ChainStays == UNCHANGED << vars, simulated >>

\* Blocks, messages, goroutines and containers take their course.
Runs ==
    \/ NodeBeginBlock
    \/ NodeEndBlock
    \/ Others
    \/ \E m \in DOMAIN mempool : Deliver(m)
    \/ /\ ChainStays
       /\ \/ \E j \in DOMAIN jobs : Step(j)
          \/ \E n \in Nodes, k \in Keys : ContainerExits(n, k) \/ ContainerIsRemoved(n, k)

NodeNext ==
    \/ Runs
    \/ ChainStays /\ \E j \in DOMAIN jobs, outcome \in Outcomes : Call(j, outcome)
    \/ ChainStays /\ \E n \in Nodes : Crash(n)

NodeSpec == NodeInit /\ [][NodeNext]_<< vars, nodeVars >>

=============================================================================
