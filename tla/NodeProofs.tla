----------------------------- MODULE NodeProofs -----------------------------
(***************************************************************************)
(* What the nodes and the chain keep together, for any number of nodes,    *)
(* threads and goroutines, and any messages of the other providers.        *)
(*                                                                         *)
(* A node's mark that it may reveal or submit is neither in the store nor  *)
(* in the row of the thread: it is that a goroutine of this kind runs, or  *)
(* that its message is on its way.  The chain never takes back what the    *)
(* hook saw when it started the goroutine.  The last part is about the     *)
(* tables, files and containers of the nodes, and the threads they are of. *)
(***************************************************************************)
EXTENDS NodeProperties, ThreadRulesProofs

-----------------------------------------------------------------------------
(* Threads. *)

ThreadFields == { "size", "workers", "proposedBy", "frames", "dir", "accepted",
                  "validations", "completed" }

\* What the handlers keep of any thread.
ThreadOK(t) ==
    /\ DOMAIN t = ThreadFields
    /\ t.validations \in Seq(Range(t.validations))
    /\ t.frames = [f \in DOMAIN t.frames |-> t.frames[f]]
    /\ t.completed => HasSolution(t)
    /\ t.proposedBy \in Nodes /\ t.completed => t.accepted
    /\ t.proposedBy \in Nodes /\ DOMAIN t.frames # {} /\ IsRevealed(t) => t.validations # << >>

\* What a thread never loses.
Keeps(t, u) ==
    /\ u.size = t.size
    /\ HasSolution(t) => u.proposedBy = t.proposedBy
    /\ t.accepted => u.accepted
    /\ t.validations # << >> => u.validations # << >>

\* Who is a node is somebody.
LEMMA NobodyIsNoNode == Nobody \notin Nodes
BY NodesAssumption, AccountsAssumption DEF Accounts

\* A new thread is open.
LEMMA NewThreadOK ==
    ASSUME NEW size
    PROVE  ThreadOK(NewThread(size))
<1> DEFINE t == NewThread(size)
<1>1. t.proposedBy \notin Nodes
    BY NobodyIsNoNode DEF NewThread
<1>2. t.validations \in Seq(Range(t.validations))
    BY DEF NewThread
<1>3. t.frames = [f \in DOMAIN t.frames |-> t.frames[f]]
    BY DEF NewThread
<1>4. DOMAIN t = ThreadFields /\ t.completed = FALSE
    BY DEF NewThread, ThreadFields
<1> HIDE DEF t
<1> QED
    BY <1>1, <1>2, <1>3, <1>4 DEF ThreadOK, t

\* SubscribeWorkerToTask adds a worker.
LEMMA SubscribedOK ==
    ASSUME NEW t, ThreadOK(t), NEW list
    PROVE  LET u == [t EXCEPT !.workers = list] IN ThreadOK(u) /\ Keeps(t, u)
BY DEF ThreadOK, ThreadFields, Keeps, IsRevealed, HasSolution

\* ProposeSolution, of a thread without a solution, writes frames without hashes.
LEMMA ProposedOK ==
    ASSUME NEW t, ThreadOK(t), ~HasSolution(t), NEW w, NEW files
    PROVE  LET u == [t EXCEPT !.proposedBy = w,
                              !.frames = [f \in files |->
                                            [hash |-> NoHash, valid |-> 0, invalid |-> 0]]]
           IN  ThreadOK(u) /\ Keeps(t, u)
BY DEF ThreadOK, ThreadFields, Keeps, IsRevealed, HasSolution

\* Any sequence is one of its own elements.
LEMMA SeqOfAny ==
    ASSUME NEW S, NEW s \in Seq(S)
    PROVE  s \in Seq(Range(s))
<1>1. s \in [1 .. Len(s) -> Range(s)] /\ Len(s) \in Nat
    BY LenProperties DEF Range
<1> QED
    BY <1>1, SeqDef

\* SubmitValidation, of a thread with a solution, adds a validation.
LEMMA ValidatedOK ==
    ASSUME NEW t, ThreadOK(t), NEW v
    PROVE  LET u == [t EXCEPT !.validations = Append(@, v)] IN ThreadOK(u) /\ Keeps(t, u)
<1> DEFINE u == [t EXCEPT !.validations = Append(@, v)]
           S == Range(t.validations) \cup {v}
           list == Append(t.validations, v)
<1>1. list \in Seq(S) /\ list # << >>
    <2>1. t.validations \in Seq(S) /\ v \in S
        BY DEF ThreadOK
    <2> HIDE DEF S
    <2> QED
        BY <2>1, AppendProperties
<1>2. list \in Seq(Range(list))
    BY <1>1, SeqOfAny
<1>3. /\ DOMAIN u = ThreadFields
      /\ u.validations = list /\ u.frames = t.frames /\ u.size = t.size
      /\ u.proposedBy = t.proposedBy /\ u.completed = t.completed /\ u.accepted = t.accepted
    BY DEF ThreadOK, ThreadFields
<1> HIDE DEF u, list
<1> QED
    BY <1>1, <1>2, <1>3 DEF ThreadOK, Keeps, IsRevealed, HasSolution, u

\* RevealSolution writes hashes into the frames.
LEMMA RevealedOK ==
    ASSUME NEW t, ThreadOK(t), NEW parsed,
           t.proposedBy \in Nodes => t.validations # << >>
    PROVE  LET u == Reveal(t, parsed) IN ThreadOK(u) /\ Keeps(t, u)
<1> DEFINE u == Reveal(t, parsed)
<1>1. /\ DOMAIN u = ThreadFields
      /\ u.validations = t.validations /\ u.size = t.size
      /\ u.proposedBy = t.proposedBy /\ u.completed = t.completed /\ u.accepted = t.accepted
    BY DEF ThreadOK, ThreadFields, Reveal
<1>2. u.frames = [f \in DOMAIN u.frames |-> u.frames[f]]
    BY DEF ThreadOK, ThreadFields, Reveal
<1> HIDE DEF u
<1> QED
    BY <1>1, <1>2 DEF ThreadOK, Keeps, HasSolution, u

\* SubmitSolution completes a thread with a solution.
LEMMA SubmittedOK ==
    ASSUME NEW t, ThreadOK(t), HasSolution(t), NEW dir,
           t.proposedBy \in Nodes => t.accepted
    PROVE  LET u == [t EXCEPT !.dir = dir, !.completed = TRUE] IN ThreadOK(u) /\ Keeps(t, u)
<1> DEFINE u == [t EXCEPT !.dir = dir, !.completed = TRUE]
<1>1. /\ DOMAIN u = ThreadFields
      /\ u.validations = t.validations /\ u.frames = t.frames /\ u.size = t.size
      /\ u.proposedBy = t.proposedBy /\ u.accepted = t.accepted
    BY DEF ThreadOK, ThreadFields
<1> HIDE DEF u
<1> QED
    BY <1>1 DEF ThreadOK, Keeps, IsRevealed, HasSolution, u

\* The evaluation of BeginBlock counts, and decides on what it had not accepted.
LEMMA EvaluatedOK ==
    ASSUME NEW t, ThreadOK(t), ReadyToEvaluate(t), NEW verdict
    PROVE  LET u == [EvaluateVerifications(t) EXCEPT !.accepted = verdict]
           IN  ThreadOK(u) /\ Keeps(t, u)
<1> DEFINE e == EvaluateVerifications(t)
           u == [e EXCEPT !.accepted = verdict]
<1>1. ~t.accepted /\ ~t.completed
    BY DEF ReadyToEvaluate
<1>2. /\ DOMAIN e = ThreadFields
      /\ e.validations = t.validations /\ e.size = t.size
      /\ e.proposedBy = t.proposedBy /\ e.completed = t.completed
      /\ DOMAIN e.frames = DOMAIN t.frames
      /\ e.frames = [f \in DOMAIN e.frames |-> e.frames[f]]
      /\ \A f \in DOMAIN t.frames : e.frames[f].hash = t.frames[f].hash
    BY DEF ThreadOK, ThreadFields, EvaluateVerifications
<1> HIDE DEF e
<1>3. /\ DOMAIN u = ThreadFields
      /\ u.validations = t.validations /\ u.frames = e.frames /\ u.size = t.size
      /\ u.proposedBy = t.proposedBy /\ u.completed = t.completed
    BY <1>2 DEF ThreadFields
<1> HIDE DEF u
<1> QED
    BY <1>1, <1>2, <1>3 DEF ThreadOK, Keeps, IsRevealed, HasSolution, u, e

-----------------------------------------------------------------------------
(* The store. *)

StoreOK ==
    /\ nextId \in Nat \ {0}
    /\ \A k \in DOMAIN threads :
        k \in Keys /\ k[1] < nextId /\ threads[k].size \in Int /\ ThreadOK(threads[k])

\* A step of the chain that breaks nothing a goroutine relies on.
StoreKept ==
    /\ StoreOK'
    /\ \A k \in DOMAIN threads :
        k \in DOMAIN threads' /\ Keeps(threads[k], threads'[k])

\* A step that does not write to the threads.
LEMMA SameStore ==
    ASSUME StoreOK, threads' = threads, nextId' = nextId
    PROVE  StoreKept
BY DEF StoreOK, StoreKept, Keeps

\* A handler writes one thread, and it does it well.
LEMMA OneThread ==
    ASSUME StoreOK, nextId' = nextId,
           NEW k \in DOMAIN threads, NEW u, ThreadOK(u), Keeps(threads[k], u),
           threads' = [threads EXCEPT ![k] = u]
    PROVE  StoreKept
<1>1. DOMAIN threads' = DOMAIN threads /\ threads'[k] = u
    OBVIOUS
<1>2. ASSUME NEW j \in DOMAIN threads
      PROVE  ThreadOK(threads'[j]) /\ Keeps(threads[j], threads'[j])
    <2>1. CASE j = k
        BY <1>1, <2>1
    <2>2. CASE j # k
        <3>1. threads'[j] = threads[j]
            BY <2>2
        <3> QED
            BY <3>1 DEF StoreOK, Keeps
    <2> QED
        BY <2>1, <2>2
<1>3. \A j \in DOMAIN threads : ThreadOK(threads[j])'
    BY <1>2 DEF ThreadOK, IsRevealed, HasSolution
<1>4. \A j \in DOMAIN threads : j \in Keys /\ j[1] < nextId' /\ threads'[j].size \in Int
    BY <1>1, <1>2 DEF StoreOK, Keeps
<1> QED
    BY <1>1, <1>2, <1>3, <1>4 DEF StoreOK, StoreKept, Keys

\* CreateVideoUpscalerTask adds threads under an id that no thread has.
LEMMA CreateKeeps ==
    ASSUME StoreOK, NEW a, NEW input \in FrameInputs, NEW reward,
           CreateVideoUpscalerTask(a, input, reward)
    PROVE  StoreKept
<1>1. nextId' = nextId + 1 /\ nextId' \in Nat \ {0} /\ nextId \in 1 .. MaxTasks
    BY ParamsAssumption DEF StoreOK, CreateVideoUpscalerTask
<1>2. ASSUME NEW k \in DOMAIN threads
      PROVE  k \in DOMAIN threads' /\ threads'[k] = threads[k] /\ k[1] < nextId'
    <2>1. k \in Keys /\ k[1] < nextId
        BY DEF StoreOK
    <2>2. k[1] \in Int /\ nextId \in Int
        BY <1>1, <2>1 DEF Keys
    <2> QED
        BY <1>1, <2>1, <2>2 DEF CreateVideoUpscalerTask
<1>3. ASSUME NEW k \in DOMAIN threads'
      PROVE  k \in Keys /\ k[1] < nextId' /\ threads'[k].size \in Int /\ ThreadOK(threads'[k])
    <2>1. CASE k \in DOMAIN threads
        BY <1>2, <2>1 DEF StoreOK
    <2>2. CASE k \notin DOMAIN threads
        <3>1. PICK i \in 0 .. input.threads - 1 : k = << nextId, i >>
            BY <2>2 DEF CreateVideoUpscalerTask
        <3>2. i \in Threads /\ k \in Keys /\ k[1] = nextId /\ k[2] = i
            BY <1>1, <3>1 DEF Threads, Keys
        <3>3. threads'[k] =
                    NewThread(ThreadSize(input.start, input.end, input.threads, k[2]))
            BY <3>2 DEF CreateVideoUpscalerTask
        <3>4. ThreadSize(input.start, input.end, input.threads, i) \in Int
            <4>1. /\ input.start \in Int /\ input.end \in Int
                  /\ input.threads \in Nat \ {0} /\ i \in Nat
                BY MessagesAssumption DEF CreateVideoUpscalerTask
            <4> QED
                BY <4>1, ThreadSizeType
        <3>5. threads'[k].size \in Int
            BY <3>2, <3>3, <3>4 DEF NewThread
        <3> QED
            BY <1>1, <3>2, <3>3, <3>5, NewThreadOK
    <2> QED
        BY <2>1, <2>2
<1>4. \A k \in DOMAIN threads' : ThreadOK(threads[k])'
    BY <1>3 DEF ThreadOK, IsRevealed, HasSolution
<1> QED
    BY <1>1, <1>2, <1>3, <1>4 DEF StoreOK, StoreKept, Keeps, Keys

\* SubscribeWorkerToTask.
LEMMA SubscribeKeeps ==
    ASSUME StoreOK, NEW w, NEW k, SubscribeWorkerToTask(w, k)
    PROVE  StoreKept
<1> DEFINE u == [threads[k] EXCEPT !.workers = Append(@, w)]
<1>1. k \in DOMAIN threads /\ ThreadOK(threads[k])
    BY DEF SubscribeWorkerToTask, CanSubscribe, StoreOK
<1>2. ThreadOK(u) /\ Keeps(threads[k], u)
    BY <1>1, SubscribedOK
<1>3. threads' = [threads EXCEPT ![k] = u] /\ nextId' = nextId
    BY DEF SubscribeWorkerToTask
<1> HIDE DEF u
<1> QED
    BY <1>1, <1>2, <1>3, OneThread

\* ProposeSolution, by whomever.
LEMMA ProposeKeeps ==
    ASSUME StoreOK, NEW w, NEW k, NEW files, ProposeSolution(w, k, files)
    PROVE  StoreKept
<1> DEFINE u == [threads[k] EXCEPT
                    !.proposedBy = w,
                    !.frames = [f \in files |-> [hash |-> NoHash, valid |-> 0, invalid |-> 0]]]
<1>1. k \in DOMAIN threads /\ ThreadOK(threads[k]) /\ ~HasSolution(threads[k])
    BY DEF ProposeSolution, CanPropose, StoreOK
<1>2. ThreadOK(u) /\ Keeps(threads[k], u)
    BY <1>1, ProposedOK
<1>3. threads' = [threads EXCEPT ![k] = u] /\ nextId' = nextId
    BY DEF ProposeSolution
<1> HIDE DEF u
<1> QED
    BY <1>1, <1>2, <1>3, OneThread

\* RevealSolution, by a provider without a node or on a thread with a validation.
LEMMA RevealKeeps ==
    ASSUME StoreOK, NEW w, NEW k, NEW entries, RevealSolution(w, k, entries),
           w \in Nodes => threads[k].validations # << >>
    PROVE  StoreKept
<1> DEFINE u == Reveal(threads[k], FromCliToFrames(entries))
<1>1. k \in DOMAIN threads /\ ThreadOK(threads[k]) /\ threads[k].proposedBy = w
    BY DEF RevealSolution, CanReveal, WorksOn, StoreOK
<1>2. ThreadOK(u) /\ Keeps(threads[k], u)
    BY <1>1, RevealedOK
<1>3. threads' = [threads EXCEPT ![k] = u] /\ nextId' = nextId
    BY DEF RevealSolution
<1> HIDE DEF u
<1> QED
    BY <1>1, <1>2, <1>3, OneThread

\* SubmitValidation.
LEMMA ValidateKeeps ==
    ASSUME StoreOK, NEW w, NEW k, NEW hashes, SubmitValidation(w, k, hashes)
    PROVE  StoreKept
<1> DEFINE v == [validator |-> w, isReverse |-> IsReverse(threads[k], w), hashes |-> hashes]
           u == [threads[k] EXCEPT !.validations = Append(@, v)]
<1>1. k \in DOMAIN threads /\ ThreadOK(threads[k])
    BY DEF SubmitValidation, CanValidate, WorksOn, StoreOK
<1>2. threads' = [threads EXCEPT ![k] = u] /\ nextId' = nextId
    BY DEF SubmitValidation
<1> HIDE DEF v
<1>3. ThreadOK(u) /\ Keeps(threads[k], u)
    BY <1>1, ValidatedOK
<1> HIDE DEF u
<1> QED
    BY <1>1, <1>2, <1>3, OneThread

\* SubmitSolution, by a provider without a node or of an accepted solution.
LEMMA SubmitKeeps ==
    ASSUME StoreOK, NEW w \in Providers, NEW k, NEW dir, SubmitSolution(w, k, dir),
           w \in Nodes => threads[k].accepted
    PROVE  StoreKept
<1> DEFINE u == [threads[k] EXCEPT !.dir = dir, !.completed = TRUE]
<1>1. k \in DOMAIN threads /\ ThreadOK(threads[k]) /\ threads[k].proposedBy = w
    BY DEF SubmitSolution, CanSubmit, StoreOK
<1>2. HasSolution(threads[k])
    BY <1>1, AccountsAssumption DEF HasSolution, Accounts
<1>3. ThreadOK(u) /\ Keeps(threads[k], u)
    BY <1>1, <1>2, SubmittedOK
<1>4. threads' = [threads EXCEPT ![k] = u] /\ nextId' = nextId
    BY DEF SubmitSolution
<1> HIDE DEF u
<1> QED
    BY <1>1, <1>3, <1>4, OneThread

\* BeginBlock evaluates the threads it stores.
LEMMA BeginBlockKeeps ==
    ASSUME StoreOK, BeginBlock
    PROVE  StoreKept
<1>1. DOMAIN threads' = DOMAIN threads /\ nextId' = nextId
    BY DEF BeginBlock
<1>2. ASSUME NEW k \in DOMAIN threads
      PROVE  ThreadOK(threads'[k]) /\ Keeps(threads[k], threads'[k])
    <2>1. ThreadOK(threads[k])
        BY DEF StoreOK
    <2>2. CASE threads'[k] = threads[k]
        BY <2>1, <2>2 DEF Keeps
    <2>3. CASE threads'[k] # threads[k]
        <3>1. /\ ReadyToEvaluate(threads[k])
              /\ threads'[k] =
                    [EvaluateVerifications(threads[k]) EXCEPT !.accepted = AcceptedNow(k)]
            BY <2>3 DEF BeginBlock, Evaluated
        <3> QED
            BY <2>1, <3>1, EvaluatedOK
    <2> QED
        BY <2>2, <2>3
<1>3. \A k \in DOMAIN threads : ThreadOK(threads[k])'
    BY <1>2 DEF ThreadOK, IsRevealed, HasSolution
<1>4. \A j \in DOMAIN threads : j \in Keys /\ j[1] < nextId' /\ threads'[j].size \in Int
    BY <1>1, <1>2 DEF StoreOK, Keeps
<1> QED
    BY <1>1, <1>2, <1>3, <1>4 DEF StoreOK, StoreKept, Keys

-----------------------------------------------------------------------------
(* Goroutines and messages. *)

JobFields == { "node", "kind", "key", "pc", "files" }

\* What the hook saw when it started a submission or a reveal still holds.
Vouched(n, kind, k) ==
    /\ kind = "submit" =>
        k \in DOMAIN threads /\ threads[k].proposedBy = n /\ threads[k].accepted
    /\ kind = "reveal" => k \in DOMAIN threads /\ threads[k].validations # << >>

JobOK(j) == DOMAIN j = JobFields /\ j.node \in Nodes /\ Vouched(j.node, j.kind, j.key)

MessageOK(m) == m.from \in Nodes /\ Vouched(m.from, m.kind, m.key)

NodeInv ==
    /\ StoreOK
    /\ \A j \in DOMAIN jobs : JobOK(j)
    /\ \A m \in DOMAIN mempool : MessageOK(m)

\* No step of the chain takes back what a goroutine was started for.
LEMMA VouchedStays ==
    ASSUME StoreKept, NEW n \in Nodes, NEW kind, NEW k, Vouched(n, kind, k)
    PROVE  Vouched(n, kind, k)'
<1>1. CASE k \in DOMAIN threads
    <2>1. threads[k].proposedBy = n => HasSolution(threads[k])
        BY NobodyIsNoNode DEF HasSolution
    <2> QED
        BY <1>1, <2>1 DEF StoreKept, Keeps, Vouched
<1>2. CASE k \notin DOMAIN threads
    BY <1>2 DEF Vouched
<1> QED
    BY <1>1, <1>2

\* A goroutine that runs keeps what it was started for.
LEMMA JobStaysOK ==
    ASSUME StoreKept, NEW j, JobOK(j)
    PROVE  JobOK(j)'
BY VouchedStays DEF JobOK

\* So does a message on its way, however long it takes.
LEMMA MessageStaysOK ==
    ASSUME StoreKept, NEW m, MessageOK(m)
    PROVE  MessageOK(m)'
BY VouchedStays DEF MessageOK

\* A goroutine the hooks start has the fields of one.
LEMMA StartedOK ==
    ASSUME NEW n \in Nodes, NEW kind, NEW k, Vouched(n, kind, k)'
    PROVE  JobOK(Started(n, kind, k))'
BY DEF JobOK, JobFields, Started, Job

\* The hooks start no others than these.
LEMMA Spawned ==
    ASSUME NEW new, Spawn(new), NEW j \in DOMAIN jobs'
    PROVE  j \in DOMAIN jobs \/ j \in new
BY DEF Spawn, (+), SetToBag

\* The work of a thread is neither a submission nor a reveal.
LEMMA WorkIsNoSubmission ==
    ASSUME NEW n \in Nodes, NEW j \in WorkOf(n)
    PROVE  \E k : \E kind \in {"work", "reset", "propose", "verify"} : j = Started(n, kind, k)
BY DEF WorkOf

\* BeginBlock starts submissions of solutions it has just accepted, or found accepted.
LEMMA NodeBeginBlockInv ==
    ASSUME NodeInv, NodeBeginBlock
    PROVE  NodeInv'
<1>1. StoreKept
    BY BeginBlockKeeps DEF NodeInv, NodeBeginBlock
<1>2. ASSUME NEW j \in DOMAIN jobs'
      PROVE  JobOK(j)'
    <2>1. CASE j \in DOMAIN jobs
        BY <1>1, <2>1, JobStaysOK DEF NodeInv
    <2>2. ASSUME NEW n \in Nodes, j \in WorkOf(n)
          PROVE  JobOK(j)'
        <3>1. PICK k : \E kind \in {"work", "reset", "propose", "verify"} : j = Started(n, kind, k)
            BY <2>2, WorkIsNoSubmission
        <3> PICK kind \in {"work", "reset", "propose", "verify"} : j = Started(n, kind, k)
            BY <3>1
        <3>2. Vouched(n, kind, k)'
            BY DEF Vouched
        <3> QED
            BY <3>1, <3>2, StartedOK
    <2>3. ASSUME NEW n \in Nodes, j \in UploadsOf(n)
          PROVE  JobOK(j)'
        <3>1. PICK k \in DOMAIN threads :
                    /\ j = Started(n, "submit", k)
                    /\ threads[k].proposedBy = n /\ threads'[k].accepted
            BY <2>3 DEF UploadsOf
        <3>2. k \in DOMAIN threads' /\ threads'[k].proposedBy = n
            BY <1>1, <3>1, NobodyIsNoNode DEF StoreKept, Keeps, HasSolution
        <3>3. Vouched(n, "submit", k)'
            BY <3>1, <3>2 DEF Vouched
        <3> QED
            BY <3>1, <3>3, StartedOK
    <2>4. j \in DOMAIN jobs \/ j \in UNION { WorkOf(n) \cup UploadsOf(n) : n \in Nodes }
        BY Spawned DEF NodeBeginBlock
    <2> QED
        BY <2>1, <2>2, <2>3, <2>4
<1>3. ASSUME NEW m \in DOMAIN mempool'
      PROVE  MessageOK(m)'
    <2>1. m \in DOMAIN mempool
        BY DEF NodeBeginBlock
    <2> QED
        BY <1>1, <2>1, MessageStaysOK DEF NodeInv
<1> QED
    BY <1>1, <1>2, <1>3 DEF NodeInv, StoreKept

\* EndBlock starts reveals of solutions with validations.
LEMMA NodeEndBlockInv ==
    ASSUME NodeInv, NodeEndBlock
    PROVE  NodeInv'
<1>1. threads' = threads /\ nextId' = nextId
    BY DEF NodeEndBlock, EndBlock
<1>2. StoreKept
    BY <1>1, SameStore DEF NodeInv
<1>3. ASSUME NEW j \in DOMAIN jobs'
      PROVE  JobOK(j)'
    <2>1. CASE j \in DOMAIN jobs
        BY <1>2, <2>1, JobStaysOK DEF NodeInv
    <2>2. ASSUME NEW n \in Nodes, j \in RegistrationOf(n) \cup SubscriptionOf(n)
          PROVE  JobOK(j)'
        <3>1. PICK k : \E kind \in {"register", "subscribe"} : j = Started(n, kind, k)
            BY <2>2 DEF RegistrationOf, SubscriptionOf
        <3> PICK kind \in {"register", "subscribe"} : j = Started(n, kind, k)
            BY <3>1
        <3>2. Vouched(n, kind, k)'
            BY DEF Vouched
        <3> QED
            BY <3>1, <3>2, StartedOK
    <2>3. ASSUME NEW n \in Nodes, j \in RevealsOf(n)
          PROVE  JobOK(j)'
        <3>1. PICK k \in DOMAIN threads :
                    j = Started(n, "reveal", k) /\ threads[k].validations # << >>
            BY <2>3 DEF RevealsOf
        <3>2. Vouched(n, "reveal", k)'
            BY <1>1, <3>1 DEF Vouched
        <3> QED
            BY <3>1, <3>2, StartedOK
    <2>4. \/ j \in DOMAIN jobs
          \/ j \in UNION { RegistrationOf(n) \cup SubscriptionOf(n) \cup RevealsOf(n) :
                             n \in Nodes }
        BY Spawned DEF NodeEndBlock
    <2> QED
        BY <2>1, <2>2, <2>3, <2>4
<1>4. ASSUME NEW m \in DOMAIN mempool'
      PROVE  MessageOK(m)'
    <2>1. m \in DOMAIN mempool
        BY DEF NodeEndBlock
    <2> QED
        BY <1>2, <2>1, MessageStaysOK DEF NodeInv
<1> QED
    BY <1>2, <1>3, <1>4 DEF NodeInv, StoreKept

\* The bag of goroutines after one has moved on.
LEMMA BecomeOK ==
    ASSUME NodeInv, NEW j \in DOMAIN jobs, NEW pc, NEW files, Become(j, pc, files),
           NEW i \in DOMAIN jobs'
    PROVE  JobOK(i)
<1> DEFINE next == [j EXCEPT !.pc = pc, !.files = files]
<1>1. i \in DOMAIN jobs \/ i = next
    BY DEF Become, (+), (-), SetToBag
<1>2. JobOK(j)
    BY DEF NodeInv
<1>3. JobOK(next)
    BY <1>2 DEF JobOK, JobFields
<1> HIDE DEF next
<1> QED
    BY <1>1, <1>3 DEF NodeInv

\* The bag of goroutines after one has come to an end.
LEMMA EndOK ==
    ASSUME NodeInv, NEW j, End(j), NEW i \in DOMAIN jobs'
    PROVE  JobOK(i)
<1>1. i \in DOMAIN jobs
    BY DEF End, (-), SetToBag
<1> QED
    BY <1>1 DEF NodeInv

\* A call puts at most the message of its goroutine into the mempool.
LEMMA CliOK ==
    ASSUME NodeInv, NEW j \in DOMAIN jobs, NEW outcome, Cli(j, outcome, Message(j)),
           NEW m \in DOMAIN mempool'
    PROVE  MessageOK(m)
<1>1. m \in DOMAIN mempool \/ m = Message(j)
    BY DEF Cli, (+), SetToBag
<1>2. JobOK(j)
    BY DEF NodeInv
<1>3. MessageOK(Message(j))
    BY <1>2 DEF JobOK, MessageOK, Message
<1> QED
    BY <1>1, <1>3 DEF NodeInv

\* With the store as it is, only the goroutines and the messages matter.
LEMMA NodeSide ==
    ASSUME NodeInv, UNCHANGED vars,
           \A i \in DOMAIN jobs' : JobOK(i),
           \A m \in DOMAIN mempool' : MessageOK(m)
    PROVE  NodeInv'
<1>1. threads' = threads /\ nextId' = nextId
    BY DEF vars
<1>2. StoreKept
    BY <1>1, SameStore DEF NodeInv
<1> QED
    BY <1>2, JobStaysOK, MessageStaysOK DEF NodeInv, StoreKept

\* A step of a goroutine sends nothing.
LEMMA StepInv ==
    ASSUME NodeInv, UNCHANGED vars, NEW j \in DOMAIN jobs, Step(j)
    PROVE  NodeInv'
<1>1. mempool' = mempool
    BY DEF Step, Reset, StartWork, CheckContainer, ReceiveFirst, EndDownload, RenderFrame,
        PassFrame, RenderAgain, CountFrames, EndWork, Begin, Prepare, PrepareReveal,
        MarkRevealed, Register
<1>2. \/ jobs' = jobs
      \/ End(j)
      \/ \E pc, files : Become(j, pc, files)
    BY DEF Step, Reset, StartWork, CheckContainer, ReceiveFirst, EndDownload, RenderFrame,
        PassFrame, RenderAgain, CountFrames, EndWork, Begin, Prepare, PrepareReveal,
        MarkRevealed, Register, Goto
<1>3. \A i \in DOMAIN jobs' : JobOK(i)
    BY <1>2, BecomeOK, EndOK DEF NodeInv
<1> QED
    BY <1>1, <1>3, NodeSide DEF NodeInv

\* A call sends what its goroutine was started for, or nothing.
LEMMA CallInv ==
    ASSUME NodeInv, UNCHANGED vars, NEW j \in DOMAIN jobs, NEW outcome, Call(j, outcome)
    PROVE  NodeInv'
<1>1. Cli(j, outcome, Message(j))
    BY DEF Call, Send, SendReveal, Subscribe, SendRegistration
<1>2. End(j) \/ \E pc, files : Become(j, pc, files)
    BY DEF Call, Send, SendReveal, Subscribe, SendRegistration, Goto
<1>3. \A i \in DOMAIN jobs' : JobOK(i)
    BY <1>2, BecomeOK, EndOK
<1>4. \A m \in DOMAIN mempool' : MessageOK(m)
    BY <1>1, CliOK
<1> QED
    BY <1>3, <1>4, NodeSide

\* A message that is delivered finds what it was sent for.
LEMMA HandleKeeps ==
    ASSUME NodeInv, NEW m \in DOMAIN mempool, Handle(m)
    PROVE  StoreKept
<1>1. MessageOK(m) /\ StoreOK
    BY DEF NodeInv
<1>2. m.from \in Providers
    BY <1>1, NodesAssumption DEF MessageOK
<1>3. CASE m.kind = "register" /\ AddWorker(m.from, MinWorkerStaking)
    BY <1>1, <1>3, SameStore DEF AddWorker
<1>4. CASE m.kind = "subscribe" /\ SubscribeWorkerToTask(m.from, m.key)
    BY <1>1, <1>4, SubscribeKeeps
<1>5. CASE m.kind = "propose" /\ ProposeSolution(m.from, m.key, m.files)
    BY <1>1, <1>5, ProposeKeeps
<1>6. CASE m.kind = "verify" /\ SubmitValidation(m.from, m.key, SignedFrames(m.files))
    BY <1>1, <1>6, ValidateKeeps
<1>7. CASE m.kind = "reveal" /\ RevealSolution(m.from, m.key, Entries(m.files))
    <2>1. threads[m.key].validations # << >>
        BY <1>1, <1>7 DEF MessageOK, Vouched
    <2> QED
        BY <1>1, <1>7, <2>1, RevealKeeps
<1>8. CASE m.kind = "submit" /\ SubmitSolution(m.from, m.key, UploadedDir)
    <2>1. threads[m.key].accepted
        BY <1>1, <1>8 DEF MessageOK, Vouched
    <2> QED
        BY <1>1, <1>2, <1>8, <2>1, SubmitKeeps
<1> QED
    BY <1>3, <1>4, <1>5, <1>6, <1>7, <1>8 DEF Handle

\* A delivered message is handled or refused, and gone.
LEMMA DeliverInv ==
    ASSUME NodeInv, NEW m \in DOMAIN mempool, Deliver(m)
    PROVE  NodeInv'
<1>1. StoreKept
    <2>1. CASE Handle(m)
        BY <2>1, HandleKeeps
    <2>2. CASE UNCHANGED vars
        BY <2>2, SameStore DEF vars, NodeInv
    <2> QED
        BY <2>1, <2>2 DEF Deliver
<1>2. jobs' = jobs /\ \A x \in DOMAIN mempool' : x \in DOMAIN mempool
    BY DEF Deliver, (-), SetToBag
<1> QED
    BY <1>1, <1>2, JobStaysOK, MessageStaysOK DEF NodeInv, StoreKept

\* What requesters, and providers without a node, send keeps the store.
LEMMA OthersKeep ==
    ASSUME NodeInv, Others
    PROVE  StoreKept
<1>1. StoreOK
    BY DEF NodeInv
<1>2. CASE \E a \in Requesters, input \in FrameInputs, reward \in Rewards :
                CreateVideoUpscalerTask(a, input, reward)
    BY <1>1, <1>2, CreateKeeps
<1>3. ASSUME NEW w \in Providers \ Nodes,
             \/ \E stake \in Stakes : AddWorker(w, stake)
             \/ \E k \in DOMAIN threads :
                \/ SubscribeWorkerToTask(w, k)
                \/ \E files \in Proposals : ProposeSolution(w, k, files)
                \/ \E entries \in Reveals : RevealSolution(w, k, entries)
                \/ \E hashes \in Verifications : SubmitValidation(w, k, hashes)
                \/ \E dir \in Dirs : SubmitSolution(w, k, dir)
      PROVE  StoreKept
    <2>1. CASE \E stake \in Stakes : AddWorker(w, stake)
        BY <1>1, <2>1, SameStore DEF AddWorker
    <2>2. CASE \E k \in DOMAIN threads : SubscribeWorkerToTask(w, k)
        BY <1>1, <2>2, SubscribeKeeps
    <2>3. CASE \E k \in DOMAIN threads, files \in Proposals : ProposeSolution(w, k, files)
        BY <1>1, <2>3, ProposeKeeps
    <2>4. CASE \E k \in DOMAIN threads, entries \in Reveals : RevealSolution(w, k, entries)
        BY <1>1, <2>4, RevealKeeps
    <2>5. CASE \E k \in DOMAIN threads, hashes \in Verifications :
                    SubmitValidation(w, k, hashes)
        BY <1>1, <2>5, ValidateKeeps
    <2>6. CASE \E k \in DOMAIN threads, dir \in Dirs : SubmitSolution(w, k, dir)
        BY <1>1, <2>6, SubmitKeeps
    <2> QED
        BY <1>3, <2>1, <2>2, <2>3, <2>4, <2>5, <2>6
<1> QED
    BY <1>2, <1>3 DEF Others

\* Goroutines and messages live on while the others act.
LEMMA OthersInv ==
    ASSUME NodeInv, Others
    PROVE  NodeInv'
<1>1. StoreKept
    BY OthersKeep
<1> QED
    BY <1>1, JobStaysOK, MessageStaysOK DEF NodeInv, StoreKept, Others, nodeVars

\* A crash ends goroutines, and sends nothing.
LEMMA CrashInv ==
    ASSUME NodeInv, UNCHANGED vars, NEW n, Crash(n)
    PROVE  NodeInv'
<1>1. mempool' = mempool /\ \A j \in DOMAIN jobs' : j \in DOMAIN jobs
    BY DEF Crash
<1> QED
    BY <1>1, NodeSide DEF NodeInv

\* Every goroutine and every message of a node is backed by the store, at all times.
LEMMA NodeInvariant == NodeSpec => []NodeInv
<1>1. NodeInit => NodeInv
    BY DEF NodeInit, Init, NodeInv, StoreOK, EmptyBag, SetToBag
<1>2. NodeInv /\ [NodeNext]_<< vars, nodeVars >> => NodeInv'
    <2> SUFFICES ASSUME NodeInv, [NodeNext]_<< vars, nodeVars >>
                 PROVE  NodeInv'
        OBVIOUS
    <2>1. CASE UNCHANGED << vars, nodeVars >>
        BY <2>1, NodeSide DEF nodeVars, NodeInv
    <2>2. CASE \E m \in DOMAIN mempool : Deliver(m)
        BY <2>2, DeliverInv
    <2>3. ASSUME UNCHANGED vars, NEW j \in DOMAIN jobs,
                 Step(j) \/ \E outcome \in Outcomes : Call(j, outcome)
          PROVE  NodeInv'
        BY <2>3, StepInv, CallInv
    <2>4. ASSUME UNCHANGED vars, NEW n \in Nodes, Crash(n)
          PROVE  NodeInv'
        BY <2>4, CrashInv
    <2>5. ASSUME UNCHANGED vars, NEW n \in Nodes, NEW k \in Keys,
                 ContainerExits(n, k) \/ ContainerIsRemoved(n, k)
          PROVE  NodeInv'
        BY <2>5, NodeSide DEF ContainerExits, ContainerIsRemoved, NodeInv
    <2> QED
        BY <2>1, <2>2, <2>3, <2>4, <2>5, NodeBeginBlockInv, NodeEndBlockInv, OthersInv
        DEF NodeNext, Runs, ChainStays
<1> QED
    BY <1>1, <1>2, PTL DEF NodeSpec

-----------------------------------------------------------------------------

\* SubmitSolution pays whoever has proposed.  The hook starts a submission for accepted
\* solutions only, acceptance is final, and so a node is paid for accepted solutions,
\* whatever is retried, lost, reordered or overwritten, and wherever it crashes.
THEOREM PaidForAccepted == NodeSpec => []NodeIsPaidForAccepted
<1>1. NodeInv => NodeIsPaidForAccepted
    BY DEF NodeInv, StoreOK, ThreadOK, NodeIsPaidForAccepted, Won
<1> QED
    BY <1>1, NodeInvariant, PTL

\* RevealSolution takes hashes at any time.  A node sends them only after EndBlock has
\* seen a validation, and no step removes one.
THEOREM RevealsLast == NodeSpec => []NodeRevealsLast
<1>1. NodeInv => NodeRevealsLast
    <2> SUFFICES ASSUME NodeInv, NEW n \in Nodes, NEW k \in DOMAIN threads,
                        Won(n, k), threads[k].frames # << >>, IsRevealed(threads[k])
                 PROVE  threads[k].validations # << >>
        BY DEF NodeRevealsLast
    <2>1. ThreadOK(threads[k])
        BY DEF NodeInv, StoreOK
    <2>2. DOMAIN threads[k].frames # {}
        BY <2>1, NoEntries DEF ThreadOK
    <2> QED
        BY <2>1, <2>2 DEF ThreadOK, Won
<1> QED
    BY <1>1, NodeInvariant, PTL

-----------------------------------------------------------------------------
(* Workers. *)

WorkerFields == { "enabled", "staked", "currentTaskId", "currentThreadIndex", "solutions",
                  "winnings" }

\* A worker that is not idle is on a thread.
WorkerOK(u) ==
    /\ DOMAIN u = WorkerFields
    /\ u.currentTaskId # NoTask => << u.currentTaskId, u.currentThreadIndex >> \in DOMAIN threads

WorkersOK == \A w \in DOMAIN workers : WorkerOK(workers[w])

\* What the handlers make of a worker.
LEMMA ChangedWorkerOK ==
    ASSUME NEW u, WorkerOK(u)
    PROVE  /\ WorkerOK(Released(u))
           /\ \A payment : WorkerOK(DeclareWinner(u, payment))
           /\ StoreOK => \A k \in DOMAIN threads : WorkerOK(Assigned(u, k))
<1>1. /\ WorkerOK(Released(u))
      /\ DOMAIN Released(u) = WorkerFields /\ Released(u).currentTaskId = NoTask
    BY DEF WorkerOK, WorkerFields, Released
<1>2. ASSUME NEW payment
      PROVE  WorkerOK(DeclareWinner(u, payment))
    <2>1. PICK r : r = Released(u)
        OBVIOUS
    <2>2. DOMAIN r = WorkerFields /\ r.currentTaskId = NoTask
        BY <1>1, <2>1
    <2>3. DeclareWinner(u, payment) = [r EXCEPT !.solutions = @ + 1, !.winnings = @ + payment]
        BY <2>1 DEF DeclareWinner
    <2>4. /\ DOMAIN DeclareWinner(u, payment) = WorkerFields
          /\ DeclareWinner(u, payment).currentTaskId = NoTask
        BY <2>2, <2>3 DEF WorkerFields
    <2> QED
        BY <2>4 DEF WorkerOK
<1>3. ASSUME StoreOK, NEW k \in DOMAIN threads
      PROVE  WorkerOK(Assigned(u, k))
    <2>1. k = << k[1], k[2] >>
        BY <1>3 DEF StoreOK, Keys
    <2>2. /\ DOMAIN Assigned(u, k) = WorkerFields
          /\ Assigned(u, k).currentTaskId = k[1] /\ Assigned(u, k).currentThreadIndex = k[2]
        BY DEF WorkerOK, WorkerFields, Assigned
    <2> QED
        BY <2>1, <2>2 DEF WorkerOK
<1> QED
    BY <1>1, <1>2, <1>3

\* A message is handled.
Handled(w) ==
    \/ \E stake : AddWorker(w, stake)
    \/ \E k : SubscribeWorkerToTask(w, k)
    \/ \E k, files : ProposeSolution(w, k, files)
    \/ \E k, entries : RevealSolution(w, k, entries)
    \/ \E k, hashes : SubmitValidation(w, k, hashes)
    \/ \E k, dir : SubmitSolution(w, k, dir)

\* The handlers assign workers to stored threads only.
LEMMA HandledWorkers ==
    ASSUME WorkersOK, StoreOK, StoreKept, NEW w, Handled(w)
    PROVE  WorkersOK'
<1>1. \A v \in DOMAIN workers' : WorkerOK(workers'[v])
    <2>1. ASSUME NEW stake, AddWorker(w, stake)
          PROVE  \A v \in DOMAIN workers' : WorkerOK(workers'[v])
        <3>1. WorkerOK(NewWorker(stake))
            BY DEF WorkerOK, WorkerFields, NewWorker
        <3> QED
            BY <2>1, <3>1 DEF AddWorker, Put, WorkersOK
    <2>2. ASSUME NEW k, SubscribeWorkerToTask(w, k)
          PROVE  \A v \in DOMAIN workers' : WorkerOK(workers'[v])
        <3>1. k \in DOMAIN threads /\ w \in DOMAIN workers
            BY <2>2 DEF SubscribeWorkerToTask, CanSubscribe
        <3>2. WorkerOK(Assigned(workers[w], k))
            BY <3>1, ChangedWorkerOK DEF WorkersOK
        <3> QED
            BY <2>2, <3>2 DEF SubscribeWorkerToTask, WorkersOK
    <2>3. ASSUME NEW k, NEW hashes, SubmitValidation(w, k, hashes)
          PROVE  \A v \in DOMAIN workers' : WorkerOK(workers'[v])
        <3>1. w \in DOMAIN workers
            BY <2>3 DEF SubmitValidation, CanValidate, WorksOn
        <3>2. WorkerOK(Released(workers[w]))
            BY <3>1, ChangedWorkerOK DEF WorkersOK
        <3> QED
            BY <2>3, <3>2 DEF SubmitValidation, WorkersOK
    <2>4. ASSUME NEW k, NEW dir, SubmitSolution(w, k, dir)
          PROVE  \A v \in DOMAIN workers' : WorkerOK(workers'[v])
        <3>1. PICK payment : workers' = [v \in DOMAIN workers |-> AfterSubmission(v, w, k, payment)]
            BY <2>4 DEF SubmitSolution
        <3> QED
            BY <3>1, ChangedWorkerOK DEF AfterSubmission, WorkersOK
    <2>5. CASE UNCHANGED workers
        BY <2>5 DEF WorkersOK
    <2> QED
        BY <2>1, <2>2, <2>3, <2>4, <2>5 DEF Handled, ProposeSolution, RevealSolution
<1> QED
    BY <1>1 DEF WorkersOK, WorkerOK, StoreKept

\* A step of the chain that leaves the workers alone.
LEMMA SameWorkers ==
    ASSUME WorkersOK, StoreKept, UNCHANGED workers
    PROVE  WorkersOK'
BY DEF WorkersOK, WorkerOK, StoreKept

-----------------------------------------------------------------------------
(* Bags. *)

\* Goroutines are started and messages sent: a bag stays one.
LEMMA UnionIsBag ==
    ASSUME NEW B, IsABag(B), NEW C, IsABag(C), NEW D,
           D = [e \in DOMAIN B \cup DOMAIN C |->
                 (IF e \in DOMAIN B THEN B[e] ELSE 0) + (IF e \in DOMAIN C THEN C[e] ELSE 0)]
    PROVE  IsABag(D)
<1>1. \A e \in DOMAIN B : B[e] \in Nat /\ B[e] > 0
    BY DEF IsABag
<1>2. \A e \in DOMAIN C : C[e] \in Nat /\ C[e] > 0
    BY DEF IsABag
<1> QED
    BY <1>1, <1>2 DEF IsABag

\* Goroutines end, and messages are delivered: a bag stays one.
LEMMA DifferenceIsBag ==
    ASSUME NEW B, IsABag(B), NEW C, IsABag(C), NEW D, D = B (-) C
    PROVE  IsABag(D)
<1>1. \A e \in DOMAIN B : B[e] \in Nat /\ B[e] > 0
    BY DEF IsABag
<1>2. \A e \in DOMAIN C : C[e] \in Nat /\ C[e] > 0
    BY DEF IsABag
<1> QED
    BY <1>1, <1>2 DEF IsABag, (-)

\* One of each.
LEMMA SetIsBag ==
    ASSUME NEW S
    PROVE  IsABag(SetToBag(S))
BY DEF IsABag, SetToBag

-----------------------------------------------------------------------------
(* Frames. *)

\* The frames of which a node may have a file, or a container.
FramesIn(k) == IF k \in DOMAIN threads THEN FramesOf(k) ELSE {}

\* A goroutine is on a stored thread.  RenderVideo has been through frames of the thread,
\* and not through all of them while it waits for a container.
WorkOK(j) ==
    /\ j.kind # "register" => j.key \in DOMAIN threads
    /\ j.kind = "work" =>
        /\ j.files \subseteq FramesOf(j.key)
        /\ j.pc = "wait" => j.files # FramesOf(j.key)

\* The next frame is one of the thread, while there is one.
LEMMA NextFrameOK ==
    ASSUME StoreOK, NEW j, j.key \in DOMAIN threads,
           j.files \subseteq FramesOf(j.key), j.files # FramesOf(j.key)
    PROVE  NextFrame(j) \in FramesOf(j.key)
<1>1. PICK n : n = threads[j.key].size
    OBVIOUS
<1>2. n \in Int /\ FramesOf(j.key) = 1 .. n
    BY <1>1 DEF StoreOK, FramesOf
<1> DEFINE left == FramesOf(j.key) \ j.files
<1>3. left # {} /\ left \in SUBSET (1 .. n) /\ n \in Nat
    <2>1. left # {} /\ left \in SUBSET (1 .. n)
        BY <1>2
    <2>2. PICK x \in 1 .. n : TRUE
        BY <2>1
    <2> QED
        BY <1>2, <2>1, <2>2
<1>4. Max(left) \in left /\ Min(left) \in left
    BY <1>3, MaxOfIndices, MinOfIndices
<1> QED
    BY <1>4 DEF NextFrame

\* The frames of a stored thread stay what they are, and there are none before it is
\* stored.
LEMMA FramesStay ==
    ASSUME StoreKept
    PROVE  /\ \A k : FramesIn(k) \subseteq FramesIn(k)'
           /\ \A j : WorkOK(j) => WorkOK(j)'
<1>1. \A k \in DOMAIN threads : k \in DOMAIN threads' /\ threads'[k].size = threads[k].size
    BY DEF StoreKept, Keeps
<1>2. \A k \in DOMAIN threads : FramesOf(k)' = FramesOf(k)
    BY <1>1 DEF FramesOf
<1>3. \A k : FramesIn(k) \subseteq FramesIn(k)'
    BY <1>1, <1>2 DEF FramesIn
<1>4. ASSUME NEW j, WorkOK(j)
      PROVE  WorkOK(j)'
    BY <1>1, <1>2, <1>4 DEF WorkOK
<1> QED
    BY <1>3, <1>4

-----------------------------------------------------------------------------
(* The local state. *)

TablesOK ==
    /\ registered \in [Nodes -> BOOLEAN]
    /\ DOMAIN taskRow = Nodes
    /\ \A n \in Nodes : DOMAIN taskRow[n] \subseteq 1 .. MaxTasks
    /\ flags \in [Nodes -> [Keys -> Rows]]
    /\ download \in [Nodes -> [Keys -> BOOLEAN]]

FilesOK ==
    /\ DOMAIN output = Nodes /\ DOMAIN container = Nodes
    /\ \A n \in Nodes : DOMAIN output[n] = Keys /\ DOMAIN container[n] = Keys
    /\ \A n \in Nodes, k \in Keys :
        /\ output[n][k] \subseteq FramesIn(k)
        /\ container[n][k] \in FramesIn(k) \cup {NoContainer, Exited}

LocalInv ==
    /\ WorkersOK /\ TablesOK /\ FilesOK
    /\ IsABag(jobs) /\ IsABag(mempool)
    /\ \A j \in DOMAIN jobs : WorkOK(j)

\* A column of a row is overwritten.
LEMMA UpdateOK ==
    ASSUME NEW V, NEW f \in [Nodes -> [Keys -> V]], NEW n \in Nodes, NEW k \in Keys, NEW v \in V,
           NEW g, g = [f EXCEPT ![n][k] = v]
    PROVE  g \in [Nodes -> [Keys -> V]]
OBVIOUS

\* The files and the containers stay the same, or more threads are stored.
LEMMA FilesStay ==
    ASSUME FilesOK, StoreKept, UNCHANGED << output, container >>
    PROVE  FilesOK'
<1>1. \A k : FramesIn(k) \subseteq FramesIn(k)'
    BY FramesStay
<1> QED
    BY <1>1 DEF FilesOK, Keys

\* A container, or what is left of it, changes.
LEMMA ContainerOK ==
    ASSUME FilesOK, StoreKept, UNCHANGED output, NEW n \in Nodes, NEW k \in Keys,
           NEW c \in FramesIn(k) \cup {NoContainer, Exited},
           container' = [container EXCEPT ![n][k] = c]
    PROVE  FilesOK'
<1>1. /\ DOMAIN container' = Nodes
      /\ \A m \in Nodes : DOMAIN container'[m] = Keys
      /\ \A m \in Nodes, l \in Keys : container'[m][l] \in {c, container[m][l]}
      /\ \A m \in Nodes, l \in Keys : container'[m][l] # container[m][l] => l = k
    BY DEF FilesOK
<1>2. \A l : FramesIn(l) \subseteq FramesIn(l)'
    BY FramesStay
<1>3. \A m \in Nodes, l \in Keys : container'[m][l] \in FramesIn(l)' \cup {NoContainer, Exited}
    BY <1>1, <1>2 DEF FilesOK
<1> QED
    BY <1>1, <1>2, <1>3 DEF FilesOK, Keys

\* The next of a goroutine: what Become makes of it.
LEMMA BecomeLocal ==
    ASSUME IsABag(jobs), \A i \in DOMAIN jobs : WorkOK(i),
           NEW j \in DOMAIN jobs, JobOK(j), NEW pc, NEW files, Become(j, pc, files),
           j.kind = "work" =>
                /\ files \subseteq FramesOf(j.key)
                /\ pc = "wait" => files # FramesOf(j.key)
    PROVE  IsABag(jobs') /\ \A i \in DOMAIN jobs' : WorkOK(i)
<1> DEFINE next == [j EXCEPT !.pc = pc, !.files = files]
<1>1. IsABag(jobs')
    <2>1. IsABag(SetToBag({j})) /\ IsABag(SetToBag({next}))
        BY SetIsBag
    <2>2. PICK left : left = jobs (-) SetToBag({j})
        OBVIOUS
    <2>3. IsABag(left)
        BY <2>1, <2>2, DifferenceIsBag
    <2> QED
        BY <2>1, <2>2, <2>3, UnionIsBag DEF Become, (+)
<1>2. next.kind = j.kind /\ next.key = j.key /\ next.pc = pc /\ next.files = files
    BY DEF JobOK, JobFields
<1>3. \A i \in DOMAIN jobs' : i \in DOMAIN jobs \/ i = next
    BY DEF Become, (+), (-), SetToBag
<1> HIDE DEF next
<1>4. WorkOK(next)
    BY <1>2 DEF WorkOK
<1> QED
    BY <1>1, <1>3, <1>4

\* A goroutine that ends.
LEMMA EndLocal ==
    ASSUME IsABag(jobs), \A i \in DOMAIN jobs : WorkOK(i), NEW j, End(j)
    PROVE  IsABag(jobs') /\ \A i \in DOMAIN jobs' : WorkOK(i)
<1>1. IsABag(jobs')
    BY DifferenceIsBag, SetIsBag DEF End
<1>2. \A i \in DOMAIN jobs' : i \in DOMAIN jobs
    BY DEF End, (-), SetToBag
<1> QED
    BY <1>1, <1>2

\* Goroutines that the hooks start.
LEMMA SpawnLocal ==
    ASSUME IsABag(jobs), \A i \in DOMAIN jobs : WorkOK(i)', NEW new, \A i \in new : WorkOK(i)',
           Spawn(new)
    PROVE  IsABag(jobs') /\ \A i \in DOMAIN jobs' : WorkOK(i)'
<1>1. IsABag(jobs')
    <2>1. PICK admitted : jobs' = jobs (+) SetToBag(admitted) \/ jobs' = jobs
        BY DEF Spawn
    <2>2. IsABag(SetToBag(admitted))
        BY SetIsBag
    <2> QED
        BY <2>1, <2>2, UnionIsBag DEF (+)
<1>2. \A i \in DOMAIN jobs' : i \in DOMAIN jobs \/ i \in new
    BY Spawned
<1> QED
    BY <1>1, <1>2

-----------------------------------------------------------------------------
(* The local state from step to step. *)

\* The row of a goroutine, but a registration, is one of the threads table.
LEMMA JobKey ==
    ASSUME StoreOK, NEW j, WorkOK(j), j.kind # "register"
    PROVE  j.key \in Keys
BY DEF StoreOK, WorkOK

\* The chain moves on, and a node has nothing to do with it.
LEMMA ChainSide ==
    ASSUME LocalInv, StoreKept, WorkersOK', IsABag(mempool'),
           UNCHANGED << registered, taskRow, flags, download, output, container, jobs >>
    PROVE  LocalInv'
<1>1. TablesOK'
    BY DEF LocalInv, TablesOK, Keys
<1>2. FilesOK'
    BY FilesStay DEF LocalInv
<1>3. IsABag(jobs') /\ \A j \in DOMAIN jobs' : WorkOK(j)'
    BY FramesStay DEF LocalInv
<1> QED
    BY <1>1, <1>2, <1>3 DEF LocalInv

\* A node moves on, and the chain has nothing to do with it.
LEMMA LocalSide ==
    ASSUME NodeInv, LocalInv, UNCHANGED vars, TablesOK', FilesOK',
           IsABag(jobs'), \A j \in DOMAIN jobs' : WorkOK(j), IsABag(mempool')
    PROVE  LocalInv'
<1>1. threads' = threads /\ nextId' = nextId /\ workers' = workers
    BY DEF vars
<1>2. StoreKept
    BY <1>1, SameStore DEF NodeInv
<1>3. WorkersOK'
    BY <1>1, <1>2, SameWorkers DEF LocalInv
<1>4. \A j \in DOMAIN jobs' : WorkOK(j)'
    BY <1>2, FramesStay
<1> QED
    BY <1>3, <1>4 DEF LocalInv

\* What becomes of a goroutine that makes a step: RenderVideo goes to the next frame,
\* and waits only for a frame that is left.
LEMMA StepJob ==
    ASSUME NodeInv, LocalInv, NEW j \in DOMAIN jobs, Step(j)
    PROVE  \/ jobs' = jobs
           \/ End(j)
           \/ \E pc, files :
                /\ Become(j, pc, files)
                /\ j.kind = "work" =>
                    files \subseteq FramesOf(j.key) /\ (pc = "wait" => files # FramesOf(j.key))
<1> DEFINE Goal ==
        \/ jobs' = jobs
        \/ End(j)
        \/ \E pc, files :
             /\ Become(j, pc, files)
             /\ j.kind = "work" =>
                 files \subseteq FramesOf(j.key) /\ (pc = "wait" => files # FramesOf(j.key))
<1> SUFFICES Goal
    OBVIOUS
<1>1. WorkOK(j) /\ StoreOK
    BY DEF LocalInv, NodeInv
<1>2. ASSUME j.kind = "work" /\ j.files # FramesOf(j.key)
      PROVE  j.files \cup {NextFrame(j)} \subseteq FramesOf(j.key)
    <2>1. NextFrame(j) \in FramesOf(j.key)
        BY <1>1, <1>2, NextFrameOK DEF WorkOK
    <2> QED
        BY <1>1, <1>2, <2>1 DEF WorkOK
<1>3. CASE RenderFrame(j)
    <2>1. j.kind = "work" /\ j.files # FramesOf(j.key) /\ j.files \subseteq FramesOf(j.key)
        BY <1>1, <1>3 DEF RenderFrame, WorkOK
    <2>2. CASE Goto(j, "wait")
        BY <2>1, <2>2 DEF Goto
    <2>3. CASE Become(j, "render", j.files \cup {NextFrame(j)})
        BY <1>2, <2>1, <2>3
    <2> QED
        BY <1>3, <2>2, <2>3 DEF RenderFrame
<1>4. CASE PassFrame(j)
    <2>1. j.kind = "work" /\ j.files # FramesOf(j.key)
        BY <1>1, <1>4 DEF PassFrame, WorkOK
    <2>2. Become(j, "render", j.files \cup {NextFrame(j)})
        BY <1>4 DEF PassFrame
    <2> QED
        BY <1>2, <2>1, <2>2
<1>5. CASE \E pc : pc # "wait" /\ Goto(j, pc)
    BY <1>1, <1>5 DEF Goto, WorkOK
<1>6. CASE j.kind # "work" /\ \E pc, files : Become(j, pc, files)
    BY <1>6
<1>7. CASE jobs' = jobs \/ End(j)
    BY <1>7
<1> HIDE DEF Goal
<1>8. CASE Reset(j) \/ StartWork(j) \/ CheckContainer(j) \/ ReceiveFirst(j) \/ EndDownload(j)
    BY <1>5, <1>7, <1>8 DEF Reset, StartWork, CheckContainer, ReceiveFirst, EndDownload
<1>9. CASE RenderAgain(j) \/ CountFrames(j) \/ EndWork(j) \/ Begin(j)
    BY <1>5, <1>7, <1>9 DEF RenderAgain, CountFrames, EndWork, Begin
<1>10. CASE Prepare(j) \/ PrepareReveal(j) \/ MarkRevealed(j) \/ Register(j)
    BY <1>5, <1>6, <1>7, <1>10 DEF Prepare, PrepareReveal, MarkRevealed, Register
<1> QED
    BY <1>3, <1>4, <1>8, <1>9, <1>10 DEF Step

\* A goroutine writes one of the ten rows, and only of its own node and thread.
LEMMA StepTables ==
    ASSUME NodeInv, LocalInv, NEW j \in DOMAIN jobs, Step(j)
    PROVE  TablesOK'
<1>1. WorkOK(j) /\ StoreOK /\ j.node \in Nodes /\ TablesOK
    BY DEF LocalInv, NodeInv, JobOK
<1>2. taskRow' = taskRow
    BY DEF Step, Reset, StartWork, CheckContainer, ReceiveFirst, EndDownload, RenderFrame,
        PassFrame, RenderAgain, CountFrames, EndWork, Begin, Prepare, PrepareReveal,
        MarkRevealed, Register
<1>3. \/ flags' = flags
      \/ j.kind # "register" /\ \E row \in Rows : UpdateThread(j.node, j.key, row)
    <2>1. CASE Reset(j) \/ StartWork(j) \/ CheckContainer(j) \/ EndDownload(j) \/ EndWork(j)
        BY <2>1 DEF Reset, StartWork, CheckContainer, EndDownload, EndWork, Rows
    <2>2. CASE Begin(j) \/ Prepare(j) \/ MarkRevealed(j)
        BY <2>2 DEF Begin, Begun, Prepare, Undone, MarkRevealed, Rows
    <2>3. CASE UNCHANGED flags
        BY <2>3
    <2> QED
        BY <2>1, <2>2, <2>3 DEF Step, ReceiveFirst, RenderFrame, PassFrame, RenderAgain,
            CountFrames, PrepareReveal, Register
<1>4. flags' \in [Nodes -> [Keys -> Rows]]
    <2>1. CASE flags' = flags
        BY <1>1, <2>1 DEF TablesOK
    <2>2. ASSUME j.kind # "register", NEW row \in Rows, UpdateThread(j.node, j.key, row)
          PROVE  flags' \in [Nodes -> [Keys -> Rows]]
        <3>1. j.key \in Keys
            BY <1>1, <2>2, JobKey
        <3> QED
            BY <1>1, <2>2, <3>1, UpdateOK DEF TablesOK, UpdateThread
    <2> QED
        BY <1>3, <2>1, <2>2
<1>5. download' \in [Nodes -> [Keys -> BOOLEAN]]
    <2>1. \/ download' = download
          \/ j.kind # "register" /\ download' = [download EXCEPT ![j.node][j.key] = TRUE]
        BY DEF Step, Reset, StartWork, CheckContainer, ReceiveFirst, EndDownload, RenderFrame,
            PassFrame, RenderAgain, CountFrames, EndWork, Begin, Prepare, PrepareReveal,
            MarkRevealed, Register
    <2>2. TRUE \in BOOLEAN
        OBVIOUS
    <2> QED
        BY <1>1, <2>1, <2>2, JobKey, UpdateOK, Zenon DEF TablesOK
<1>6. registered' \in [Nodes -> BOOLEAN]
    <2>1. registered' = registered \/ registered' = [registered EXCEPT ![j.node] = TRUE]
        BY DEF Step, Reset, StartWork, CheckContainer, ReceiveFirst, EndDownload, RenderFrame,
            PassFrame, RenderAgain, CountFrames, EndWork, Begin, Prepare, PrepareReveal,
            MarkRevealed, Register
    <2> QED
        BY <1>1, <2>1 DEF TablesOK
<1> QED
    BY <1>1, <1>2, <1>4, <1>5, <1>6 DEF TablesOK, Rows, Keys

\* A goroutine starts a container for a frame of its thread, and removes one that exited.
LEMMA StepFiles ==
    ASSUME NodeInv, LocalInv, UNCHANGED vars, NEW j \in DOMAIN jobs, Step(j)
    PROVE  FilesOK'
<1>1. WorkOK(j) /\ StoreOK /\ j.node \in Nodes /\ FilesOK
    BY DEF LocalInv, NodeInv, JobOK
<1>2. StoreKept
    BY <1>1, SameStore DEF vars
<1>3. output' = output
    BY DEF Step, Reset, StartWork, CheckContainer, ReceiveFirst, EndDownload, RenderFrame,
        PassFrame, RenderAgain, CountFrames, EndWork, Begin, Prepare, PrepareReveal,
        MarkRevealed, Register
<1>4. CASE UNCHANGED container
    BY <1>1, <1>2, <1>3, <1>4, FilesStay
<1>5. CASE CheckContainer(j) /\ container' # container
    <2>1. j.key \in Keys
        BY <1>1, <1>5, JobKey DEF CheckContainer
    <2>2. PICK c : c = IF container[j.node][j.key] = Exited THEN NoContainer
                       ELSE container[j.node][j.key]
        OBVIOUS
    <2>3. container' = [container EXCEPT ![j.node][j.key] = c]
        BY <1>5, <2>2 DEF CheckContainer, RemoveContainer
    <2>4. c \in FramesIn(j.key) \cup {NoContainer, Exited}
        BY <1>1, <2>1, <2>2 DEF FilesOK
    <2> QED
        BY <1>1, <1>2, <1>3, <2>1, <2>3, <2>4, ContainerOK
<1>6. CASE RenderFrame(j) /\ container' # container
    <2>1. j.key \in Keys /\ j.key \in DOMAIN threads
        BY <1>1, <1>6, JobKey DEF RenderFrame, WorkOK
    <2>2. container' = [container EXCEPT ![j.node][j.key] = NextFrame(j)]
        BY <1>6 DEF RenderFrame
    <2>3. NextFrame(j) \in FramesOf(j.key)
        BY <1>1, <1>6, <2>1, NextFrameOK DEF RenderFrame, WorkOK
    <2>4. NextFrame(j) \in FramesIn(j.key) \cup {NoContainer, Exited}
        BY <2>1, <2>3 DEF FramesIn
    <2> QED
        BY <1>1, <1>2, <1>3, <2>1, <2>2, <2>4, ContainerOK
<1> QED
    BY <1>4, <1>5, <1>6 DEF Step, Reset, StartWork, ReceiveFirst, EndDownload,
        PassFrame, RenderAgain, CountFrames, EndWork, Begin, Prepare, PrepareReveal,
        MarkRevealed, Register

\* A step of a goroutine.
LEMMA StepLocal ==
    ASSUME NodeInv, LocalInv, UNCHANGED vars, NEW j \in DOMAIN jobs, Step(j)
    PROVE  LocalInv'
<1>1. TablesOK' /\ FilesOK'
    BY StepTables, StepFiles
<1>2. mempool' = mempool
    BY DEF Step, Reset, StartWork, CheckContainer, ReceiveFirst, EndDownload, RenderFrame,
        PassFrame, RenderAgain, CountFrames, EndWork, Begin, Prepare, PrepareReveal,
        MarkRevealed, Register
<1>3. IsABag(jobs) /\ IsABag(mempool) /\ JobOK(j) /\ \A i \in DOMAIN jobs : WorkOK(i)
    BY DEF LocalInv, NodeInv
<1>4. IsABag(jobs') /\ \A i \in DOMAIN jobs' : WorkOK(i)
    BY <1>3, StepJob, EndLocal, BecomeLocal
<1> QED
    BY <1>1, <1>2, <1>3, <1>4, LocalSide

\* A row of the tasks table is added or overwritten.
LEMMA TaskRows ==
    ASSUME NEW rows, DOMAIN rows \subseteq 1 .. MaxTasks, NEW k \in Keys, NEW value
    PROVE  DOMAIN WithTaskRow(rows, k, value) \subseteq 1 .. MaxTasks
BY DEF WithTaskRow, Put, Keys

\* A call writes the row of its goroutine, and puts at most one message on its way.
LEMMA CallLocal ==
    ASSUME NodeInv, LocalInv, UNCHANGED vars, NEW j \in DOMAIN jobs, NEW outcome,
           Call(j, outcome)
    PROVE  LocalInv'
<1>1. /\ JobOK(j) /\ WorkOK(j) /\ StoreOK /\ TablesOK /\ FilesOK
      /\ IsABag(jobs) /\ IsABag(mempool) /\ \A i \in DOMAIN jobs : WorkOK(i)
    BY DEF LocalInv, NodeInv
<1>2. j.node \in Nodes
    BY <1>1 DEF JobOK
<1>3. j.kind # "work"
    BY DEF Call, Send, SendReveal, Subscribe, SendRegistration
<1>4. IsABag(jobs') /\ \A i \in DOMAIN jobs' : WorkOK(i)
    <2>1. End(j) \/ \E pc, files : Become(j, pc, files)
        BY DEF Call, Send, SendReveal, Subscribe, SendRegistration, Goto
    <2> QED
        BY <1>1, <1>3, <2>1, EndLocal, BecomeLocal
<1>5. IsABag(mempool')
    <2>1. PICK sent : sent = SetToBag({Message(j)})
        OBVIOUS
    <2>2. IsABag(sent)
        BY <2>1, SetIsBag
    <2>3. mempool' = mempool \/ mempool' = mempool (+) sent
        BY <2>1 DEF Call, Send, SendReveal, Subscribe, SendRegistration, Cli
    <2> QED
        BY <1>1, <2>2, <2>3, UnionIsBag DEF (+)
<1>6. flags' \in [Nodes -> [Keys -> Rows]]
    <2>1. \/ flags' = flags
          \/ j.kind # "register" /\ \E row \in Rows : UpdateThread(j.node, j.key, row)
        <3>1. CASE Send(j, outcome)
            BY <3>1 DEF Send, Undone, Rows
        <3> QED
            BY <3>1 DEF Call, SendReveal, Subscribe, SendRegistration
    <2>2. CASE flags' = flags
        BY <1>1, <2>2 DEF TablesOK
    <2>3. ASSUME j.kind # "register", NEW row \in Rows, UpdateThread(j.node, j.key, row)
          PROVE  flags' \in [Nodes -> [Keys -> Rows]]
        BY <1>1, <1>2, <2>3, JobKey, UpdateOK DEF TablesOK, UpdateThread
    <2> QED
        BY <2>1, <2>2, <2>3
<1>7. /\ DOMAIN taskRow' = Nodes
      /\ \A n \in Nodes : DOMAIN taskRow'[n] \subseteq 1 .. MaxTasks
    <2>1. CASE taskRow' = taskRow
        BY <1>1, <2>1 DEF TablesOK
    <2>2. CASE Subscribe(j, outcome) /\ taskRow' # taskRow
        <3>1. j.key \in Keys
            BY <1>1, <2>2, JobKey DEF Subscribe
        <3>2. PICK rows : /\ rows \in {taskRow[j.node], WithTaskRow(taskRow[j.node], j.key, FALSE)}
                          /\ taskRow' = [taskRow EXCEPT ![j.node] = rows]
            BY <2>2 DEF Subscribe
        <3>3. DOMAIN rows \subseteq 1 .. MaxTasks
            BY <1>1, <1>2, <3>1, <3>2, TaskRows DEF TablesOK
        <3> QED
            BY <1>1, <3>2, <3>3 DEF TablesOK
    <2> QED
        BY <2>1, <2>2 DEF Call, Send, SendReveal, SendRegistration
<1>8. registered' \in [Nodes -> BOOLEAN]
    <2>1. CASE registered' = registered
        BY <1>1, <2>1 DEF TablesOK
    <2>2. CASE SendRegistration(j, outcome)
        <3>1. (registered[j.node] /\ KeepsRow(outcome)) \in BOOLEAN
            BY Zenon
        <3>2. registered' = [registered EXCEPT ![j.node] = @ /\ KeepsRow(outcome)]
            BY <2>2 DEF SendRegistration
        <3> QED
            BY <1>1, <3>1, <3>2, Zenon DEF TablesOK
    <2> QED
        BY <2>1, <2>2 DEF Call, Send, SendReveal, Subscribe
<1>9. UNCHANGED << download, output, container >>
    BY DEF Call, Send, SendReveal, Subscribe, SendRegistration
<1>10. TablesOK'
    BY <1>1, <1>6, <1>7, <1>8, <1>9 DEF TablesOK, Rows, Keys
<1>11. FilesOK'
    <2>1. StoreKept
        BY <1>1, SameStore DEF vars
    <2> QED
        BY <1>1, <1>9, <2>1, FilesStay
<1> QED
    BY <1>4, <1>5, <1>10, <1>11, LocalSide

\* A container runs for a frame of a thread, and that is what it leaves.
LEMMA ContainerExitsLocal ==
    ASSUME NodeInv, LocalInv, UNCHANGED vars, NEW n \in Nodes, NEW k \in Keys,
           ContainerExits(n, k)
    PROVE  LocalInv'
<1>1. StoreOK /\ TablesOK /\ FilesOK
    BY DEF NodeInv, LocalInv
<1>2. container[n][k] \in FramesIn(k)
    BY <1>1 DEF ContainerExits, IsRunning, FilesOK
<1>3. PICK c : c \in {NoContainer, Exited} /\ container' = [container EXCEPT ![n][k] = c]
    BY DEF ContainerExits
<1>4. /\ DOMAIN container' = Nodes
      /\ \A m \in Nodes : DOMAIN container'[m] = Keys
      /\ \A m \in Nodes, l \in Keys :
            container'[m][l] \in FramesIn(l) \cup {NoContainer, Exited}
    BY <1>1, <1>3 DEF FilesOK
<1>5. /\ DOMAIN output' = Nodes
      /\ \A m \in Nodes : DOMAIN output'[m] = Keys
      /\ \A m \in Nodes, l \in Keys : output'[m][l] \subseteq FramesIn(l)
    <2>1. CASE UNCHANGED output
        BY <1>1, <2>1 DEF FilesOK
    <2>2. CASE output' = [output EXCEPT ![n][k] = @ \cup {container[n][k]}]
        <3>1. PICK saved : saved = output[n][k] \cup {container[n][k]}
            OBVIOUS
        <3>2. saved \subseteq FramesIn(k)
            BY <1>1, <1>2, <3>1 DEF FilesOK
        <3>3. CASE output' = [output EXCEPT ![n][k] = saved]
            BY <1>1, <3>2, <3>3 DEF FilesOK
        <3> QED
            BY <2>2, <3>1, <3>3
    <2> QED
        BY <2>1, <2>2 DEF ContainerExits
<1>6. \A l : FramesIn(l)' = FramesIn(l)
    BY DEF vars, FramesIn, FramesOf
<1>7. FilesOK'
    BY <1>4, <1>5, <1>6 DEF FilesOK, Keys
<1>8. UNCHANGED << registered, taskRow, flags, download, jobs, mempool >>
    BY DEF ContainerExits
<1>9. TablesOK'
    BY <1>1, <1>8 DEF TablesOK, Keys
<1> QED
    BY <1>7, <1>8, <1>9, LocalSide DEF LocalInv

\* A container that exited is removed.
LEMMA ContainerIsRemovedLocal ==
    ASSUME NodeInv, LocalInv, UNCHANGED vars, NEW n \in Nodes, NEW k \in Keys,
           ContainerIsRemoved(n, k)
    PROVE  LocalInv'
<1>1. StoreOK /\ TablesOK /\ FilesOK
    BY DEF NodeInv, LocalInv
<1>2. StoreKept
    BY <1>1, SameStore DEF vars
<1>3. /\ container' = [container EXCEPT ![n][k] = NoContainer]
      /\ UNCHANGED << registered, taskRow, flags, download, output, jobs, mempool >>
    BY DEF ContainerIsRemoved
<1>4. FilesOK'
    BY <1>1, <1>2, <1>3, ContainerOK
<1>5. TablesOK'
    BY <1>1, <1>3 DEF TablesOK, Keys
<1> QED
    BY <1>3, <1>4, <1>5, LocalSide DEF LocalInv

\* A crash ends the goroutines of a node, and leaves its tables and files.
LEMMA CrashLocal ==
    ASSUME NodeInv, LocalInv, UNCHANGED vars, NEW n \in Nodes, Crash(n)
    PROVE  LocalInv'
<1>1. StoreOK /\ TablesOK /\ FilesOK /\ IsABag(jobs)
    BY DEF NodeInv, LocalInv
<1>2. StoreKept
    BY <1>1, SameStore DEF vars
<1>3. UNCHANGED << registered, taskRow, flags, download, output, container, mempool >>
    BY DEF Crash
<1>4. IsABag(jobs') /\ \A j \in DOMAIN jobs' : j \in DOMAIN jobs
    BY <1>1 DEF Crash, IsABag
<1>5. FilesOK'
    BY <1>1, <1>2, <1>3, FilesStay
<1>6. TablesOK'
    BY <1>1, <1>3 DEF TablesOK, Keys
<1> QED
    BY <1>3, <1>4, <1>5, <1>6, LocalSide DEF LocalInv

\* BeginBlock starts work on threads that workers are on, and submissions of stored
\* threads.
LEMMA BeginBlockLocal ==
    ASSUME NodeInv, LocalInv, NodeBeginBlock
    PROVE  LocalInv'
<1>1. StoreOK /\ WorkersOK /\ TablesOK /\ FilesOK /\ IsABag(jobs) /\ IsABag(mempool)
    BY DEF NodeInv, LocalInv
<1>2. StoreKept
    BY <1>1, BeginBlockKeeps DEF NodeBeginBlock
<1>3. WorkersOK'
    BY <1>1, <1>2, SameWorkers DEF NodeBeginBlock, BeginBlock
<1>4. ASSUME NEW j \in UNION { WorkOf(n) \cup UploadsOf(n) : n \in Nodes }
      PROVE  WorkOK(j)
    <2>1. PICK n \in Nodes : j \in WorkOf(n) \/ j \in UploadsOf(n)
        BY <1>4
    <2>2. CASE j \in WorkOf(n)
        <3>1. n \in DOMAIN workers /\ ~IsIdle(n)
            BY <2>2 DEF WorkOf
        <3>2. CurrentThread(n) \in DOMAIN threads
            BY <1>1, <3>1 DEF WorkersOK, WorkerOK, IsIdle, CurrentThread
        <3>3. PICK kind : j = Started(n, kind, CurrentThread(n))
            BY <2>2 DEF WorkOf
        <3> QED
            BY <3>2, <3>3 DEF Started, Job, WorkOK
    <2>3. CASE j \in UploadsOf(n)
        BY <2>3 DEF UploadsOf, Started, Job, WorkOK
    <2> QED
        BY <2>1, <2>2, <2>3
<1> DEFINE new == UNION { WorkOf(n) \cup UploadsOf(n) : n \in Nodes }
<1>5. Spawn(new)
    BY DEF NodeBeginBlock
<1>6. /\ \A j \in new : WorkOK(j)'
      /\ \A j \in DOMAIN jobs : WorkOK(j)'
    BY <1>2, <1>4, FramesStay DEF LocalInv
<1> HIDE DEF new
<1>7. IsABag(jobs') /\ \A j \in DOMAIN jobs' : WorkOK(j)'
    BY <1>1, <1>5, <1>6, SpawnLocal
<1>8. UNCHANGED << registered, taskRow, flags, download, output, container, mempool >>
    BY DEF NodeBeginBlock
<1>9. TablesOK' /\ FilesOK'
    BY <1>1, <1>2, <1>8, FilesStay DEF TablesOK, Keys
<1> QED
    BY <1>1, <1>3, <1>7, <1>8, <1>9 DEF LocalInv

\* EndBlock starts a registration, or a subscription to a stored thread, and marks the
\* task of the thread.
LEMMA EndBlockLocal ==
    ASSUME NodeInv, LocalInv, NodeEndBlock
    PROVE  LocalInv'
<1>1. StoreOK /\ WorkersOK /\ TablesOK /\ FilesOK /\ IsABag(jobs) /\ IsABag(mempool)
    BY DEF NodeInv, LocalInv
<1>2. StoreKept
    BY <1>1, SameStore DEF NodeEndBlock, EndBlock
<1>3. WorkersOK'
    BY <1>1, <1>2, SameWorkers DEF NodeEndBlock, EndBlock
<1>4. ASSUME NEW n \in Nodes, NEW j \in SubscriptionOf(n)
      PROVE  WorkOK(j) /\ j.key \in Keys
    <2>1. PICK k \in Eligible(n) : j = Started(n, "subscribe", k)
        BY <1>4 DEF SubscriptionOf
    <2>2. k \in DOMAIN threads
        BY <2>1 DEF Eligible, ThreadsOf
    <2>3. k \in Keys
        BY <1>1, <2>2 DEF StoreOK
    <2> QED
        BY <2>1, <2>2, <2>3 DEF Started, Job, WorkOK
<1> DEFINE new == UNION { RegistrationOf(n) \cup SubscriptionOf(n) \cup RevealsOf(n) : n \in Nodes }
<1>5. ASSUME NEW j \in new
      PROVE  WorkOK(j)
    <2>1. PICK n \in Nodes :
                j \in RegistrationOf(n) \/ j \in SubscriptionOf(n) \/ j \in RevealsOf(n)
        BY <1>5
    <2>2. CASE j \in RegistrationOf(n)
        BY <2>2 DEF RegistrationOf, Started, Job, WorkOK
    <2>3. CASE j \in RevealsOf(n)
        BY <2>3 DEF RevealsOf, Started, Job, WorkOK
    <2> QED
        BY <1>4, <2>1, <2>2, <2>3
<1>6. Spawn(new)
    BY DEF NodeEndBlock
<1>7. /\ \A j \in new : WorkOK(j)'
      /\ \A j \in DOMAIN jobs : WorkOK(j)'
    BY <1>2, <1>5, FramesStay DEF LocalInv
<1> HIDE DEF new
<1>8. IsABag(jobs') /\ \A j \in DOMAIN jobs' : WorkOK(j)'
    BY <1>1, <1>6, <1>7, SpawnLocal
<1>9. /\ DOMAIN taskRow' = Nodes
      /\ \A n \in Nodes : DOMAIN taskRow'[n] \subseteq 1 .. MaxTasks
    <2>1. ASSUME NEW n \in Nodes
          PROVE  DOMAIN taskRow'[n] \subseteq 1 .. MaxTasks
        <3>1. CASE SubscriptionOf(n) = {}
            <4>1. taskRow'[n] = taskRow[n]
                BY <3>1 DEF NodeEndBlock
            <4> QED
                BY <1>1, <4>1 DEF TablesOK
        <3>2. CASE SubscriptionOf(n) # {}
            <4>1. PICK j : j = CHOOSE s \in SubscriptionOf(n) : TRUE
                OBVIOUS
            <4>2. j \in SubscriptionOf(n)
                BY <3>2, <4>1
            <4>3. taskRow'[n] = WithTaskRow(taskRow[n], j.key, TRUE)
                BY <3>2, <4>1 DEF NodeEndBlock
            <4>4. j.key \in Keys
                BY <1>4, <4>2
            <4> QED
                BY <1>1, <4>3, <4>4, TaskRows DEF TablesOK
        <3> QED
            BY <3>1, <3>2
    <2> QED
        BY <2>1 DEF NodeEndBlock
<1>10. UNCHANGED << registered, flags, download, output, container, mempool >>
    BY DEF NodeEndBlock
<1>11. TablesOK' /\ FilesOK'
    BY <1>1, <1>2, <1>9, <1>10, FilesStay DEF TablesOK, Keys
<1> QED
    BY <1>1, <1>3, <1>8, <1>10, <1>11 DEF LocalInv

\* A message that is delivered assigns workers to stored threads only.
LEMMA DeliverLocal ==
    ASSUME NodeInv, LocalInv, NEW m \in DOMAIN mempool, Deliver(m)
    PROVE  LocalInv'
<1>1. StoreOK /\ WorkersOK /\ IsABag(mempool)
    BY DEF NodeInv, LocalInv
<1>2. StoreKept /\ WorkersOK'
    <2>1. CASE Handle(m)
        <3>1. StoreKept
            BY <2>1, HandleKeeps
        <3>2. Handled(m.from)
            BY <2>1 DEF Handle, Handled
        <3> QED
            BY <1>1, <3>1, <3>2, HandledWorkers
    <2>2. CASE UNCHANGED vars
        <3>1. StoreKept
            BY <1>1, <2>2, SameStore DEF vars
        <3> QED
            BY <1>1, <2>2, <3>1, SameWorkers DEF vars
    <2> QED
        BY <2>1, <2>2 DEF Deliver
<1>3. IsABag(mempool')
    <2>1. PICK gone : gone = SetToBag({m})
        OBVIOUS
    <2>2. IsABag(gone)
        BY <2>1, SetIsBag
    <2>3. PICK left : left = mempool (-) gone
        OBVIOUS
    <2>4. IsABag(left)
        BY <1>1, <2>2, <2>3, DifferenceIsBag
    <2>5. mempool' = left
        BY <2>1, <2>3 DEF Deliver
    <2> QED
        BY <2>4, <2>5
<1> QED
    BY <1>2, <1>3, ChainSide DEF Deliver

\* What the others send keeps the store, and assigns workers to stored threads only.
LEMMA OthersLocal ==
    ASSUME NodeInv, LocalInv, Others
    PROVE  LocalInv'
<1>1. StoreOK /\ WorkersOK /\ IsABag(mempool)
    BY DEF NodeInv, LocalInv
<1>2. StoreKept
    BY OthersKeep
<1>3. WorkersOK'
    <2>1. CASE \E a \in Requesters, input \in FrameInputs, reward \in Rewards :
                    CreateVideoUpscalerTask(a, input, reward)
        BY <1>1, <1>2, <2>1, SameWorkers DEF CreateVideoUpscalerTask
    <2>2. CASE \E w \in Providers : Handled(w)
        BY <1>1, <1>2, <2>2, HandledWorkers
    <2> QED
        BY <2>1, <2>2 DEF Others, Handled
<1> QED
    BY <1>1, <1>2, <1>3, ChainSide DEF Others, nodeVars

\* Nothing is stored, started or sent at first.
LEMMA InitLocal ==
    ASSUME NodeInit
    PROVE  LocalInv
<1>1. DOMAIN workers = {} /\ DOMAIN threads = {}
    BY DEF NodeInit, Init
<1>2. TablesOK
    BY DEF NodeInit, TablesOK, Rows
<1>3. FilesOK
    BY DEF NodeInit, FilesOK
<1>4. IsABag(jobs) /\ IsABag(mempool) /\ DOMAIN jobs = {}
    BY DEF NodeInit, EmptyBag, SetToBag, IsABag
<1> QED
    BY <1>1, <1>2, <1>3, <1>4 DEF LocalInv, WorkersOK

\* The local state of every node fits the store, at all times.
LEMMA LocalInvariant == NodeSpec => []LocalInv
<1>1. NodeInit => LocalInv
    BY InitLocal
<1>2. NodeInv /\ LocalInv /\ [NodeNext]_<< vars, nodeVars >> => LocalInv'
    <2> SUFFICES ASSUME NodeInv, LocalInv, [NodeNext]_<< vars, nodeVars >>
                 PROVE  LocalInv'
        OBVIOUS
    <2>1. CASE UNCHANGED << vars, nodeVars >>
        <3>1. UNCHANGED << registered, taskRow, flags, download, output, container, jobs, mempool >>
            BY <2>1 DEF nodeVars
        <3>2. StoreKept /\ threads' = threads /\ workers' = workers
            BY <2>1, SameStore DEF vars, NodeInv
        <3>3. WorkersOK'
            BY <3>2, SameWorkers DEF LocalInv
        <3> QED
            BY <3>1, <3>2, <3>3, ChainSide DEF LocalInv
    <2>2. CASE \E m \in DOMAIN mempool : Deliver(m)
        BY <2>2, DeliverLocal
    <2>3. ASSUME UNCHANGED vars, NEW j \in DOMAIN jobs,
                 Step(j) \/ \E outcome \in Outcomes : Call(j, outcome)
          PROVE  LocalInv'
        BY <2>3, StepLocal, CallLocal
    <2>4. ASSUME UNCHANGED vars, NEW n \in Nodes, Crash(n)
          PROVE  LocalInv'
        BY <2>4, CrashLocal
    <2>5. ASSUME UNCHANGED vars, NEW n \in Nodes, NEW k \in Keys,
                 ContainerExits(n, k) \/ ContainerIsRemoved(n, k)
          PROVE  LocalInv'
        BY <2>5, ContainerExitsLocal, ContainerIsRemovedLocal
    <2> QED
        BY <2>1, <2>2, <2>3, <2>4, <2>5, BeginBlockLocal, EndBlockLocal, OthersLocal
        DEF NodeNext, Runs, ChainStays
<1> QED
    BY <1>1, <1>2, NodeInvariant, PTL DEF NodeSpec

\* StartWork, ProposeSolution and SubmitValidation count the files of the output
\* directory, and the hooks ask for the container by the name of the thread: there is
\* never a file or a container for a frame outside the thread, because a goroutine of
\* RenderVideo only waits for a frame that its thread has, and no step takes a thread or
\* its frames back while goroutines, files and containers outlive it.
THEOREM NodeTypes == NodeSpec => []NodeTypeOK
<1>1. LocalInv => NodeTypeOK
    BY DEF LocalInv, TablesOK, FilesOK, FramesIn, NodeTypeOK
<1> QED
    BY <1>1, LocalInvariant, PTL

=============================================================================
