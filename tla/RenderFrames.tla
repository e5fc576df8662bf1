---------------------------- MODULE RenderFrames ----------------------------
(***************************************************************************)
(* Rendering the threads of a task in containers (StartWork, RenderVideo   *)
(* and renderVideoFrame), a step for each call of the container engine,    *)
(* once splitFrames has dealt out the frames.                              *)
(*                                                                         *)
(* BeginBlock starts a goroutine for a thread again while its row has not  *)
(* been written, and a worker that has been moved leaves one behind: any   *)
(* goroutine may render any thread, of several tasks of the same split.    *)
(* The engine is known by its answers.  It removes a container by itself   *)
(* after it has exited (--rm), in one step.                                *)
(***************************************************************************)
EXTENDS SplitFrames, Names

CONSTANTS
    TaskIds,      \* ids of the tasks
    Reversed,     \* the threads, << task, index >>, whose frames the worker renders in
                  \* reverse: its place in their lists of workers does not change
    Rendered,     \* bound: the inputs whose threads are rendered
    Goroutines,   \* the goroutines of the node
    Unlucky       \* those whose calls may fail, and whose containers may exit without
                  \* a frame

ASSUME RenderAssumption ==
    /\ TaskIds \subseteq Nat \ {0}
    /\ Reversed \subseteq TaskIds \X Nat
    /\ Rendered \subseteq Inputs
    /\ Unlucky \subseteq Goroutines

VARIABLES
    container,   \* id -> [frame, by, running], of the containers the engine knows
    output,      \* id -> the frames saved in the directory of this name
    work         \* goroutine -> [thread, frame, pc]

renderVars == << container, output, work >>

Ids == { ThreadId(task, index) : task \in TaskIds, index \in 0 .. Len(result) - 1 }

ThreadKeys == TaskIds \X (0 .. Len(result) - 1)

FrameRange(k) == result[k[2] + 1]

Id(g) == ThreadId(work[g].thread[1], work[g].thread[2])

IsReversed(g) == work[g].thread \in Reversed

At(g, pc) == work[g].pc = pc

Goto(g, pc) == work' = [work EXCEPT ![g].pc = pc]

\* A call of the engine, or of IPFS, fails.
Fails(g) == g \in Unlucky

-----------------------------------------------------------------------------
(* RenderVideo: the loop over the frames of the thread. *)

\* Is the frame outside the range the loop goes through?  (Mutant: in reverse, the first
\* frame is.)
IsPast_AtFirst(g, frame) ==
    LET range == FrameRange(work[g].thread)
    IN  IF IsReversed(g) THEN frame <= range.start ELSE frame > range.end

IsPast(g, frame) ==
    LET range == FrameRange(work[g].thread)
    IN  IF IsReversed(g) THEN frame < range.start ELSE frame > range.end

LoopFrom(g, frame) ==
    work' = [work EXCEPT ![g].frame = frame,
                         ![g].pc = IF IsPast(g, frame) THEN "count" ELSE "check"]

NextFrame(g) == IF IsReversed(g) THEN work[g].frame - 1 ELSE work[g].frame + 1

Advance(g) == LoopFrom(g, NextFrame(g))

FrameToBegin(g) ==
    LET range == FrameRange(work[g].thread)
    IN  IF IsReversed(g) THEN range.end ELSE range.start

-----------------------------------------------------------------------------
(* StartWork. *)

\* IsContainerRunning compares what docker prints, one name or several, with the name.
SeemsRunning(id) ==
    { name \in DOMAIN container : Matches(id, name) /\ container[name].running } = {id}

StartWork(g, k) ==
    /\ At(g, "new")
    /\ work' = [work EXCEPT ![g] = [thread |-> k, frame |-> 0, pc |-> "start"]]
    /\ UNCHANGED << container, output >>

CheckRunning(g) ==
    /\ At(g, "start")
    /\ \/ SeemsRunning(Id(g)) /\ Goto(g, "busy")
       \/ (~SeemsRunning(Id(g)) \/ Fails(g)) /\ Goto(g, "clean")
    /\ UNCHANGED << container, output >>

\* docker rm: of a container that has exited, and not of one that runs.  (Mutant: of
\* either, as with --force.)
WithoutExited_Forced(id) ==
    [n \in DOMAIN container \ {id} |-> container[n]]

WithoutExited(id) ==
    [n \in { n \in DOMAIN container : n # id \/ container[n].running } |-> container[n]]

RemoveContainer(g) ==
    container' \in {WithoutExited(Id(g))} \cup (IF Fails(g) THEN {container} ELSE {})

\* The container is removed, the video downloaded and RenderVideo begun.
Clean(g) ==
    /\ At(g, "clean")
    /\ RemoveContainer(g)
    /\ LoopFrom(g, FrameToBegin(g))
    /\ UNCHANGED output

\* The video cannot be downloaded: nothing is rendered and no file counted.
FailDownload(g) ==
    /\ At(g, "clean")
    /\ Fails(g)
    /\ RemoveContainer(g)
    /\ Goto(g, "failed")
    /\ UNCHANGED output

\* The files are counted.  Their directory is made by the script that saves them: a
\* thread that has no frames is never whole.
CountFrames(g) ==
    /\ At(g, "count")
    /\ Goto(g, IF /\ output[Id(g)] # {}
                  /\ Cardinality(output[Id(g)]) = Size(FrameRange(work[g].thread))
               THEN "whole" ELSE "short")
    /\ UNCHANGED << container, output >>

-----------------------------------------------------------------------------
(* renderVideoFrame.  Every error, and a container that exists, ends it: the
   loop goes on with the next frame. *)

\* (Mutant: the filter is applied the other way round.)
InTheWay_Longer(id) == { name \in DOMAIN container : Matches(name, id) }

InTheWay(id) == { name \in DOMAIN container : Matches(id, name) }

CheckContainer(g) ==
    /\ At(g, "check")
    /\ \/ InTheWay(Id(g)) = {} /\ Goto(g, "run")
       \/ (InTheWay(Id(g)) # {} \/ Fails(g)) /\ Advance(g)
    /\ UNCHANGED << container, output >>

WithNew(id, new) ==
    [n \in DOMAIN container \cup {id} |-> IF n = id THEN new ELSE container[n]]

RunContainer(g) ==
    /\ At(g, "run")
    /\ \/ /\ Id(g) \notin DOMAIN container
          /\ container' = WithNew(Id(g), [frame |-> work[g].frame, by |-> g, running |-> TRUE])
          /\ Goto(g, "wait")
       \/ /\ Id(g) \in DOMAIN container \/ Fails(g)
          /\ Advance(g)
          /\ UNCHANGED container
    /\ UNCHANGED output

\* docker wait answers when the container exits: see ContainerExits.
WaitForContainer(g) ==
    /\ At(g, "wait")
    /\ \/ /\ Id(g) \in DOMAIN container
          /\ Goto(g, IF container[Id(g)].running THEN "waiting" ELSE "logs")
       \/ (Id(g) \notin DOMAIN container \/ Fails(g)) /\ Advance(g)
    /\ UNCHANGED << container, output >>

ReadLogs(g) ==
    /\ At(g, "logs")
    /\ Id(g) \in DOMAIN container
    /\ Goto(g, "rm")
    /\ UNCHANGED << container, output >>

\* The container has been removed before its log was read.  (Mutant: the frame is
\* rendered again.)
LoseLogs_RenderAgain(g) ==
    /\ At(g, "logs")
    /\ Id(g) \notin DOMAIN container \/ Fails(g)
    /\ Goto(g, "check")
    /\ UNCHANGED << container, output >>

LoseLogs(g) ==
    /\ At(g, "logs")
    /\ Id(g) \notin DOMAIN container \/ Fails(g)
    /\ Advance(g)
    /\ UNCHANGED << container, output >>

RemoveOwn(g) ==
    /\ At(g, "rm")
    /\ RemoveContainer(g)
    /\ Goto(g, "stat")
    /\ UNCHANGED output

\* A frame whose file is not there is rendered again.
IsThere(g) == LookedFor(work[g].frame) \in { SavedAs(f) : f \in output[Id(g)] }

StatFrame(g) ==
    /\ At(g, "stat")
    /\ IF IsThere(g) THEN Advance(g) ELSE Goto(g, "check")
    /\ UNCHANGED << container, output >>

-----------------------------------------------------------------------------
(* The engine. *)

\* A container saves its frame and exits; whoever waits for it is answered.
ContainerExits(id) ==
    /\ container[id].running
    /\ container' = [container EXCEPT ![id].running = FALSE]
    /\ \/ output' = [output EXCEPT ![id] = @ \cup {container[id].frame}]
       \/ container[id].by \in Unlucky /\ UNCHANGED output
    /\ work' = [g \in Goroutines |->
                    IF At(g, "waiting") /\ Id(g) = id THEN [work[g] EXCEPT !.pc = "logs"]
                    ELSE work[g]]

\* --rm
ContainerIsRemoved(id) ==
    /\ id \in DOMAIN container /\ ~container[id].running
    /\ container' = WithoutExited(id)
    /\ UNCHANGED << output, work >>

-----------------------------------------------------------------------------

RenderInit ==
    /\ Init
    /\ container = << >>
    /\ output = << >>
    /\ work = [g \in Goroutines |-> [thread |-> << >>, frame |-> 0, pc |-> "new"]]

\* An iteration of splitFrames; the directories of the threads are empty.
Deal ==
    /\ Iterate
    /\ output' = [id \in Ids' |-> {}]
    /\ UNCHANGED << container, work >>

Step(g) ==
    \/ CheckRunning(g) \/ Clean(g) \/ FailDownload(g) \/ CountFrames(g)
    \/ CheckContainer(g) \/ RunContainer(g) \/ WaitForContainer(g)
    \/ ReadLogs(g) \/ LoseLogs(g) \/ RemoveOwn(g) \/ StatFrame(g)

Render ==
    /\ i = input.threads /\ input \in Rendered
    /\ UNCHANGED vars
    /\ \/ \E g \in Goroutines :
            \/ \E k \in ThreadKeys : StartWork(g, k)
            \/ Step(g)
       \/ \E id \in DOMAIN container : ContainerExits(id) \/ ContainerIsRemoved(id)

RenderNext == Deal \/ Render

RenderSpec == RenderInit /\ [][RenderNext]_<< vars, renderVars >>

=============================================================================
