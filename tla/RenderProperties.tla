-------------------------- MODULE RenderProperties --------------------------
(***************************************************************************)
(* What rendering in containers keeps, although docker's filter takes one  *)
(* container for another and a frame is not found where it is looked for.  *)
(***************************************************************************)
EXTENDS RenderFrames

Places == { "new", "start", "busy", "clean", "check", "run", "wait", "waiting", "logs", "rm",
            "stat", "count", "whole", "short", "failed" }

\* The types of the containers, files and goroutines, whose frames are those of the
\* thread.  A goroutine that waits for an answer has a container to wait for.
RenderTypeOK ==
    /\ DOMAIN container \subseteq Ids
    /\ DOMAIN output = Ids
    /\ \A id \in DOMAIN container :
        container[id].by \in Goroutines /\ container[id].running \in BOOLEAN
    /\ \A g \in Goroutines :
        /\ work[g].pc \in Places
        /\ At(g, "waiting") => Id(g) \in DOMAIN container /\ container[Id(g)].running

\* GenerateThreads: the ids of the threads of all tasks differ, as long as no task has
\* more than ten.  (Thread 10 of task 1 is thread 0 of task 11.)
ThreadIdsDiffer ==
    input.threads <= 10 =>
        \A k, l \in ThreadKeys : ThreadId(k[1], k[2]) = ThreadId(l[1], l[2]) => k = l

\* The frames of a thread.
RangeSet(k) == FrameRange(k).start .. FrameRange(k).end

\* renderVideoFrame skips a frame when it sees a container.  A goroutine whose calls
\* succeed and that ends without all its frames was not alone: another renders the same
\* thread, or one whose id begins with the id of this one.  (Or the thread has no frames:
\* a task may have more threads than frames, and may end before it starts.)
ShortWasNotAlone ==
    \A g \in Goroutines \ Unlucky :
        At(g, "short") /\ RangeSet(work[g].thread) # {} =>
            \E h \in Goroutines \ {g} : ~At(h, "new") /\ Matches(Id(g), Id(h))

\* The rendering seen from outside.
Loops(g) == work[g].pc \notin {"new", "start", "busy", "clean", "failed"}

FramesLeft(g) ==
    IF ~Loops(g) \/ work[g].pc \in {"count", "whole", "short"} THEN {}
    ELSE { f \in RangeSet(work[g].thread) :
             IF IsReversed(g) THEN f <= work[g].frame ELSE f >= work[g].frame }

FramesSeen == IF Done THEN [k \in ThreadKeys |-> RangeSet(k)] ELSE << >>

SavedSeen == IF Done THEN [k \in ThreadKeys |-> output[ThreadId(k[1], k[2])]] ELSE << >>

DoesSeen ==
    [g \in Goroutines |-> IF Loops(g) THEN << work[g].thread, IsReversed(g) >> ELSE << >>]

LeftSeen == [g \in Goroutines |-> FramesLeft(g)]

VerdictSeen ==
    [g \in Goroutines |-> IF work[g].pc \in {"whole", "short"} THEN work[g].pc ELSE "none"]

Outside == INSTANCE Rendering WITH
    frames <- FramesSeen, saved <- SavedSeen, does <- DoesSeen, left <- LeftSeen,
    verdict <- VerdictSeen

\* Whatever the containers do and the engine refuses, a goroutine goes through its frames
\* once and in its direction, saves frames of its own thread only, and counts as completed
\* exactly a thread with all its frames, which StartWork only counts.
ImplementsRendering == Outside!Spec

-----------------------------------------------------------------------------
(* Progress: goroutines run, and every container comes to an end.  Nothing in the code
   says when docker removes it: before its log is read, or after. *)

AllRenderVars == << vars, renderVars >>

FairRenderSpec ==
    /\ RenderSpec
    /\ \A g \in Goroutines :
        /\ WF_AllRenderVars(UNCHANGED vars /\ Step(g))
        /\ WF_AllRenderVars(UNCHANGED vars /\ \E id \in DOMAIN container :
                                container[id].by = g /\ ContainerExits(id))

Ended(g) == work[g].pc \in {"busy", "failed", "whole", "short"}

\* The file of the frame has just been looked for under another name than its own.
LooksElsewhere(g) ==
    /\ At(g, "stat")
    /\ work[g].frame \in output[Id(g)]
    /\ LookedFor(work[g].frame) # SavedAs(work[g].frame)

\* A goroutine whose calls succeed comes to an end, whatever other goroutines leave in its
\* way and whenever docker removes its containers; or it looks for a saved frame under
\* another name.  That is the one thing renderVideoFrame can repeat for ever, and it says
\* nothing of the goroutines whose calls fail.
RenderingEnds ==
    \A g \in Goroutines \ Unlucky :
        ~At(g, "new") ~> Ended(g) \/ LooksElsewhere(g)

\* docker.go, FormatFrameFilename: "returns the correct filename for a given frame
\* number".  A goroutine that finds the frame it looks for goes on to another.
SavedFrameIsPassed ==
    \A g \in Goroutines : \A f \in UNION { in.start .. in.end : in \in Rendered } :
        At(g, "stat") /\ work[g].frame = f /\ f \in output[Id(g)]
            ~> At(g, "count") \/ Ended(g) \/ work[g].frame # f

=============================================================================
