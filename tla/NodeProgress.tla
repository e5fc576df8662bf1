---------------------------- MODULE NodeProgress ----------------------------
(***************************************************************************)
(* What the nodes bring about: registrations, reveals, submissions and     *)
(* completed tasks; and what the comments of the node's code say that it   *)
(* does not bring about.                                                   *)
(*                                                                         *)
(* A node marks what it is about to do, and does not do again what is      *)
(* marked.  When a call of the command line exits without error although   *)
(* the message got nowhere, or the node crashes after the mark, the mark   *)
(* stays and nothing is ever sent.  A history variable records this, so    *)
(* that the properties can say that nothing else keeps a node from its     *)
(* goal.                                                                   *)
(***************************************************************************)
EXTENDS NodeProperties

CONSTANT MaxCrashes   \* bound: crashes in all

ASSUME MaxCrashesAssumption == MaxCrashes \in Nat

VARIABLES
    lost,     \* [node, kind, key] of what is marked and will not be sent
    crashes   \* how many crashes there have been

NodeVars == << vars, nodeVars >>

WhatIs(j) == [node |-> j.node, kind |-> j.kind, key |-> j.key]

\* The mark of the goroutine is there, and its message is not sent yet.
IsMarked(j) ==
    \/ j.kind = "subscribe"
    \/ j.kind = "register" /\ j.pc = "send"
    \/ j.kind \in {"propose", "verify", "submit"} /\ j.pc \in {"prepare", "send"}
    \/ j.kind = "work" /\ j.pc # "start"

\* A message gets lost behind an exit without error.  A proposal stays marked even when
\* its call fails.
Loses(j, outcome) ==
    \/ outcome = "lost"
    \/ j.kind = "propose" /\ outcome = "refused"

ProgressInit == NodeInit /\ lost = {} /\ crashes = 0

ProgressNext ==
    \/ Runs /\ UNCHANGED << lost, crashes >>
    \/ \E j \in DOMAIN jobs, outcome \in Outcomes :
        /\ ChainStays /\ Call(j, outcome)
        /\ lost' = IF Loses(j, outcome) THEN lost \cup {WhatIs(j)} ELSE lost
        /\ UNCHANGED crashes
    \/ \E n \in Nodes :
        /\ ChainStays /\ Crash(n)
        /\ crashes < MaxCrashes /\ crashes' = crashes + 1
        /\ lost' = lost \cup { WhatIs(j) : j \in { x \in DOMAIN jobs : x.node = n /\ IsMarked(x) } }

ProgressSpec == ProgressInit /\ [][ProgressNext]_<< NodeVars, lost, crashes >>

Lost(n, kind, k) == [node |-> n, kind |-> kind, key |-> k] \in lost

-----------------------------------------------------------------------------
(* Fairness.  Blocks are made and messages in the mempool get into them, containers
   come to an end, and the goroutines of a node run. *)

Kinds == {"reset", "work", "propose", "verify", "reveal", "submit", "subscribe", "register"}

JobsOf(n, kind) == { j \in DOMAIN jobs : j.node = n /\ j.kind = kind }

CallOf(n, kind, outcome) == ChainStays /\ \E j \in JobsOf(n, kind) : Call(j, outcome)

\* A step or a call of the goroutines of one kind.
MoveOf(n, kind) ==
    \/ ChainStays /\ \E j \in JobsOf(n, kind) : Step(j)
    \/ \E outcome \in Outcomes : CallOf(n, kind, outcome)

\* A reset is part of BeginBlock.
BlockFairness ==
    /\ WF_NodeVars(NodeBeginBlock)
    /\ WF_NodeVars(NodeEndBlock)
    /\ \A n \in Nodes : WF_NodeVars(MoveOf(n, "reset"))

\* Goroutines of this kind run, a call that is repeated for ever is sent at last, and
\* what has been sent is delivered.
GetsThrough(n, kind) ==
    /\ WF_NodeVars(MoveOf(n, kind))
    /\ SF_NodeVars(CallOf(n, kind, "sent"))
    /\ SF_NodeVars(\E m \in DOMAIN mempool : m.kind = kind /\ m.from = n /\ Deliver(m))

FairRegistrationSpec ==
    ProgressSpec /\ BlockFairness /\ \A n \in Nodes : GetsThrough(n, "register")

FairSolutionSpec ==
    /\ ProgressSpec /\ BlockFairness
    /\ \A n \in Nodes : GetsThrough(n, "reveal") /\ GetsThrough(n, "submit")

\* All goroutines run, all messages are delivered and all containers come to an end.
FairNodeSpec ==
    /\ ProgressSpec /\ BlockFairness
    /\ SF_NodeVars(\E m \in DOMAIN mempool : Deliver(m))
    /\ \A n \in Nodes :
        /\ \A kind \in Kinds : WF_NodeVars(MoveOf(n, kind))
        /\ \A k \in Keys :
            WF_NodeVars(ChainStays /\ (ContainerExits(n, k) \/ ContainerIsRemoved(n, k)))

-----------------------------------------------------------------------------
(* Progress. *)

\* A node that is not registered becomes a worker, although RegisterWorker is started
\* at every block until its eight seconds are over, each start may undo the mark of
\* another, and calls fail and nodes crash: only a message lost behind its mark leaves
\* it unregistered.
NodeRegisters ==
    \A n \in Nodes : <>(n \in DOMAIN workers \/ Lost(n, "register", << 0, 0 >>))

\* The solution of a node has validations enough, and other workers that subscribe may
\* make them too few again.
HasEnough(n, k) ==
    /\ Won(n, k) /\ ~threads[k].completed
    /\ threads[k].validations # << >> /\ EnoughValidations(threads[k])

\* A solution of a node with enough validations is revealed as long as the node stays on
\* the thread, although RevealSolution is not started again once it is marked: only a
\* message lost before the mark leaves it hidden.
MayReveal(n, k) == HasEnough(n, k) /\ WorksOn(n, k)

NodeReveals ==
    \A n \in Nodes, k \in Keys :
        MayReveal(n, k) ~>
            (~MayReveal(n, k) \/ IsRevealed(threads[k]) \/ Lost(n, "reveal", k))

\* An accepted solution of a node is submitted, and its thread completed, although the
\* late end of RevealSolution overwrites the mark of the submission: only a message lost
\* behind its mark leaves it open.
MaySubmit(n, k) == Won(n, k) /\ threads[k].accepted

NodeSubmits ==
    \A n \in Nodes, k \in Keys :
        MaySubmit(n, k) ~>
            ((Won(n, k) /\ threads[k].completed) \/ Lost(n, "submit", k))

\* A frame that is in the output directory is rendered again.
RendersAgain ==
    /\ ChainStays
    /\ \E j \in DOMAIN jobs : RenderAgain(j) /\ NextFrame(j) \in output[j.node][j.key]


-----------------------------------------------------------------------------
(* Statements of the comments that the code does not keep. *)

\* module.go: "We have reached enought validations, if we are the winning node, is time
\* to reveal the solution".  A solution with enough validations is revealed.
WinnerReveals ==
    \A n \in Nodes, k \in Keys :
        HasEnough(n, k) ~> (~HasEnough(n, k) \/ IsRevealed(threads[k]))

\* VideoUpscalerThread.go: "output path was not created so no upscaler happened. we
\* will start over".  Work that ended without its frames is started again.
UnfinishedStartsOver ==
    \A n \in Nodes, k \in Keys :
        flags[n][k] = Unfinished ~> (flags[n][k] # Unfinished \/ Running(n, "work", k) > 0)

=============================================================================
