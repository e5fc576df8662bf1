--------------------------- MODULE NodeProperties ---------------------------
(***************************************************************************)
(* What the nodes and the chain keep together, which the chain alone does  *)
(* not promise to a provider that sends what it likes.                     *)
(***************************************************************************)
EXTENDS WorkerNode

\* The types of the local state.  A row has one of the ten values the code writes, and
\* a node has no file and no container for a frame outside the thread: StartWork and
\* ProposeSolution only count the files.
NodeTypeOK ==
    /\ registered \in [Nodes -> BOOLEAN]
    /\ \A n \in Nodes : DOMAIN taskRow[n] \subseteq 1 .. MaxTasks
    /\ flags \in [Nodes -> [Keys -> Rows]]
    /\ download \in [Nodes -> [Keys -> BOOLEAN]]
    /\ \A n \in Nodes, k \in Keys :
        LET frames == IF k \in DOMAIN threads THEN FramesOf(k) ELSE {}
        IN  /\ output[n][k] \subseteq frames
            /\ container[n][k] \in frames \cup {NoContainer, Exited}
    /\ IsABag(jobs) /\ IsABag(mempool)

Won(n, k) == k \in DOMAIN threads /\ threads[k].proposedBy = n

\* SubmitSolution pays whoever has proposed; it is the node that waits until its
\* solution is accepted.  A node is paid for accepted solutions only, whatever is
\* retried, reordered or lost, and wherever it crashes.
NodeIsPaidForAccepted ==
    \A n \in Nodes, k \in DOMAIN threads :
        Won(n, k) /\ threads[k].completed => threads[k].accepted

\* A node shows the hashes of its frames only on a thread that has a validation, by
\* whomever: RevealSolution itself would take them at any time.  (How many EndBlock waited
\* for is not said: it depends on who had subscribed by then.)
NodeRevealsLast ==
    \A n \in Nodes, k \in DOMAIN threads :
        Won(n, k) /\ threads[k].frames # << >> /\ IsRevealed(threads[k])
            => threads[k].validations # << >>

=============================================================================
