-------------------------- MODULE ThreadLifecycle --------------------------
(***************************************************************************)
(* What the module promises about a thread, with none of its messages:     *)
(* the stages a thread goes through, and that its winner is the first to   *)
(* propose.  A thread may be completed from any stage that has a winner,   *)
(* because SubmitSolution does not ask for more; a completed thread never  *)
(* changes again.                                                          *)
(***************************************************************************)
EXTENDS Naturals

CONSTANTS
    Keys,      \* threads
    Workers,   \* who may win one
    NoWinner   \* the winner of a thread without one, not a worker

VARIABLE stage   \* thread -> [name, winner, accepted], for the threads created so far

Names == {"open", "proposed", "revealed", "completed"}

Stage(name, winner, accepted) ==
    [name |-> name, winner |-> winner, accepted |-> accepted]

TypeOK ==
    /\ DOMAIN stage \subseteq Keys
    /\ \A k \in DOMAIN stage :
        stage[k] \in [name : Names, winner : Workers \cup {NoWinner}, accepted : BOOLEAN]

Init == stage = << >>

\* The threads of a new task appear together.
Create(new) ==
    /\ new # {} /\ new \cap DOMAIN stage = {}
    /\ stage' = [k \in DOMAIN stage \cup new |->
                    IF k \in new THEN Stage("open", NoWinner, FALSE) ELSE stage[k]]

Propose(k, w) ==
    /\ stage[k].name = "open"
    /\ stage' = [stage EXCEPT ![k] = Stage("proposed", w, FALSE)]

Reveal(k) ==
    /\ stage[k].name = "proposed"
    /\ stage' = [stage EXCEPT ![k].name = "revealed"]

\* A block accepts any number of revealed threads at once.
Accept(agreed) ==
    /\ \A k \in agreed : stage[k].name = "revealed" /\ ~stage[k].accepted
    /\ stage' = [k \in DOMAIN stage |->
                    IF k \in agreed THEN Stage("revealed", stage[k].winner, TRUE)
                    ELSE stage[k]]

Complete(k) ==
    /\ stage[k].name \in {"proposed", "revealed"}
    /\ stage' = [stage EXCEPT ![k].name = "completed"]

Next ==
    \/ \E new \in SUBSET Keys : Create(new)
    \/ \E k \in DOMAIN stage :
        \/ \E w \in Workers : Propose(k, w)
        \/ Reveal(k)
        \/ Complete(k)
    \/ \E agreed \in SUBSET DOMAIN stage : Accept(agreed)

Spec == Init /\ [][Next]_stage

=============================================================================
