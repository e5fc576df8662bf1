----------------------------- MODULE Rendering -----------------------------
(***************************************************************************)
(* What StartWork promises of a rendering, without containers and names: a *)
(* goroutine goes through the frames of its thread from one end to the     *)
(* other, frames are saved for threads that are being rendered and only    *)
(* frames of the thread, and the work is completed exactly when every      *)
(* frame is there and there is one.                                        *)
(***************************************************************************)
EXTENDS Integers, FiniteSetsExt

CONSTANT Goroutines

VARIABLES
    frames,    \* thread -> its frames, empty before the task is split
    saved,     \* thread -> the frames in its directory
    does,      \* goroutine -> << thread, in reverse >>, << >> before it renders
    left,      \* goroutine -> the frames it has still to go through
    verdict    \* goroutine -> "none", "whole" or "short"

Init ==
    /\ frames = << >> /\ saved = << >>
    /\ does = [g \in Goroutines |-> << >>]
    /\ left = [g \in Goroutines |-> {}]
    /\ verdict = [g \in Goroutines |-> "none"]

Split ==
    /\ frames = << >> /\ frames' # << >>
    /\ saved' = [k \in DOMAIN frames' |-> {}]
    /\ UNCHANGED << does, left, verdict >>

Begin(g, k, reverse) ==
    /\ does[g] = << >> /\ verdict[g] = "none"
    /\ does' = [does EXCEPT ![g] = << k, reverse >>]
    /\ left' = [left EXCEPT ![g] = frames[k]]
    /\ UNCHANGED << frames, saved, verdict >>

\* The next frame is passed, rendered or not.
Pass(g) ==
    /\ left[g] # {}
    /\ left' = [left EXCEPT ![g] = @ \ {IF does[g][2] THEN Max(@) ELSE Min(@)}]
    /\ UNCHANGED << frames, saved, does, verdict >>

Save(k, f) ==
    /\ f \in frames[k]
    /\ \E g \in Goroutines : does[g] # << >> /\ does[g][1] = k
    /\ saved' = [saved EXCEPT ![k] = @ \cup {f}]
    /\ UNCHANGED << frames, does, left, verdict >>

End(g) ==
    /\ does[g] # << >> /\ left[g] = {} /\ verdict[g] = "none"
    /\ verdict' = [verdict EXCEPT ![g] =
                        IF frames[does[g][1]] # {} /\ saved[does[g][1]] = frames[does[g][1]]
                        THEN "whole" ELSE "short"]
    /\ UNCHANGED << frames, saved, does, left >>

Next ==
    \/ Split
    \/ \E g \in Goroutines :
        \/ \E k \in DOMAIN frames, reverse \in BOOLEAN : Begin(g, k, reverse)
        \/ Pass(g)
        \/ End(g)
    \/ \E k \in DOMAIN frames : \E f \in frames[k] : Save(k, f)

Spec == Init /\ [][Next]_<< frames, saved, does, left, verdict >>

=============================================================================
