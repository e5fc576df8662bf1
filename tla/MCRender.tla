------------------------------ MODULE MCRender ------------------------------
(***************************************************************************)
(* Every split of up to twelve frames over up to five threads, frames      *)
(* numbered from below and from above 0, tasks that end before they start, *)
(* and more threads than a digit counts.  Three of the splits are          *)
(* rendered: five frames over two threads, whose ids contain each other,   *)
(* frames with seven and with eight digits, and a task without frames.     *)
(***************************************************************************)
EXTENDS RenderProperties

CONSTANTS g1, g2

FiveFrames  == [start |-> 1, end |-> 5, threads |-> 2]
HighFrames  == [start |-> 9999999, end |-> 10000001, threads |-> 2]

NoFrames    == [start |-> 3, end |-> -1, threads |-> 2]

RenderedInputs == { FiveFrames, HighFrames, NoFrames }

\* A task of one thread of one frame, and one of a frame whose number has eight digits.
OneFrame == { [start |-> 1, end |-> 1, threads |-> 1],
              [start |-> 10000000, end |-> 10000000, threads |-> 1] }

SecondOfFirst == { << 1, 1 >> }

SmallInputs ==
    [start : {-2, 0, 3}, end : -5 .. 9, threads : 1 .. 5]
        \cup [start : {0}, end : {9, 11}, threads : {10, 11}] \cup RenderedInputs
=============================================================================
