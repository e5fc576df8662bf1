------------------------------- MODULE Names -------------------------------
(***************************************************************************)
(* The names the node makes out of numbers, as sequences of digits: ids of *)
(* threads, which also name their containers and directories, and files of *)
(* frames.  What is the same in all names of a kind is left out.           *)
(***************************************************************************)
EXTENDS Integers, Sequences, SequencesExt

\* strconv.FormatInt, and the task id that CreateVideoUpscalerTask makes.  (Mutant:
\* nothing is written for 0.)
Decimal_NoZero(n) ==
    LET digits[m \in Nat] ==
            IF m = 0 THEN << >> ELSE Append(digits[m \div 10], m % 10)
    IN  digits[n]

Decimal(n) ==
    LET digits[m \in Nat] ==
            IF m < 10 THEN << m >> ELSE Append(digits[m \div 10], m % 10)
    IN  digits[n]

\* %0<width>d, of a number that is not negative.
Padded(width, n) ==
    [i \in 1 .. (width - Len(Decimal(n))) |-> 0] \o Decimal(n)

\* The id of the thread with this index of a task: two numbers, and nothing in between.
ThreadId(task, index) == Decimal(task) \o Decimal(index)

\* docker's filter on names matches parts of them.  All names begin with "upscaler-cpu",
\* so that the part is a beginning.
Matches(id, name) == IsPrefix(id, name)

\* The file the script of the container saves a frame in, and the one the node looks for.
SavedAs(frame)   == Padded(8, frame)
LookedFor(frame) == Padded(6, frame)

=============================================================================
