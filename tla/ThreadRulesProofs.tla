------------------------- MODULE ThreadRulesProofs -------------------------
(***************************************************************************)
(* What the rules of a thread compute has the type the store expects, for  *)
(* every thread: the facts about operators that the proofs of the chain    *)
(* rest on.                                                                *)
(***************************************************************************)
EXTENDS ThreadRules, FiniteSetTheorems, SequenceTheorems, TLAPS

-----------------------------------------------------------------------------
(* Sets and sequences. *)

\* A nonempty set of indices has a greatest element: FromCliToFrames always finds
\* the last entry for a file.
LEMMA MaxOfIndices ==
    ASSUME NEW n \in Nat, NEW S \in SUBSET (1 .. n), S # {}
    PROVE  Max(S) \in S /\ \A y \in S : y <= Max(S)
<1> DEFINE T == { n - x : x \in S }
<1>1. T \subseteq Nat /\ T # {}
    <2>1. \A x \in S : n - x \in Nat
        OBVIOUS
    <2> QED
        BY <2>1
<1>2. PICK t \in T : \A u \in T : << u, t >> \notin OpToRel(<, Nat)
    BY <1>1, WFMin, NatLessThanWellFounded
<1>3. \A u \in T : ~(u < t)
    BY <1>1, <1>2 DEF OpToRel
<1>4. PICK m \in S : t = n - m
    OBVIOUS
<1>5. \A y \in S : m >= y
    BY <1>3, <1>4
<1> QED
    BY <1>5 DEF Max

\* A set of indices has a least element: the next frame of RenderVideo.
LEMMA MinOfIndices ==
    ASSUME NEW n \in Nat, NEW S \in SUBSET (1 .. n), S # {}
    PROVE  Min(S) \in S
<1>1. S \subseteq Nat /\ S # {}
    OBVIOUS
<1>2. PICK m \in S : \A y \in S : << y, m >> \notin OpToRel(<, Nat)
    BY <1>1, WFMin, NatLessThanWellFounded
<1>3. \A y \in S : ~(y < m)
    BY <1>1, <1>2 DEF OpToRel
<1>4. \A y \in S : m <= y
    BY <1>1, <1>3
<1> QED
    BY <1>4 DEF Min

\* What Append does to the elements of a sequence.
LEMMA RangeOfAppend ==
    ASSUME NEW S, NEW s \in Seq(S), NEW e \in S
    PROVE  Range(Append(s, e)) = Range(s) \cup {e}
<1>1. /\ Append(s, e) \in Seq(S)
      /\ Len(Append(s, e)) = Len(s) + 1
      /\ \A i \in 1 .. Len(s) : Append(s, e)[i] = s[i]
      /\ Append(s, e)[Len(s) + 1] = e
      /\ Len(s) \in Nat
    BY AppendProperties, LenProperties
<1>2. DOMAIN Append(s, e) = DOMAIN s \cup {Len(s) + 1}
    BY <1>1, LenProperties
<1>3. DOMAIN s = 1 .. Len(s)
    BY LenProperties
<1> QED
    BY <1>1, <1>2, <1>3 DEF Range

\* A function with nothing in its domain is the empty sequence.
LEMMA NoEntries ==
    ASSUME NEW f, f = [x \in DOMAIN f |-> f[x]], DOMAIN f = {}
    PROVE  f = << >>
<1>1. f \in [1 .. 0 -> {}]
    OBVIOUS
<1>2. f \in Seq({})
    BY <1>1, SeqDef
<1>3. Len(f) = 0
    BY <1>1, <1>2, LenProperties
<1> QED
    BY <1>2, <1>3, EmptySeq

\* A set of numbers with 0 in it, and the next of each in it, has all numbers: induction
\* over what NatLessThanWellFounded says of sets, for the recursive functions of the model.
LEMMA NumberInduction ==
    ASSUME NEW S \in SUBSET Nat, 0 \in S, \A n \in S : n + 1 \in S
    PROVE  S = Nat
<1> SUFFICES ASSUME Nat \ S # {}
             PROVE  FALSE
    OBVIOUS
<1>1. PICK m \in Nat \ S : \A u \in Nat \ S : << u, m >> \notin OpToRel(<, Nat)
    BY WFMin, NatLessThanWellFounded
<1>2. \A u \in Nat \ S : ~(u < m)
    BY <1>1 DEF OpToRel
<1>3. m - 1 \in S
    BY <1>2
<1>4. m \in Nat \ S /\ (m - 1) + 1 = m
    OBVIOUS
<1> QED
    BY <1>3, <1>4

-----------------------------------------------------------------------------
(* Tasks. *)

\* Go's division of two integers, the second of them positive, is an integer.
LEMMA GoDivType ==
    ASSUME NEW a \in Int, NEW b \in Nat \ {0}
    PROVE  GoDiv(a, b) \in Int
BY DEF GoDiv

\* splitFrames gives every thread of a task that has threads a number of frames.
LEMMA ThreadSizeType ==
    ASSUME NEW start \in Int, NEW end \in Int, NEW n \in Nat \ {0}, NEW i \in Nat
    PROVE  ThreadSize(start, end, n, i) \in Int
<1> DEFINE total == end - start + 1
<1>1. GoDiv(total, n) \in Int
    BY GoDivType
<1> QED
    BY <1>1 DEF ThreadSize

\* The reward of a winner is an amount of coins.
LEMMA GetWinnerRewardType ==
    ASSUME NEW reward \in Nat, NEW n \in Nat \ {0}
    PROVE  GetWinnerReward(reward, n) \in Nat
<1>1. reward \div 2 \in Nat
    OBVIOUS
<1> QED
    BY <1>1 DEF GetWinnerReward

-----------------------------------------------------------------------------
(* Reveals and evaluations. *)

\* FromCliToFrames returns entries it was given.
LEMMA FromCliToFramesType ==
    ASSUME NEW F, NEW H,
           NEW entries \in Seq([file : F, hash : H] \cup {Malformed}),
           NEW f \in DOMAIN FromCliToFrames(entries)
    PROVE  FromCliToFrames(entries)[f] \in H
<1> DEFINE wellFormed == { i \in DOMAIN entries : entries[i] # Malformed }
           For(file)  == { i \in wellFormed : entries[i].file = file }
<1>1. DOMAIN entries = 1 .. Len(entries) /\ Len(entries) \in Nat
    BY LenProperties
<1>2. f \in { entries[i].file : i \in wellFormed }
    BY DEF FromCliToFrames
<1>3. For(f) \in SUBSET (1 .. Len(entries)) /\ For(f) # {}
    BY <1>1, <1>2
<1>4. Max(For(f)) \in For(f)
    BY <1>1, <1>3, MaxOfIndices
<1>5. \A i \in wellFormed : entries[i].hash \in H
    BY <1>1, ElementOfSeq
<1>6. FromCliToFrames(entries)[f] = entries[Max(For(f))].hash
    BY <1>2 DEF FromCliToFrames
<1> QED
    BY <1>4, <1>5, <1>6

\* The signatures that agree with a frame, and those that differ, can be counted.
LEMMA CountsType ==
    ASSUME NEW thread, NEW f, NEW V,
           IsFiniteSet(DOMAIN thread.frames),
           thread.validations \in Seq(V)
    PROVE  /\ Cardinality(AgreeOn(thread, f)) \in Nat
           /\ Cardinality(DifferOn(thread, f)) \in Nat
<1>1. IsFiniteSet(DOMAIN thread.validations)
    BY LenProperties, FS_Interval
<1>2. IsFiniteSet((DOMAIN thread.frames) \X (DOMAIN thread.validations))
    BY <1>1, FS_Product
<1>3. /\ AgreeOn(thread, f) \subseteq (DOMAIN thread.frames) \X (DOMAIN thread.validations)
      /\ DifferOn(thread, f) \subseteq (DOMAIN thread.frames) \X (DOMAIN thread.validations)
    BY DEF AgreeOn, DifferOn, Counted, Checks
<1>4. IsFiniteSet(AgreeOn(thread, f)) /\ IsFiniteSet(DifferOn(thread, f))
    BY <1>2, <1>3, FS_Subset
<1> QED
    BY <1>4, FS_CardinalityType

=============================================================================
