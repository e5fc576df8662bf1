------------------------------ MODULE MCChain ------------------------------
(***************************************************************************)
(* Values for the constants of the chain that a .cfg cannot write down.    *)
(***************************************************************************)
EXTENDS ChainClaims, TLC

CONSTANTS h1, h2

ProviderSymmetry == Permutations(Providers)

Coins(amount)   == [denom |-> "jct", amount |-> amount]
Foreign(amount) == [denom |-> "other", amount |-> amount]

\* Rewards a requester can pay, cannot pay, and pays in another denomination.
TenCoins  == { Coins(10) }
AnyReward == { Coins(10), Coins(100), Foreign(10) }

\* Tasks of one thread of one frame, of two such threads, of one thread of two
\* frames; of no thread, which is refused, and of more threads than frames.
OneThread  == { [start |-> 0, end |-> 0, threads |-> t] : t \in {0, 1} }
TwoThreads == { [start |-> 1, end |-> 2, threads |-> 2] }
TwoFrames  == { [start |-> 1, end |-> 2, threads |-> 1],
                [start |-> 1, end |-> 1, threads |-> 2] }

Entry(file, hash) == [file |-> file, hash |-> hash]

OneFile   == {{1}}
RevealOne == { << Entry(1, h1) >> }
VerifyOne == { 1 :> h1, 1 :> h2 }
VerifyAgree == { 1 :> h1 }

\* Two frames, or one, or none.  Reveals: whole, with the other hash, with a
\* malformed entry, with an empty hash, with a file twice, with a file too few.
TwoFiles  == { {}, {1}, {1, 2} }
RevealTwo == { << Entry(1, h1), Entry(2, h1) >>,
               << Entry(1, h1), Entry(2, h2) >>,
               << Entry(1, h2), Malformed >>,
               << Entry(1, h1), Entry(2, NoHash) >>,
               << Entry(2, h1), Entry(2, h2) >>,
               << Entry(1, h1) >>,
               << >> }

\* Whole, partial, disagreeing and undecodable verifications.
VerifyTwo == { (1 :> h1) @@ (2 :> h1),
               2 :> h2,
               (1 :> Undecodable) @@ (2 :> h1) }
=============================================================================
