---------------------------- MODULE ChainClaims ----------------------------
(***************************************************************************)
(* What the repository says about the chain and the code does not keep.    *)
(* A run refutes it.                                                       *)
(***************************************************************************)
EXTENDS ChainProperties

\* VideoUpscalerThread.go asks for minValidValidations on each of the frames it
\* counts.  A solution that gets accepted has frames enough on which that many of
\* the stored validations agree with it.
AcceptanceHasItsValidations ==
    [][\A k \in DOMAIN threads :
            threads'[k].accepted /\ ~threads[k].accepted => IsAgreedOn(threads[k])]_vars

=============================================================================
