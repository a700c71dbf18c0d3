--------------------------- MODULE SelectionLoop ----------------------------
(***************************************************************************)
(* The algorithm-selection loop of make_credential run one iteration per   *)
(* step over every pubKeyCredParams list of at most MaxParams entries.     *)
(* The loop ends when every entry is read, so a final state has no         *)
(* successor.                                                              *)
(***************************************************************************)
EXTENDS AlgorithmChoice

CONSTANT MaxParams

ASSUME MaxParamsAssumption == MaxParams \in Nat

VARIABLES
    params,     \* parameters.pub_key_cred_params
    i,          \* entries read so far
    algorithm   \* the local `algorithm`

loopVars == <<params, i, algorithm>>

LoopInit ==
    /\ params \in ParamListsUpTo(MaxParams)
    /\ i = 0
    /\ algorithm = "None"

\* Variant of the iteration whose -7 arm drops the algorithm.is_none() test.
IterateLastWins ==
    /\ i < Len(params)
    /\ algorithm' = IF params[i + 1] = -7 THEN "P256"
                    ELSE AlgStep(algorithm, params[i + 1])
    /\ i' = i + 1
    /\ UNCHANGED params

\* One iteration of `for param in parameters.pub_key_cred_params.iter()`.
Iterate ==
    /\ i < Len(params)
    /\ algorithm' = AlgStep(algorithm, params[i + 1])
    /\ i' = i + 1
    /\ UNCHANGED params

LoopSpec == LoopInit /\ [][Iterate]_loopVars

\* Spec section 4.4 step 2 and open question (a): when the loop of
\* make_credential has read every entry, it has chosen Ed25519 whenever -8
\* is offered, even before a -7, else P-256 if -7 is offered.
LoopPrefersEd25519 ==
    i = Len(params) => algorithm = PreferredAlgorithm(params)

=============================================================================
