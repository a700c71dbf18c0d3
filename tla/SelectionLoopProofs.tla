------------------------- MODULE SelectionLoopProofs ------------------------
(***************************************************************************)
(* Proof that the algorithm-selection loop of make_credential chooses what *)
(* the spec prescribes, for lists of every length.  The loop invariant is  *)
(* that after i entries the local `algorithm` is the choice of the spec    *)
(* for the ids among those i entries: one iteration of AlgStep adds one id *)
(* to that set.                                                            *)
(***************************************************************************)
EXTENDS SelectionLoop, TLAPS

USE MaxParamsAssumption

\* The ids among the first n entries of a list.
OfferedUpTo(ps, n) == {ps[j] : j \in 1..n}

\* The loop invariant: after i iterations the choice is the spec's choice
\* for the first i entries.
LoopInv ==
    /\ params \in Seq(AlgIds)
    /\ i \in 0..Len(params)
    /\ algorithm = PreferredOf(OfferedUpTo(params, i))

\* One iteration of the loop body on the choice for a set of ids is the
\* choice for that set with one more id: -8 wins over everything, -7 only
\* over nothing, any other id changes nothing.
LEMMA AlgStepPreferred ==
    ASSUME NEW S, NEW x
    PROVE  AlgStep(PreferredOf(S), x) = PreferredOf(S \cup {x})
BY DEF AlgStep, PreferredOf

\* The first i + 1 entries offer the ids of the first i and entry i + 1.
LEMMA OfferedStep ==
    ASSUME NEW ps \in Seq(AlgIds), NEW n \in 0..(Len(ps) - 1)
    PROVE  OfferedUpTo(ps, n + 1) = OfferedUpTo(ps, n) \cup {ps[n + 1]}
BY DEF OfferedUpTo

\* Every list the loop starts from is a finite sequence of ids.
LEMMA ParamListsSeq ==
    ASSUME NEW n \in Nat
    PROVE  ParamListsUpTo(n) \subseteq Seq(AlgIds)
BY DEF ParamListsUpTo

LEMMA LoopInvInductive ==
    ASSUME LoopInv, [Iterate]_loopVars
    PROVE  LoopInv'
<1>1. CASE Iterate
  <2>1. i \in 0..(Len(params) - 1)
    BY <1>1 DEF LoopInv, Iterate
  <2>2. OfferedUpTo(params, i + 1) = OfferedUpTo(params, i) \cup {params[i + 1]}
    BY <2>1, OfferedStep DEF LoopInv
  <2>3. algorithm' = PreferredOf(OfferedUpTo(params, i + 1))
    BY <1>1, <2>2, AlgStepPreferred DEF LoopInv, Iterate
  <2>. QED
    BY <1>1, <2>1, <2>3 DEF LoopInv, Iterate
<1>2. CASE UNCHANGED loopVars
  BY <1>2 DEF LoopInv, loopVars
<1>. QED
  BY <1>1, <1>2

\* Theorem for the run selection_loop (property LoopPrefersEd25519): for
\* pubKeyCredParams lists of any length, the loop of make_credential ends
\* with Ed25519 if -8 is offered anywhere, else P-256 if -7 is offered,
\* else no algorithm, whatever the order of the entries.
THEOREM LoopChoosesPreferred == LoopSpec => []LoopPrefersEd25519
<1>1. LoopInit => LoopInv
  BY ParamListsSeq DEF LoopInit, LoopInv, OfferedUpTo, PreferredOf
<1>2. LoopInv => LoopPrefersEd25519
  <2> SUFFICES ASSUME LoopInv, i = Len(params)
               PROVE  algorithm = PreferredAlgorithm(params)
    BY DEF LoopPrefersEd25519
  <2>1. OfferedUpTo(params, i) = {params[j] : j \in DOMAIN params}
    BY DEF LoopInv, OfferedUpTo
  <2>. QED
    BY <2>1 DEF LoopInv, PreferredAlgorithm
<1>. QED
  BY <1>1, <1>2, LoopInvInductive, PTL DEF LoopSpec

=============================================================================
