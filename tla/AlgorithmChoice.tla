-------------------------- MODULE AlgorithmChoice ---------------------------
(***************************************************************************)
(* Step 7 of make_credential (lib.rs 832-845): the loop over               *)
(* pubKeyCredParams that chooses the credential's signature algorithm,     *)
(* and the rule of the spec (section 4.4 step 2) it is checked against.    *)
(* An algorithm is "P256", "Ed25519" or "None" (the loop found neither).   *)
(***************************************************************************)
EXTENDS Integers, Sequences

\* COSE algorithm ids a request may offer: -7 (ES256), -8 (EdDSA), and one
\* the authenticator does not support.
AlgIds == {-7, -8, -257}

\* The pubKeyCredParams lists of at most n entries.
ParamListsUpTo(n) == UNION {[1..k -> AlgIds] : k \in 0..n}

\* One iteration of the loop: -7 sets P256 only if nothing was chosen yet,
\* -8 always sets Ed25519, any other id is skipped.
AlgStep(alg, id) ==
    CASE id = -7 -> IF alg = "None" THEN "P256" ELSE alg
      [] id = -8 -> "Ed25519"
      [] OTHER -> alg

\* The whole loop over the list ps.
ChosenAlgorithm(ps) ==
    LET chosen[i \in 0..Len(ps)] ==
            IF i = 0 THEN "None" ELSE AlgStep(chosen[i - 1], ps[i])
    IN  chosen[Len(ps)]

\* Spec section 4.4 step 2 for a set of offered ids: Ed25519 if -8 is
\* offered, else P-256 if -7 is, else none (UnsupportedAlgorithm).
PreferredOf(offered) ==
    IF -8 \in offered THEN "Ed25519"
    ELSE IF -7 \in offered THEN "P256" ELSE "None"

\* The rule for a list: the place of an id does not matter.
PreferredAlgorithm(ps) == PreferredOf({ps[i] : i \in DOMAIN ps})

=============================================================================
