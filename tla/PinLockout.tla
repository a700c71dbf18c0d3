----------------------------- MODULE PinLockout -----------------------------
(***************************************************************************)
(* What the PIN protocol of the FIDO2 authenticator promises, with no      *)
(* keys, no encryption and no counters of mismatches: a gate with a number *)
(* of attempts left, a flag telling whether a PIN is set, and a flag       *)
(* telling whether the platform holds a PIN token the authenticator still  *)
(* honours.                                                                *)
(*                                                                         *)
(*  - a PIN can be set only while none is;                                 *)
(*  - a failed verification costs exactly one attempt and needs one left;  *)
(*  - the platform gains a token only through a successful verification,   *)
(*    which needs a PIN and an attempt left and restores all attempts;     *)
(*  - a power cycle forgets the PIN, restores the attempts and revokes the *)
(*    token.                                                               *)
(*                                                                         *)
(* Fail does not require a PIN: PinProtocol charges an attempt for a       *)
(* verification against no PIN (finding of the run retries_terminal).      *)
(***************************************************************************)
EXTENDS Naturals

CONSTANT MaxAttempts

VARIABLES
    left,      \* verification attempts left
    pinSet,    \* a PIN is set
    granted    \* the platform holds a token the authenticator honours

lockoutVars == <<left, pinSet, granted>>

LockoutTypeOK ==
    /\ left \in 0..MaxAttempts
    /\ pinSet \in BOOLEAN
    /\ granted \in BOOLEAN

LockoutInit ==
    /\ left = MaxAttempts
    /\ pinSet = FALSE
    /\ granted = FALSE

Set ==
    /\ ~pinSet
    /\ pinSet' = TRUE
    /\ left' = MaxAttempts
    /\ UNCHANGED granted

Fail ==
    /\ left > 0
    /\ left' = left - 1
    /\ UNCHANGED <<pinSet, granted>>

Succeed ==
    /\ pinSet
    /\ left > 0
    /\ left' = MaxAttempts
    /\ granted' \in {granted, TRUE}
    /\ UNCHANGED pinSet

Forget ==
    /\ left' = MaxAttempts
    /\ pinSet' = FALSE
    /\ granted' = FALSE

LockoutNext == Set \/ Fail \/ Succeed \/ Forget

LockoutSpec == LockoutInit /\ [][LockoutNext]_lockoutVars

=============================================================================
