--------------------------- MODULE DispatchContract ---------------------------
(***************************************************************************)
(* What the dispatcher of the FIDO2 authenticator promises the transport   *)
(* (spec sections 4.6, 5 and 7), with no handler state: one request slot, *)
(* one response slot and a flag telling whether the authenticator died.    *)
(*                                                                         *)
(*  - the platform hands over a request only while both slots are empty;   *)
(*  - serving a request empties the request slot and either puts exactly   *)
(*    one answer, one of those the contract allows for that kind of        *)
(*    request, into the free response slot, or kills the authenticator;    *)
(*  - nothing else ever puts an answer in the response slot;               *)
(*  - the platform takes the answer out;                                   *)
(*  - a power cycle, counted, empties both slots and revives the          *)
(*    authenticator; it is the only other step that empties the request    *)
(*    slot, so a request taken without an answer or a panic is a step of   *)
(*    no action here.                                                      *)
(***************************************************************************)
EXTENDS Naturals

CONSTANTS
    Kinds,       \* the kinds of request
    AnswersTo,   \* AnswersTo[k]: the answers allowed to a request of kind k
    NoRequest,   \* the request slot is empty
    NoAnswer     \* the response slot is empty

VARIABLES
    pending,   \* the request waiting in the slot, or NoRequest
    answer,    \* the answer waiting in the slot, or NoAnswer
    dead,      \* the authenticator has panicked
    cycles     \* power cycles so far

contractVars == <<pending, answer, dead, cycles>>

ContractInit ==
    /\ pending = NoRequest
    /\ answer = NoAnswer
    /\ dead = FALSE
    /\ cycles = 0

Request(k) ==
    /\ pending = NoRequest
    /\ answer = NoAnswer
    /\ pending' = k
    /\ UNCHANGED <<answer, dead, cycles>>

\* Serving the pending request: its answer, or a panic.
Respond ==
    /\ ~dead
    /\ pending # NoRequest
    /\ answer = NoAnswer
    /\ pending' = NoRequest
    /\ answer' \in AnswersTo[pending]
    /\ UNCHANGED <<dead, cycles>>

Crash ==
    /\ ~dead
    /\ pending # NoRequest
    /\ answer = NoAnswer
    /\ pending' = NoRequest
    /\ dead' = TRUE
    /\ UNCHANGED <<answer, cycles>>

Collect ==
    /\ answer # NoAnswer
    /\ answer' = NoAnswer
    /\ UNCHANGED <<pending, dead, cycles>>

Restart ==
    /\ pending' = NoRequest
    /\ answer' = NoAnswer
    /\ dead' = FALSE
    /\ cycles' = cycles + 1

ContractNext ==
    \/ \E k \in Kinds : Request(k)
    \/ Respond
    \/ Crash
    \/ Collect
    \/ Restart

ContractSpec == ContractInit /\ [][ContractNext]_contractVars

=============================================================================
