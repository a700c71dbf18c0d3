------------------------- MODULE PinProtocolProofs -------------------------
(***************************************************************************)
(* Proofs about the PIN protocol of PinProtocol, for every set of PINs and *)
(* every number of handles allowed by the assumptions.                     *)
(***************************************************************************)
EXTENDS PinProtocol, TLAPS

USE SentinelsAssumption, MaxHandlesAssumption

-----------------------------------------------------------------------------
(* A generated handle.                                                     *)

\* NewHandle picks a handle outside any set of at most five values: the
\* crypto service never hands out a handle the state still refers to.
LEMMA NewHandleFresh ==
    ASSUME NEW U, NEW a, NEW b, NEW c, NEW d, NEW e,
           U \subseteq {a, b, c, d, e}
    PROVE  /\ NewHandle(U) \in Handles
           /\ NewHandle(U) \notin U
<1>1. \E h \in Handles : h \notin {a, b, c, d, e}
    <2>1. ~(\A h \in 1..6 : h \in {a, b, c, d, e})
        OBVIOUS
    <2>2. QED
        BY <2>1 DEF Handles
<1>2. \E h \in Handles : h \notin U
    BY <1>1
<1>3. QED
    BY <1>2 DEF NewHandle

\* The handles an action generates: the lazily created key-agreement key,
\* its rotation, and the lazily created PIN token.
LEMMA KakReadyType ==
    ASSUME key_agreement_key \in Handles \cup {NoHandle}
    PROVE  KakReady \in Handles
<1>1. NewHandle(Used) \in Handles
    BY NewHandleFresh DEF Used
<1>2. NoHandle \notin Handles
    BY DEF NoHandle, Handles
<1>3. QED
    BY <1>1, <1>2 DEF KakReady

LEMMA KakRotatedFresh ==
    ASSUME key_agreement_key \in Handles \cup {NoHandle}
    PROVE  /\ KakRotated \in Handles
           /\ KakRotated \notin {key_agreement_key, pin_token, hostKak,
                                 hostToken, KakReady}
<1>1. Used \cup {KakReady} =
        {key_agreement_key, pin_token, hostKak, hostToken, KakReady}
    BY DEF Used
<1>2. /\ NewHandle(Used \cup {KakReady}) \in Handles
      /\ NewHandle(Used \cup {KakReady}) \notin Used \cup {KakReady}
    BY <1>1, NewHandleFresh
<1>3. QED
    BY <1>1, <1>2 DEF KakRotated

LEMMA NewTokenType ==
    NewHandle(Used \cup {KakReady}) \in Handles
<1>1. Used \cup {KakReady} \subseteq
        {key_agreement_key, pin_token, hostKak, hostToken, KakReady}
    BY DEF Used
<1>2. QED
    BY <1>1, NewHandleFresh

\* The counters an action computes stay u8 values, and the responses it
\* computes are responses.
LEMMA StepValuesType ==
    ASSUME PinStateOK
    PROVE  /\ RetriesReady \in 0..(U8 - 1)
           /\ RetriesDecremented \in 0..(U8 - 1)
           /\ MismatchesIncremented \in 0..(U8 - 1)
           /\ EscalationError \in Responses
           /\ \A n : NewPinError(n) \in Responses
BY DEF PinStateOK, RetriesReady, RetriesUnset, PinRetriesMax, RetriesDecremented,
       MismatchesIncremented, U8, EscalationError, Responses, NewPinError

-----------------------------------------------------------------------------
(* Type correctness.                                                       *)

\* Every request step, idle poll and reboot keeps the fields of State and
\* the platform's caches in their types and answers with a response of
\* Responses, whatever the previous response was.
LEMMA PinStateStep ==
    ASSUME PinStateOK, Next
    PROVE  PinStateOK' /\ response' \in Responses
<1> USE DEF PinStateOK, hostVars
<1>0. /\ KakReady \in Handles
      /\ KakRotated \in Handles
      /\ NewHandle(Used \cup {KakReady}) \in Handles
      /\ RetriesReady \in 0..(U8 - 1)
      /\ RetriesDecremented \in 0..(U8 - 1)
      /\ MismatchesIncremented \in 0..(U8 - 1)
      /\ EscalationError \in Responses
      /\ \A n : NewPinError(n) \in Responses
    BY StepValuesType, KakReadyType, KakRotatedFresh, NewTokenType
<1>1. CASE PollIdle
    BY <1>0, <1>1 DEF PollIdle, Responses
<1>2. CASE BadProtocol
    BY <1>0, <1>2 DEF BadProtocol, Responses
<1>3. CASE GetRetries
    BY <1>0, <1>3 DEF GetRetries, Responses
<1>4. CASE GetKeyAgreement
    BY <1>0, <1>4 DEF GetKeyAgreement, Responses
<1>5. ASSUME NEW p \in BOOLEAN, NEW m \in BOOLEAN, NEW n \in NewPinInputs,
             SetPin(p, m, n)
      PROVE  PinStateOK' /\ response' \in Responses
    <2>1. response' \in Responses
        BY <1>0, <1>5 DEF SetPin, Responses
    <2>2. response' = "Ok" => n \in Pins
        <3>1. NewPinError(n) # "Ok"
            BY DEF NewPinError
        <3>2. QED
            BY <3>1, <1>5 DEF SetPin, NewPinAccepted
    <2>3. CASE response' = "Ok"
        BY <2>1, <2>2, <2>3, <1>0, <1>5 DEF SetPin, PinRetriesMax, U8
    <2>4. CASE response' # "Ok"
        BY <2>1, <2>4, <1>0, <1>5 DEF SetPin
    <2>5. QED
        BY <2>3, <2>4
<1>6. ASSUME NEW p \in BOOLEAN, NEW m \in BOOLEAN, NEW e \in PinHashInputs,
             NEW n \in NewPinInputs, ChangePin(p, m, e, n)
      PROVE  PinStateOK' /\ response' \in Responses
    BY <1>0, <1>6 DEF ChangePin, VerifyFails, VerifyPasses, NewPinAccepted,
                PinRetriesMax, U8, Responses
<1>7. ASSUME NEW p \in BOOLEAN, NEW e \in PinHashInputs, GetPinToken(p, e)
      PROVE  PinStateOK' /\ response' \in Responses
    BY <1>0, <1>7 DEF GetPinToken, VerifyFails, VerifyPasses, PinRetriesMax,
                U8, Responses
<1>8. CASE Reboot
    BY <1>8 DEF Reboot, RetriesUnset, NoHandle, Responses, U8, Handles
<1>9. QED
    BY <1>1, <1>2, <1>3, <1>4, <1>5, <1>6, <1>7, <1>8 DEF Next

\* Every reachable state gives each variable a value of its Rust type.
THEOREM TypeCorrect == Spec => []TypeOK
<1>1. Init => TypeOK
    BY DEF Init, TypeOK, PinStateOK, RetriesUnset, U8, NoHandle, Handles,
           Responses
<1>2. TypeOK /\ [Next]_vars => TypeOK'
    BY PinStateStep DEF TypeOK, PinStateOK, vars
<1>3. QED
    BY <1>1, <1>2, PTL DEF Spec

-----------------------------------------------------------------------------
(* Retry accounting.                                                       *)

\* retries() reads the same sum as the stored counters: once RetryAccounting
\* holds, the count retries() returns and the mismatches add up to 8.
LEMMA ReadyAccounting ==
    ASSUME PinStateOK, RetryAccounting
    PROVE  /\ RetriesReady \in 0..PinRetriesMax
           /\ RetriesReady + consecutive_pin_mismatches = PinRetriesMax
BY DEF PinStateOK, RetryAccounting, RetriesReady, RetriesUnset, PinRetriesMax,
       U8

\* The failing verification of decrement_retries(), reached only past the
\* `retries() == 0` early return, moves one unit from retries to the
\* mismatches without either u8 wrapping.
LEMMA DecrementKeepsSum ==
    ASSUME PinStateOK, RetryAccounting, ~NoRetriesLeft
    PROVE  /\ RetriesDecremented # RetriesUnset
           /\ RetriesDecremented + MismatchesIncremented = PinRetriesMax
<1>1. /\ RetriesReady \in 1..PinRetriesMax
      /\ RetriesReady + consecutive_pin_mismatches = PinRetriesMax
    BY ReadyAccounting DEF NoRetriesLeft
<1>2. /\ RetriesDecremented = RetriesReady - 1
      /\ MismatchesIncremented = consecutive_pin_mismatches + 1
    BY <1>1 DEF RetriesDecremented, MismatchesIncremented, PinRetriesMax, U8,
                PinStateOK
<1>3. QED
    BY <1>1, <1>2 DEF RetriesUnset, PinRetriesMax, PinStateOK, U8

\* Every request step, idle poll and reboot keeps the retry accounting:
\* retries() initialises the count to 8 with no mismatches, a failing
\* verification moves one unit, reset_retries() and SetPin restore 8 and 0.
LEMMA AccountingStep ==
    ASSUME PinStateOK, RetryAccounting, [Next]_vars
    PROVE  RetryAccounting'
<1>0. /\ RetriesReady \in 0..PinRetriesMax
      /\ RetriesReady + consecutive_pin_mismatches = PinRetriesMax
      /\ ~NoRetriesLeft =>
            /\ RetriesDecremented # RetriesUnset
            /\ RetriesDecremented + MismatchesIncremented = PinRetriesMax
    BY ReadyAccounting, DecrementKeepsSum
<1>1. CASE PollIdle \/ BadProtocol \/ GetKeyAgreement
    BY <1>1 DEF PollIdle, BadProtocol, GetKeyAgreement, RetryAccounting
<1>2. CASE GetRetries
    BY <1>0, <1>2 DEF GetRetries, RetryAccounting, RetriesUnset,
                      PinRetriesMax
<1>3. ASSUME NEW p \in BOOLEAN, NEW m \in BOOLEAN, NEW n \in NewPinInputs,
             SetPin(p, m, n)
      PROVE  RetryAccounting'
    BY <1>3 DEF SetPin, RetryAccounting, RetriesUnset, PinRetriesMax
<1>4. ASSUME NEW p \in BOOLEAN, NEW m \in BOOLEAN, NEW e \in PinHashInputs,
             NEW n \in NewPinInputs, ChangePin(p, m, e, n)
      PROVE  RetryAccounting'
    BY <1>0, <1>4 DEF ChangePin, VerifyFails, VerifyPasses, RetryAccounting,
                      RetriesUnset, PinRetriesMax
<1>5. ASSUME NEW p \in BOOLEAN, NEW e \in PinHashInputs, GetPinToken(p, e)
      PROVE  RetryAccounting'
    BY <1>0, <1>5 DEF GetPinToken, VerifyFails, VerifyPasses,
                      RetryAccounting, RetriesUnset, PinRetriesMax
<1>6. CASE Reboot
    BY <1>6 DEF Reboot, RetryAccounting
<1>7. CASE UNCHANGED vars
    BY <1>7 DEF vars, RetryAccounting
<1>8. QED
    BY <1>1, <1>2, <1>3, <1>4, <1>5, <1>6, <1>7 DEF Next

\* The inductive invariant: RetryAccounting needs only the types.
AccountingInv == TypeOK /\ RetryAccounting

\* Every reachable state satisfies the retry accounting of
\* decrement_retries() / reset_retries(): retries + mismatches = 8.
THEOREM RetryAccountingHolds == Spec => []RetryAccounting
<1>1. Init => AccountingInv
    BY DEF Init, AccountingInv, TypeOK, PinStateOK, RetryAccounting,
           RetriesUnset, U8, NoHandle, Handles, Responses
<1>2. AccountingInv /\ [Next]_vars => RetryAccounting'
    BY AccountingStep DEF AccountingInv, TypeOK
<1>3. QED
    BY <1>1, <1>2, TypeCorrect, PTL DEF AccountingInv, Spec

-----------------------------------------------------------------------------
(* Action properties.                                                      *)

\* Once a set PIN has no retries left, every request step keeps the counter
\* at 0, the PIN and the platform's token, and only a reboot (which forgets
\* everything) changes that: the `retries() == 0` early returns of ChangePin
\* and GetPinToken and the "pin already set" early return of SetPin.
LEMMA PinBlockedStep ==
    [Next]_vars => [retries = 0 /\ pin_hash # NoPin =>
                      \/ /\ retries' = 0
                         /\ pin_hash' = pin_hash
                         /\ hostToken' = hostToken
                      \/ retries' = RetriesUnset]_vars
<1> SUFFICES ASSUME [Next]_vars, retries = 0, pin_hash # NoPin
             PROVE  \/ /\ retries' = 0
                       /\ pin_hash' = pin_hash
                       /\ hostToken' = hostToken
                    \/ retries' = RetriesUnset
    OBVIOUS
<1>0. RetriesReady = 0 /\ NoRetriesLeft /\ PinIsSet
    BY DEF RetriesReady, RetriesUnset, NoRetriesLeft, PinIsSet
<1>1. CASE PollIdle \/ BadProtocol \/ GetKeyAgreement \/ GetRetries
    BY <1>0, <1>1 DEF PollIdle, BadProtocol, GetKeyAgreement, GetRetries,
                      hostVars
<1>2. ASSUME NEW p \in BOOLEAN, NEW m \in BOOLEAN, NEW n \in NewPinInputs,
             SetPin(p, m, n)
      PROVE  retries' = 0 /\ pin_hash' = pin_hash /\ hostToken' = hostToken
    <2>1. response' # "Ok"
        <3>1. NewPinError(n) # "Ok"
            BY DEF NewPinError
        <3>2. QED
            BY <1>0, <1>2, <3>1 DEF SetPin
    <2>2. QED
        BY <1>0, <1>2, <2>1 DEF SetPin, hostVars
<1>3. ASSUME NEW p \in BOOLEAN, NEW m \in BOOLEAN, NEW e \in PinHashInputs,
             NEW n \in NewPinInputs, ChangePin(p, m, e, n)
      PROVE  retries' = 0 /\ pin_hash' = pin_hash /\ hostToken' = hostToken
    BY <1>0, <1>3 DEF ChangePin, hostVars
<1>4. ASSUME NEW p \in BOOLEAN, NEW e \in PinHashInputs, GetPinToken(p, e)
      PROVE  retries' = 0 /\ pin_hash' = pin_hash /\ hostToken' = hostToken
    BY <1>0, <1>4 DEF GetPinToken
<1>5. CASE Reboot
    BY <1>5 DEF Reboot
<1>6. CASE UNCHANGED vars
    BY <1>6 DEF vars
<1>7. QED
    BY <1>1, <1>2, <1>3, <1>4, <1>5, <1>6 DEF Next

\* The PIN protocol never leaves a blocked PIN but by a reboot.
THEOREM PinBlockedTerminal == Spec => PinBlockedIsTerminal
<1>1. [Next]_vars => [retries = 0 /\ pin_hash # NoPin =>
                         \/ /\ retries' = 0
                            /\ pin_hash' = pin_hash
                            /\ hostToken' = hostToken
                         \/ retries' = RetriesUnset]_vars
    BY PinBlockedStep
<1>2. QED
    BY <1>1, PTL DEF Spec, PinBlockedIsTerminal

\* The state form of MismatchInvalidatesSecret: whenever the last response is
\* a PIN mismatch, the platform's key-agreement key is no longer the
\* authenticator's.
StaleAfterMismatch ==
    response \in {"PinInvalid", "PinAuthBlocked"} => hostKak # key_agreement_key

\* Only the mismatch path of decrypt_pin_hash_and_maybe_escalate() answers
\* PinInvalid or PinAuthBlocked, and it rotates the key first; every other
\* step overwrites the response.
LEMMA StaleAfterMismatchStep ==
    ASSUME PinStateOK, StaleAfterMismatch, [Next]_vars
    PROVE  StaleAfterMismatch'
<1> DEFINE Mismatch == {"PinInvalid", "PinAuthBlocked"}
<1>0. /\ KakRotated # hostKak
      /\ \A n : NewPinError(n) \notin Mismatch
    BY KakRotatedFresh DEF PinStateOK, NewPinError
<1>1. ASSUME NEW e, VerifyFails(e), hostKak' = hostKak
      PROVE  StaleAfterMismatch'
    BY <1>0, <1>1 DEF VerifyFails, StaleAfterMismatch
<1>2. CASE PollIdle \/ BadProtocol \/ GetKeyAgreement \/ GetRetries \/ Reboot
    BY <1>2 DEF PollIdle, BadProtocol, GetKeyAgreement, GetRetries, Reboot,
                StaleAfterMismatch
<1>3. ASSUME NEW p \in BOOLEAN, NEW m \in BOOLEAN, NEW n \in NewPinInputs,
             SetPin(p, m, n)
      PROVE  StaleAfterMismatch'
    BY <1>0, <1>3 DEF SetPin, StaleAfterMismatch
<1>4. ASSUME NEW p \in BOOLEAN, NEW m \in BOOLEAN, NEW e \in PinHashInputs,
             NEW n \in NewPinInputs, ChangePin(p, m, e, n)
      PROVE  StaleAfterMismatch'
    <2>1. hostKak' = hostKak
        BY <1>4 DEF ChangePin, hostVars
    <2>2. QED
        BY <1>0, <1>4, <2>1, <1>1 DEF ChangePin, StaleAfterMismatch
<1>5. ASSUME NEW p \in BOOLEAN, NEW e \in PinHashInputs, GetPinToken(p, e)
      PROVE  StaleAfterMismatch'
    <2>1. hostKak' = hostKak
        BY <1>5 DEF GetPinToken
    <2>2. QED
        BY <1>5, <2>1, <1>1 DEF GetPinToken, StaleAfterMismatch
<1>6. CASE UNCHANGED vars
    BY <1>6 DEF vars, StaleAfterMismatch
<1>7. QED
    BY <1>2, <1>3, <1>4, <1>5, <1>6 DEF Next

\* A PIN mismatch answered PinInvalid or PinAuthBlocked leaves the
\* platform's cached shared secret stale: rotate_key_agreement_key() runs
\* before the error is returned.
THEOREM MismatchSecretStale == Spec => MismatchInvalidatesSecret
<1>1. Init => StaleAfterMismatch
    BY DEF Init, StaleAfterMismatch
<1>2. TypeOK /\ StaleAfterMismatch /\ [Next]_vars => StaleAfterMismatch'
    BY StaleAfterMismatchStep DEF TypeOK
<1>3. Spec => []StaleAfterMismatch
    BY <1>1, <1>2, TypeCorrect, PTL DEF Spec
<1>4. TypeOK /\ StaleAfterMismatch /\ [Next]_vars =>
        [response' \in {"PinInvalid", "PinAuthBlocked"} =>
            hostKak' # key_agreement_key']_vars
    BY StaleAfterMismatchStep DEF TypeOK, StaleAfterMismatch
<1>5. QED
    BY <1>3, <1>4, TypeCorrect, PTL DEF Spec, MismatchInvalidatesSecret

-----------------------------------------------------------------------------
(* Refinement of the abstract PIN gate.                                    *)

\* Every ClientPin step, idle poll and reboot is a step of the abstract
\* gate or leaves retries(), pin_is_set() and the honoured token alone.
LEMMA LockoutStep ==
    ASSUME PinStateOK, [Next]_vars
    PROVE  [Lockout!LockoutNext]_Lockout!lockoutVars
<1> DEFINE Stutter == UNCHANGED Lockout!lockoutVars
<1>0. /\ RetriesReady \in 0..(U8 - 1)
      /\ ~NoRetriesLeft => RetriesDecremented = RetriesReady - 1
      /\ NewHandle(Used \cup {KakReady}) \in Handles
    <2>1. RetriesReady \in 0..(U8 - 1)
        BY StepValuesType
    <2>2. ~NoRetriesLeft => RetriesDecremented = RetriesReady - 1
        BY <2>1 DEF NoRetriesLeft, RetriesDecremented, U8
    <2>3. QED
        BY <2>1, <2>2, NewTokenType
<1>1. CASE PollIdle \/ BadProtocol \/ GetKeyAgreement \/ GetRetries
    <2>1. Stutter
        BY <1>1 DEF PollIdle, BadProtocol, GetKeyAgreement, GetRetries,
                    hostVars, Lockout!lockoutVars, RetriesReady, PinIsSet,
                    Granted
    <2>2. QED
        BY <2>1
<1>2. ASSUME NEW p \in BOOLEAN, NEW m \in BOOLEAN, NEW n \in NewPinInputs,
             SetPin(p, m, n)
      PROVE  [Lockout!LockoutNext]_Lockout!lockoutVars
    <2>1. CASE response' = "Ok"
        <3>1. ~PinIsSet /\ n \in Pins
            <4>1. NewPinError(n) # "Ok"
                BY DEF NewPinError
            <4>2. QED
                BY <1>2, <2>1, <4>1 DEF SetPin, NewPinAccepted
        <3>2. Lockout!Set
            BY <1>2, <2>1, <3>1, SentinelsAssumption
               DEF SetPin, Lockout!Set, PinIsSet, PinRetriesMax,
                   RetriesReady, RetriesUnset, Granted, hostVars
        <3>3. QED
            BY <3>2 DEF Lockout!LockoutNext
    <2>2. CASE response' # "Ok"
        <3>1. Stutter
            BY <1>2, <2>2 DEF SetPin, hostVars, Lockout!lockoutVars,
                              RetriesReady, PinIsSet, Granted
        <3>2. QED
            BY <3>1
    <2>3. QED
        BY <2>1, <2>2
<1>3. ASSUME NEW p \in BOOLEAN, NEW m \in BOOLEAN, NEW e \in PinHashInputs,
             NEW n \in NewPinInputs, ChangePin(p, m, e, n)
      PROVE  [Lockout!LockoutNext]_Lockout!lockoutVars
    <2>1. CASE ~p
        BY <1>3, <2>1 DEF ChangePin, hostVars, Lockout!lockoutVars,
                          RetriesReady, PinIsSet, Granted
    <2>2. CASE p /\ (NoRetriesLeft \/ ~PinAuthOk(m))
        BY <1>3, <2>2 DEF ChangePin, hostVars, Lockout!lockoutVars,
                          RetriesReady, PinIsSet, Granted, RetriesUnset,
                          PinRetriesMax
    <2>3. CASE p /\ ~NoRetriesLeft /\ PinAuthOk(m) /\ ~PinHashMatches(e)
        <3>1. Lockout!Fail
            BY <1>0, <1>3, <2>3 DEF ChangePin, VerifyFails, VerifyPasses,
               Lockout!Fail, hostVars, RetriesReady, RetriesUnset,
               NoRetriesLeft, PinIsSet, Granted, U8
        <3>2. QED
            BY <3>1 DEF Lockout!LockoutNext
    <2>4. CASE p /\ ~NoRetriesLeft /\ PinAuthOk(m) /\ PinHashMatches(e)
        <3>1. Lockout!Succeed
            <4>1. pin_hash \in Pins /\ pin_hash' \in Pins
                BY <1>3, <2>4 DEF ChangePin, VerifyFails, VerifyPasses,
                   PinHashMatches, NewPinAccepted, PinStateOK
            <4>2. QED
                BY <1>0, <1>3, <2>4, <4>1, SentinelsAssumption
                   DEF ChangePin, VerifyFails, VerifyPasses, Lockout!Succeed,
                   hostVars, RetriesReady, RetriesUnset, NoRetriesLeft,
                   PinIsSet, Granted, PinRetriesMax
        <3>2. QED
            BY <3>1 DEF Lockout!LockoutNext
    <2>5. QED
        BY <2>1, <2>2, <2>3, <2>4
<1>4. ASSUME NEW p \in BOOLEAN, NEW e \in PinHashInputs, GetPinToken(p, e)
      PROVE  [Lockout!LockoutNext]_Lockout!lockoutVars
    <2>1. CASE ~p
        BY <1>4, <2>1 DEF GetPinToken, Lockout!lockoutVars, RetriesReady,
                          PinIsSet, Granted
    <2>2. CASE p /\ NoRetriesLeft
        BY <1>4, <2>2 DEF GetPinToken, Lockout!lockoutVars, RetriesReady,
                          PinIsSet, Granted, RetriesUnset, PinRetriesMax
    <2>3. CASE p /\ ~NoRetriesLeft /\ ~PinHashMatches(e)
        <3>1. Lockout!Fail
            BY <1>0, <1>4, <2>3 DEF GetPinToken, VerifyFails, VerifyPasses,
               Lockout!Fail, RetriesReady, RetriesUnset, NoRetriesLeft,
               PinIsSet, Granted, U8
        <3>2. QED
            BY <3>1 DEF Lockout!LockoutNext
    <2>4. CASE p /\ ~NoRetriesLeft /\ PinHashMatches(e)
        <3>1. pin_token' # NoHandle
            BY <1>0, <1>4, <2>4 DEF GetPinToken, VerifyFails, VerifyPasses,
               NoHandle, Handles
        <3>2. Lockout!Succeed
            <4>1. PinIsSet /\ PinIsSet'
                <5>1. pin_hash \in Pins /\ pin_hash' = pin_hash
                    BY <1>4, <2>4 DEF PinHashMatches, GetPinToken
                <5>2. QED
                    BY <5>1, SentinelsAssumption DEF PinIsSet
            <4>2. RetriesReady > 0 /\ RetriesReady' = PinRetriesMax
                <5>1. retries' = PinRetriesMax
                    BY <1>4, <2>4 DEF GetPinToken, VerifyFails,
                                      VerifyPasses
                <5>2. QED
                    BY <1>0, <2>4, <5>1 DEF NoRetriesLeft, RetriesReady,
                                            RetriesUnset, PinRetriesMax
            <4>3. Granted'
                BY <1>4, <2>4, <3>1 DEF GetPinToken, VerifyFails,
                                        VerifyPasses, Granted
            <4>4. QED
                BY <4>1, <4>2, <4>3 DEF Lockout!Succeed
        <3>3. QED
            BY <3>2 DEF Lockout!LockoutNext
    <2>5. QED
        BY <2>1, <2>2, <2>3, <2>4
<1>5. CASE Reboot
    <2>1. Lockout!Forget
        BY <1>5 DEF Reboot, Lockout!Forget, RetriesReady, RetriesUnset,
                    PinIsSet, Granted, PinRetriesMax
    <2>2. QED
        BY <2>1 DEF Lockout!LockoutNext
<1>6. CASE UNCHANGED vars
    BY <1>6 DEF vars, Lockout!lockoutVars, RetriesReady, PinIsSet, Granted
<1>7. QED
    BY <1>1, <1>2, <1>3, <1>4, <1>5, <1>6 DEF Next

\* The PIN protocol implements PinLockout under the mapping of PinProtocol.
THEOREM LockoutRefinement == Spec => LockoutRefined
<1>1. Init => Lockout!LockoutInit
    BY DEF Init, Lockout!LockoutInit, RetriesReady, RetriesUnset, PinIsSet,
           Granted, NoHandle
<1>2. TypeOK /\ [Next]_vars => [Lockout!LockoutNext]_Lockout!lockoutVars
    BY LockoutStep DEF TypeOK
<1>3. QED
    BY <1>1, <1>2, TypeCorrect, PTL DEF Spec, LockoutRefined,
       Lockout!LockoutSpec

=============================================================================
