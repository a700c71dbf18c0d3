---------------------------- MODULE PinProtocol ----------------------------
(***************************************************************************)
(* The PIN protocol (version 1) of the FIDO2 authenticator in              *)
(* src/components/fido-authenticator/src/lib.rs: the ClientPin             *)
(* subcommands GetRetries, GetKeyAgreement, SetPin, ChangePin and          *)
(* GetPinToken, the retry / consecutive-mismatch accounting, the rotation  *)
(* of the key-agreement key on a PIN mismatch, the lazy creation of the    *)
(* key-agreement key at the head of every poll(), and a reboot             *)
(* (Authenticator::new, which builds State::default()).                    *)
(*                                                                         *)
(* Data abstraction.  A PIN is a model value of Pins and its stored hash   *)
(* LEFT(SHA-256(pin),16) is the PIN itself (the hash is taken injective).  *)
(* Crypto-service object handles are numbers of Handles; a newly generated *)
(* key gets a handle that no variable refers to, which is as good as a     *)
(* never-used one because handles are only compared for equality.  The    *)
(* platform (host) is represented by what it caches: the key-agreement    *)
(* key it last read with GetKeyAgreement (its shared secret is right iff   *)
(* that key is still the authenticator's) and the PIN token it last        *)
(* received.  Crypto-service calls are taken to succeed.                   *)
(***************************************************************************)
EXTENDS Integers

CONSTANTS
    Pins,         \* PINs a user may type
    NoPin,        \* pin_hash = None
    Malformed,    \* an encrypted field whose AES-CBC decryption yields None
    ShortPin,     \* a decrypted new PIN that violates the length policy
    MaxHandles    \* number of crypto-service handles the model distinguishes

ASSUME SentinelsAssumption ==
    /\ NoPin \notin Pins
    /\ Malformed \notin Pins
    /\ ShortPin \notin Pins
    /\ Malformed # ShortPin

\* At most four handles are referenced by the state and an action draws at
\* most two fresh ones.
ASSUME MaxHandlesAssumption == MaxHandles \in Nat /\ MaxHandles >= 6

PinRetriesMax == 8        \* the literal 8 of retries() and reset_retries()
PinAuthBlockLimit == 3    \* consecutive mismatches that give PinAuthBlocked
U8 == 256                 \* retries and mismatches are u8
RetriesUnset == -1        \* State::retries = None
NoHandle == 0             \* an Option<ObjectHandle> that is None
Handles == 1..MaxHandles

Responses == {"None", "Ok", "MissingParameter", "InvalidParameter",
              "InvalidCommand", "PinAuthInvalid", "PinBlocked",
              "PinAuthBlocked", "PinInvalid", "PinPolicyViolation", "Other"}

VARIABLES
    retries,                     \* State::retries
    consecutive_pin_mismatches,  \* State::consecutive_pin_mismatches
    pin_hash,                    \* State::pin_hash
    key_agreement_key,           \* State::key_agreement_key
    pin_token,                   \* State::pin_token
    hostKak,     \* key-agreement key the platform last read
    hostToken,   \* PIN token the platform last received
    response     \* the response enqueued by the last step

authVars == <<retries, consecutive_pin_mismatches, pin_hash,
              key_agreement_key, pin_token>>
hostVars == <<hostKak, hostToken>>
vars == <<retries, consecutive_pin_mismatches, pin_hash,
          key_agreement_key, pin_token, hostKak, hostToken, response>>

-----------------------------------------------------------------------------
(* Helpers, each the model of a method of Authenticator.                   *)

\* Handles the state refers to; a generated key gets one outside them.
Used == {key_agreement_key, pin_token, hostKak, hostToken}
NewHandle(U) == CHOOSE h \in Handles : h \notin U

\* key_agreement_key(): the stored key, or a freshly generated one.  poll()
\* calls it before dequeuing, so every request is served with this key.
KakReady == IF key_agreement_key = NoHandle THEN NewHandle(Used)
                                            ELSE key_agreement_key

\* Variant of the mismatch path that keeps the key-agreement key.
KakKept == KakReady

\* rotate_key_agreement_key() after KakReady was established.
KakRotated == NewHandle(Used \cup {KakReady})

\* retries(): the stored count, initialised to 8 on first use.
RetriesReady == IF retries = RetriesUnset THEN PinRetriesMax ELSE retries

\* Variant without the `retries() == 0` early return.
NoRetriesLeftIgnored == FALSE

\* The `retries() == 0` early return of ChangePin and GetPinToken.
NoRetriesLeft == RetriesReady = 0

\* Variant of SetPin without the "is pin already set" early return.
PinIsSetUnchecked == FALSE

\* pin_is_set().
PinIsSet == pin_hash # NoPin

\* decrement_retries(): u8 arithmetic on both counters.
RetriesDecremented == (RetriesReady - 1) % U8
MismatchesIncremented == (consecutive_pin_mismatches + 1) % U8

\* generate_shared_secret() + verify_pin_auth(): the platform's HMAC over
\* the request verifies iff it computed it correctly (macOk) with the
\* shared secret of the current key-agreement key.
PinAuthOk(macOk) == macOk /\ hostKak = KakReady

\* decrypt_pin_hash_and_maybe_escalate() finds the decrypted pinHashEnc
\* equal to the stored hash.
PinHashMatches(enc) == enc \in Pins /\ hostKak = KakReady /\ enc = pin_hash

\* The error returned on a mismatch, in the priority order of the code.
EscalationError ==
    CASE RetriesDecremented = 0 -> "PinBlocked"
      [] MismatchesIncremented >= PinAuthBlockLimit -> "PinAuthBlocked"
      [] OTHER -> "PinInvalid"

\* decrement_retries() followed by a failing
\* decrypt_pin_hash_and_maybe_escalate(): undecryptable input gives Other,
\* no stored PIN gives InvalidCommand, a mismatch rotates the key-agreement
\* key and escalates.
VerifyFails(enc) ==
    /\ ~PinHashMatches(enc)
    /\ retries' = RetriesDecremented
    /\ consecutive_pin_mismatches' = MismatchesIncremented
    /\ \/ /\ enc = Malformed
          /\ key_agreement_key' = KakReady
          /\ response' = "Other"
       \/ /\ enc # Malformed
          /\ pin_hash = NoPin
          /\ key_agreement_key' = KakReady
          /\ response' = "InvalidCommand"
       \/ /\ enc # Malformed
          /\ pin_hash # NoPin
          /\ key_agreement_key' = KakRotated
          /\ response' = EscalationError

\* Variant of reset_retries() that leaves the mismatch counter alone.
VerifyPassesKeepingMismatches(enc) ==
    /\ PinHashMatches(enc)
    /\ retries' = PinRetriesMax
    /\ UNCHANGED consecutive_pin_mismatches
    /\ key_agreement_key' = KakReady

\* decrement_retries(), a matching decrypt_pin_hash_and_maybe_escalate()
\* and reset_retries(): both counters end reset.
VerifyPasses(enc) ==
    /\ PinHashMatches(enc)
    /\ retries' = PinRetriesMax
    /\ consecutive_pin_mismatches' = 0
    /\ key_agreement_key' = KakReady

\* Variant of decrypt_pin_check_length() without the two length checks.
NewPinAcceptedUnchecked(newPin) == newPin # Malformed

\* decrypt_pin_check_length() succeeds: the plaintext decrypts, is padded to
\* at least 64 bytes and holds a PIN of at least 4 bytes.
NewPinAccepted(newPin) == newPin \in Pins

\* decrypt_pin_check_length(): the error for a new PIN that is not stored.
NewPinError(newPin) == IF newPin = Malformed THEN "Other"
                                             ELSE "PinPolicyViolation"

-----------------------------------------------------------------------------
(* Operations.  Each request action is one call of poll() that dequeues   *)
(* that request: key_agreement_key() first, then the handler.             *)

\* Authenticator::new with State::default().
Init ==
    /\ retries = RetriesUnset
    /\ consecutive_pin_mismatches = 0
    /\ pin_hash = NoPin
    /\ key_agreement_key = NoHandle
    /\ pin_token = NoHandle
    /\ hostKak = NoHandle
    /\ hostToken = NoHandle
    /\ response = "None"

\* poll() with an empty request queue.
PollIdle ==
    /\ key_agreement_key' = KakReady
    /\ response' = "None"
    /\ UNCHANGED <<retries, consecutive_pin_mismatches, pin_hash, pin_token,
                   hostVars>>

\* client_pin() with pin_protocol != 1.
BadProtocol ==
    /\ key_agreement_key' = KakReady
    /\ response' = "InvalidParameter"
    /\ UNCHANGED <<retries, consecutive_pin_mismatches, pin_hash, pin_token,
                   hostVars>>

GetRetries ==
    /\ key_agreement_key' = KakReady
    /\ retries' = RetriesReady
    /\ response' = "Ok"
    /\ UNCHANGED <<consecutive_pin_mismatches, pin_hash, pin_token, hostVars>>

\* The platform reads the public key of the key-agreement key.
GetKeyAgreement ==
    /\ key_agreement_key' = KakReady
    /\ hostKak' = KakReady
    /\ response' = "Ok"
    /\ UNCHANGED <<retries, consecutive_pin_mismatches, pin_hash, pin_token,
                   hostToken>>

\* paramsOk: keyAgreement, newPinEnc and pinAuth are all present.
SetPin(paramsOk, macOk, newPin) ==
    /\ key_agreement_key' = KakReady
    /\ response' = CASE ~paramsOk -> "MissingParameter"
                     [] PinIsSet -> "PinAuthInvalid"
                     [] ~PinAuthOk(macOk) -> "PinAuthInvalid"
                     [] ~NewPinAccepted(newPin) -> NewPinError(newPin)
                     [] OTHER -> "Ok"
    /\ IF response' = "Ok"
          THEN /\ pin_hash' = newPin
               /\ retries' = PinRetriesMax
               /\ consecutive_pin_mismatches' = 0
          ELSE UNCHANGED <<retries, consecutive_pin_mismatches, pin_hash>>
    /\ UNCHANGED <<pin_token, hostVars>>

\* paramsOk: keyAgreement, pinHashEnc, newPinEnc and pinAuth are present;
\* pinAuth covers newPinEnc || pinHashEnc.
ChangePin(paramsOk, macOk, enc, newPin) ==
    /\ \/ /\ ~paramsOk
          /\ key_agreement_key' = KakReady
          /\ response' = "MissingParameter"
          /\ UNCHANGED <<retries, consecutive_pin_mismatches, pin_hash>>
       \/ /\ paramsOk
          /\ NoRetriesLeft \/ ~PinAuthOk(macOk)
          /\ key_agreement_key' = KakReady
          /\ retries' = RetriesReady
          /\ response' = IF NoRetriesLeft THEN "PinBlocked" ELSE "PinAuthInvalid"
          /\ UNCHANGED <<consecutive_pin_mismatches, pin_hash>>
       \/ /\ paramsOk /\ ~NoRetriesLeft /\ PinAuthOk(macOk)
          /\ VerifyFails(enc)
          /\ UNCHANGED pin_hash
       \/ /\ paramsOk /\ ~NoRetriesLeft /\ PinAuthOk(macOk)
          /\ VerifyPasses(enc)
          /\ response' = IF NewPinAccepted(newPin) THEN "Ok"
                                                    ELSE NewPinError(newPin)
          /\ pin_hash' = IF NewPinAccepted(newPin) THEN newPin ELSE pin_hash
    /\ UNCHANGED <<pin_token, hostVars>>

\* paramsOk: keyAgreement and pinHashEnc are present.  On success the token
\* goes to the platform wrapped under the shared secret.
GetPinToken(paramsOk, enc) ==
    /\ \/ /\ ~paramsOk
          /\ key_agreement_key' = KakReady
          /\ response' = "MissingParameter"
          /\ UNCHANGED <<retries, consecutive_pin_mismatches, pin_token,
                         hostToken>>
       \/ /\ paramsOk /\ NoRetriesLeft
          /\ key_agreement_key' = KakReady
          /\ retries' = RetriesReady
          /\ response' = "PinBlocked"
          /\ UNCHANGED <<consecutive_pin_mismatches, pin_token, hostToken>>
       \/ /\ paramsOk /\ ~NoRetriesLeft
          /\ VerifyFails(enc)
          /\ UNCHANGED <<pin_token, hostToken>>
       \/ /\ paramsOk /\ ~NoRetriesLeft
          /\ VerifyPasses(enc)
          /\ pin_token' = IF pin_token = NoHandle
                             THEN NewHandle(Used \cup {KakReady})
                             ELSE pin_token
          /\ hostToken' = pin_token'
          /\ response' = "Ok"
    /\ UNCHANGED <<pin_hash, hostKak>>

\* Power cycle: Authenticator::new again; the platform keeps its caches.
Reboot ==
    /\ retries' = RetriesUnset
    /\ consecutive_pin_mismatches' = 0
    /\ pin_hash' = NoPin
    /\ key_agreement_key' = NoHandle
    /\ pin_token' = NoHandle
    /\ response' = "None"
    /\ UNCHANGED hostVars

PinHashInputs == Pins \cup {Malformed}
NewPinInputs == Pins \cup {Malformed, ShortPin}

Next ==
    \/ PollIdle
    \/ BadProtocol
    \/ GetRetries
    \/ GetKeyAgreement
    \/ \E p, m \in BOOLEAN, n \in NewPinInputs : SetPin(p, m, n)
    \/ \E p, m \in BOOLEAN, e \in PinHashInputs, n \in NewPinInputs :
          ChangePin(p, m, e, n)
    \/ \E p \in BOOLEAN, e \in PinHashInputs : GetPinToken(p, e)
    \/ Reboot

Spec == Init /\ [][Next]_vars

-----------------------------------------------------------------------------
(* Properties.                                                             *)

\* The fields of State and the platform's caches hold values of their Rust
\* types (u8 counters, optional 16-byte hash, optional handles).
PinStateOK ==
    /\ retries \in {RetriesUnset} \cup 0..(U8 - 1)
    /\ consecutive_pin_mismatches \in 0..(U8 - 1)
    /\ pin_hash \in Pins \cup {NoPin}
    /\ key_agreement_key \in Handles \cup {NoHandle}
    /\ pin_token \in Handles \cup {NoHandle}
    /\ hostKak \in Handles \cup {NoHandle}
    /\ hostToken \in Handles \cup {NoHandle}

\* Every variable holds a value of its Rust type, and every response is
\* one the ClientPin handlers return.
TypeOK ==
    /\ PinStateOK
    /\ response \in Responses

\* Retry accounting of decrement_retries() / reset_retries(): once retries()
\* has been initialised, the attempts left and the consecutive mismatches
\* since the last reset add up to 8, so neither u8 ever wraps and at most 8
\* wrong PINs are accepted between two successful verifications.
RetryAccounting ==
    /\ retries = RetriesUnset => consecutive_pin_mismatches = 0
    /\ retries # RetriesUnset =>
          retries + consecutive_pin_mismatches = PinRetriesMax

\* Spec P2 / section 7: a PIN mismatch answered PinInvalid or PinAuthBlocked
\* by decrypt_pin_hash_and_maybe_escalate() leaves the platform's cached
\* shared secret stale, because the key-agreement key was rotated first.
MismatchInvalidatesSecret ==
    [][response' \in {"PinInvalid", "PinAuthBlocked"} =>
          hostKak' # key_agreement_key']_vars

\* Once a set PIN has no retries left, ChangePin and GetPinToken answer
\* PinBlocked for good: no step but a reboot revives the counter, changes the
\* PIN or hands out a PIN token.
PinBlockedIsTerminal ==
    [][retries = 0 /\ pin_hash # NoPin =>
          \/ /\ retries' = 0
             /\ pin_hash' = pin_hash
             /\ hostToken' = hostToken
          \/ retries' = RetriesUnset]_vars

\* Spec section 3: "consecutive_pin_mismatches >= 3 => PinAuthBlocked until
\* reboot": after the third consecutive mismatch of a set PIN no
\* verification succeeds (and resets the counter) before a reboot.
PinAuthBlockedUntilReboot ==
    [][pin_hash # NoPin /\ consecutive_pin_mismatches >= PinAuthBlockLimit =>
          \/ consecutive_pin_mismatches' >= PinAuthBlockLimit
          \/ retries' = RetriesUnset]_vars

\* Spec section 6: the PIN hash is persisted state; once set it is never
\* lost (authenticatorReset is out of scope).
PinHashPersists ==
    [][pin_hash # NoPin => pin_hash' # NoPin]_vars

\* Spec section 3: "retries in [0, 8]; reaching 0 is terminal (PinBlocked)":
\* apart from a reboot, a counter at 0 stays at 0.
RetriesExhaustedIsTerminal ==
    [][retries = 0 => retries' \in {0, RetriesUnset}]_vars

-----------------------------------------------------------------------------
(* Refinement of the abstract PIN gate PinLockout.  The attempts left are  *)
(* what retries() returns, a PIN is set when pin_hash is, and the platform *)
(* holds an honoured token when its token is the authenticator's current  *)
(* pin_token (verify_pin compares against pin_token()).                    *)

Granted == pin_token # NoHandle /\ hostToken = pin_token

Lockout == INSTANCE PinLockout WITH
    MaxAttempts <- PinRetriesMax,
    left <- RetriesReady,
    pinSet <- PinIsSet,
    granted <- Granted

\* The ClientPin handlers implement the gate: SetPin only without a PIN,
\* each failed verification in ChangePin/GetPinToken costs exactly one
\* retry and needs one left, a token reaches the platform only after a
\* matching PIN hash, and Authenticator::new forgets PIN, retries and token.
LockoutRefined == Lockout!LockoutSpec

=============================================================================
