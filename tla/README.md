# Verification of the FIDO2 authenticator

This directory holds TLA+ models of the FIDO2 authenticator in
`src/components/fido-authenticator/src/lib.rs`. It also holds the TLC
configurations that check the models and TLAPS proofs of their main invariants.
Every definition that models code is listed in `PROJECT.json` under `map`,
together with the lines of `lib.rs` it translates.

## 1. The system

The authenticator is one Rust object, `Authenticator<UP, T>`. It owns three
things:

- a request queue and a response queue shared with the transport
  (`interchange`);
- a crypto-service client, `T`, which reaches the keys, the RNG and the storage
  through `syscall!`/`block!`;
- a `State`.

All work happens in `poll()`. It is single-threaded and cooperative. Each call
does three things in order:

1. it calls `key_agreement_key()`, which lazily creates the ECDH key;
2. it dequeues at most one request;
3. it runs the handler to completion and enqueues exactly one response.

There are no threads and no callbacks. The only concurrency is the
interleaving of whole `poll()` calls with the platform's requests. The hard
behaviours come from sequences of requests, a power cycle between them, and
state that the platform caches across requests.

| Component | State (`State` fields) | Operations | Interacts with |
|---|---|---|---|
| Dispatcher (`poll`, 242-316) | the two queues | route a request, enqueue the response (panics if full, 239) | every handler |
| State store (`State`, 150-232) | `retries`, `consecutive_pin_mismatches`, `pin_hash`, `key_agreement_key`, `pin_token`, `key_encryption_key`, `attestation_key` | lazy getters, `rotate_key_agreement_key`, `reset_retries`, `decrement_retries`, `Authenticator::new` | crypto service |
| PIN/UV protocol (`client_pin`, 318-610) | the PIN fields above | GetRetries, GetKeyAgreement, SetPin, ChangePin, GetPinToken | platform (its shared secret and PIN token), MakeCredential and GetAssertion through `pin_prechecks` |
| MakeCredential (819-1147) | key-encryption key, stored blobs | algorithm choice, extensions, user presence, key generation, `store_blob`, credential ID | PIN/UV, crypto service |
| GetAssertion (700-816) | key-encryption key | allow-list decryption, filters, `todo!()` on an empty list | PIN/UV, crypto service |
| GetInfo | none | constant response | dispatcher |
| CryptoGateway (`syscall!`, 110-127) | none of its own | every crypto call; panics on error | all of the above |

The credential codec (`pub mod credential`) is declared, but its source is not
in the repository. `src/pqclean/build.rs` is a build script.

## 2. What is modelled

| Module | Models | Used by |
|---|---|---|
| `PinProtocol.tla` | the State store's PIN fields and every ClientPin subcommand | `Authenticator`, `MCPinProtocol` |
| `PinLockout.tla` | what the PIN protocol promises: an abstract lockout gate | `PinProtocol` (refinement) |
| `DispatchContract.tla` | what the dispatcher promises the transport: one allowed answer per request, or a panic | `Authenticator` (refinement) |
| `AlgorithmChoice.tla` | the pubKeyCredParams loop of `make_credential` and the spec's rule | `Authenticator`, `SelectionLoop` |
| `SelectionLoop.tla` | that loop run one iteration per step | run `selection_loop` |
| `Authenticator.tla` | the whole `poll()` loop: queues, routing, every handler, KEK, internal storage, power cycles | `MCAuthenticator` |
| `PinProtocolProofs.tla`, `AuthenticatorProofs.tla`, `SelectionLoopProofs.tla` | TLAPS proofs | |

### `PinProtocol.tla`: the PIN protocol, version 1

**State.** One variable per `State` field, named after the field:

- `retries`: `RetriesUnset` stands for `None`;
- `consecutive_pin_mismatches`;
- `pin_hash`: `NoPin` stands for `None`;
- `key_agreement_key`;
- `pin_token`: `NoHandle` stands for `None`.

Two more variables stand for the platform: `hostKak`, the key-agreement key it
last read, and `hostToken`, the token it last received. `response` is the
response of the last step.

**Actions.** Each action is one whole `poll()`: `KakReady` (the lazy key at
the head of `poll()`), then one handler with every early return in the code's
order.

- `PollIdle`: a `poll()` with an empty queue.
- `BadProtocol`: `pin_protocol != 1`.
- `GetRetries` and `GetKeyAgreement`.
- `SetPin`, `ChangePin`, `GetPinToken`. The helpers they use:
  - `VerifyFails`/`VerifyPasses`: `decrement_retries` followed by
    `decrypt_pin_hash_and_maybe_escalate`, then `reset_retries` on success;
  - `PinAuthOk`: `verify_pin_auth` with the shared secret;
  - `NewPinAccepted`/`NewPinError`: `decrypt_pin_check_length`.
- `Reboot`: `Authenticator::new` builds `State::default()`. No field of `State`
  is persisted, so a crash in the middle of a handler ends in the same state
  as a crash after it. One `Reboot` action therefore covers both.

**Data abstraction.**

- A PIN is a model value of `Pins`. Its hash is the PIN itself.
- An encrypted field that does not decrypt is `Malformed`. A new PIN that
  breaks the length policy is `ShortPin`.
- Crypto handles are integers `1..MaxHandles`. A generated key takes a handle
  that no variable refers to. Handles are only compared for equality, so this
  is exact.
- The u8 counters are computed `% 256`.

**Inputs.** `paramsOk` (all parameters present) and `macOk` (the platform
computed the HMAC correctly) range over `BOOLEAN`. Whether the HMAC verifies
also depends on whether the platform's key is still current
(`hostKak = KakReady`).

**Type invariant.** `TypeOK` is `PinStateOK` (the `State` fields and the
platform's variables) and the type of `response`. The composition reuses
`PinStateOK` with its own, larger set of responses.

`MCPinProtocol.tla` fixes `Pins = {p1, p2}` (two PINs, so a wrong PIN exists)
and `MaxHandles = 6`. At most four handles are referenced at once and one step
draws at most two fresh ones.

### `PinLockout.tla`: the abstract lockout gate

Three variables: `left` (attempts left), `pinSet` and `granted` (the platform
holds a token the authenticator honours). Its actions are:

- `Set`: only while no PIN is set;
- `Fail`: costs one attempt and needs one left;
- `Succeed`: needs a PIN and an attempt, restores all attempts, may grant a
  token;
- `Forget`: a power cycle.

`PinProtocol` instantiates it with `left <- RetriesReady`,
`pinSet <- PinIsSet` and `granted <- Granted`. Its property `LockoutRefined`
is `Lockout!LockoutSpec`. `Fail` does not require a PIN, because the code
charges an attempt even when none is set (finding `retries_terminal`).

### `DispatchContract.tla`: what the dispatcher promises the transport

Four variables: `pending` (the request in the slot), `answer` (the answer
in the slot), `dead` and `cycles` (power cycles so far). The contract's constant `AnswersTo` gives the
answers allowed for each kind of request. Its actions are:

- `Request(k)`: only while both slots are empty;
- `Respond`: empties the request slot and puts exactly one allowed answer
  into the free answer slot;
- `Crash`: empties the request slot and kills the authenticator;
- `Collect`: the platform takes the answer;
- `Restart`: a power cycle, which empties both slots and counts itself.

Only `Respond`, `Crash` and `Restart` empty the request slot, and `Restart`
changes `cycles`. A `poll()` that dequeues a request and answers nothing is
therefore a step of no action, and the refinement fails on it.

`Authenticator` instantiates it as `Dispatch`:

- `pending` is the head of `reqQ`;
- `answer` is the head of `respQ`;
- `dead` is `halted`;
- `cycles` is `boots`;
- `AnswersTo` gives each arm of `poll()` its handler's own results:
  - `client_pin`: the PIN protocol's responses;
  - `make_credential`: the prechecks' errors, UnsupportedAlgorithm and Ok;
  - `get_assertion`: the prechecks' errors, InvalidCredential,
    NoCredentials, the InvalidCommand of lib.rs:816 and the spec's Ok;
  - `get_info`: Ok;
  - the `_ =>` arm and CTAP1: InvalidCommand.

Its property `DispatchRefined` is `Dispatch!ContractSpec`.

### `AlgorithmChoice.tla` and `SelectionLoop.tla`: step 7 of `make_credential`

`AlgStep` is one iteration of the loop at lib.rs 836-842, and
`ChosenAlgorithm` folds it over a list with a recursive function.
`PreferredAlgorithm` is the spec's rule (section 4.4 step 2): Ed25519 if -8 is
offered anywhere, else P-256; `PreferredOf` states it for the set of offered
ids. `SelectionLoop` runs the loop one iteration per
step over every list of up to four ids from {-7, -8, -257}, which is 121
lists. `LoopPrefersEd25519` says the loop, once it has consumed the whole list,
holds the spec's choice. `ChosenAlgorithm`, the same loop as a recursive
function, is what `Authenticator` uses; it is not checked on its own, since it
is `Iterate` applied `Len(ps)` times.

### `Authenticator.tla`: the composed authenticator

It EXTENDS `PinProtocol` and `AlgorithmChoice`.

**State.** The PIN variables, plus:

| Variable | Stands for |
|---|---|
| `key_encryption_key`, `keks` | `State::key_encryption_key` (volatile KEK), numbered so that a KEK made after a reboot differs from every earlier one |
| `storage` | objects in the crypto service's internal storage, each tagged with its credential: `credKey`, `credRandom`, `blob` |
| `nextCred` | credentials that have taken storage so far, bounded by `MaxCreds` |
| `issued` | the credential IDs the platform holds: (credential, rp, rk, KEK, credProtect), plus, as history, the power cycle that issued each |
| `flags` | authData flags of the last MakeCredential |
| `reqQ`, `respQ` | `rpc.recv` and `rpc.send` |
| `halted` | the authenticator has panicked |
| `boots` | power cycles so far, bounded by `MaxBoots` |
| `hostTokenBoot` | history variable: the power cycle in which the platform received its token |

**Actions.**

- `Poll` is one `poll()`. Each arm is `Serve(kind, Handler)`: dequeue, run the
  whole handler, then `Enqueue`. `Enqueue` is the `.expect("internal error")`:
  a panic when the handler panicked or the queue is full.
  - `ClientPin` runs the PinProtocol actions.
  - `MakeCredential` and `GetAssertion` follow the code's order of early
    returns (see below).
  - `GetInfo` answers Ok and changes nothing.
  - `Unsupported` is the `_ =>` arm and the CTAP1 arm.
  - `PollIdleStep` is a poll with an empty queue.
- `HostSend` and `HostReceive` are the platform. It sends a request only when
  both queues are empty: one request in flight, as spec section 7 requires.
- `AuthReboot` is `Authenticator::new`. It builds a new `State` (`Reboot` plus
  no KEK) and fresh queues. Internal storage and what the platform holds
  survive.

**MakeCredential**, in the code's order:

1. `PrecheckResult` is `pin_prechecks`. `TokenMatches` is `verify_pin`, which
   creates the token lazily (`PinTokenReady`).
2. The algorithm loop: UnsupportedAlgorithm if it finds nothing.
3. The hmac-secret key is generated in internal storage. It is wrapped under
   the KEK when not resident, which creates the KEK.
4. An invalid credProtect is refused (InvalidParameter), and so is a missing
   user presence (OperationDenied). Both happen after that key is stored.
5. On success:
   - the key pair goes to internal storage if resident (`KeyLocation`);
   - `store_blob` runs for every credential;
   - the credential ID is made under the KEK;
   - the flags are set.

**GetAssertion**, in the code's order:

1. The prechecks.
2. `key_encryption_key()`.
3. The strict allow list: InvalidCredential if any ID fails to decrypt
   (`Decrypts`: same rp and current KEK).
4. `todo!()` for an absent or empty list, modelled as a panic.
5. The existence and credProtect filters (`Applicable`).
6. NoCredentials if none is left, else the final InvalidCommand of line 816.

**Inputs.** Each handler chooses an input only where the code reads it. The
pinAuth, protocol, uv option and user presence enter through
`PrecheckOutcomes`, the set of `pin_prechecks` results over all of them. That
set is the same relation as enumerating the inputs, but with far fewer
identical successors.

**Instances** (`MCAuthenticator.tla`):

- one PIN;
- one relying party (two in the violation runs);
- one credential slot;
- one power cycle;
- six handles;
- two PIN attempts.

The PIN retry accounting with the code's 8 attempts is checked by the
PinProtocol runs. Here, two attempts let the platform fail once and still
succeed, and also exhaust the PIN. One credential slot can sit in an allow
list alone, with a tampered ID, or not at all. One power cycle is enough to
lose a KEK and a token. The liveness run takes no power cycle and one attempt,
so that TLC's liveness check stays within minutes.

**Fairness.** `AuthSpec` has `WF_allVars(Poll)`: the firmware's main loop
calls `poll()` again and again, and nothing in `poll()` blocks. The crypto
calls are `block!`/`syscall!` busy-waits that the model takes as atomic. The
platform and power cycles get no fairness.

## 3. Runs

| Run | cfg | Expect | Checks |
|---|---|---|---|
| `pin_protocol` | `PinProtocol.cfg` | pass | `TypeOK`, `RetryAccounting`, `MismatchInvalidatesSecret`, `PinBlockedIsTerminal` |
| `pin_lockout` | `PinLockout.cfg` | pass | `LockoutRefined` (PinProtocol implements PinLockout) |
| `authenticator` | `Authenticator.cfg` | pass | `AuthTypeOK`, `IssuedCredentialsStored`, `HaltOnlyOnPanic`, `StaleIdsRejected`, `UvOnlyWithTokenOfThisBoot`, `LockoutRefined`, `DispatchRefined` |
| `request_answered` | `Answered.cfg` | pass | `RequestAnsweredOrHalted` (liveness) |
| `selection_loop` | `SelectionLoop.cfg` | pass | `LoopPrefersEd25519` |
| `pin_auth_block` | `PinAuthBlock.cfg` | violation | `PinAuthBlockedUntilReboot` |
| `pin_persist` | `PinPersist.cfg` | violation | `PinHashPersists` |
| `retries_terminal` | `RetriesTerminal.cfg` | violation | `RetriesExhaustedIsTerminal` |
| `empty_allow_list` | `Unanswered.cfg` | violation | `RequestAnswered` |
| `blob_store` | `BlobStore.cfg` | violation | `BlobsOnlyForResident` |
| `hmac_store` | `HmacStore.cfg` | violation | `HmacKeysOnlyForResident` |

### The passing runs

- **`pin_protocol`** (8181 states, depth 24) explores every sequence of
  ClientPin requests and reboots. It runs long enough to exhaust all 8
  retries, reach the PinAuthBlocked threshold of 3, rotate the key, and
  recreate keys lazily after a reboot.
- **`pin_lockout`** checks the refinement on the same state space.
- **`authenticator`** (389,491 states, depth 36) explores every sequence of
  every request kind, with a power cycle anywhere:
  - `IssuedCredentialsStored`: internal storage keeps each issued credential's
    blob, and a resident one's key, across the power cycle.
  - `UvOnlyWithTokenOfThisBoot`: a pinAuth made with a token from before the
    power cycle never earns the UV flag, because `verify_pin` compares it
    against a freshly created token.
  - `StaleIdsRejected`: a credential ID issued before the power cycle fails
    to decrypt in `locate_credentials` for every relying party, because
    `key_encryption_key()` makes a new volatile KEK after the reboot.
  - `HaltOnlyOnPanic`: the authenticator halts only with a handler's panic,
    never because `Enqueue` found the response queue full.
  - `LockoutRefined`: with the other handlers and the power cycle beside
    `client_pin`, the PIN state still implements `PinLockout`.
  - `DispatchRefined`: `poll()`, the platform and power cycles implement
    `DispatchContract`: one allowed answer per dequeued request, or a panic.
- **`request_answered`** (23,207 states) checks, under weak fairness of
  `poll()`, that every dequeued request is answered unless the authenticator
  panicked. CTAP1 is answered only through the `respond()` of line 311.
- **`selection_loop`** (547 states) checks that the loop agrees with the spec's rule on every list. This settles open question (a) of
  the spec: the order of -7 and -8 does not matter.

Each property of a passing run has a mutant in `PROJECT.json` that TLC
catches:

- a SetPin that skips "PIN already set";
- a success path that keeps the mismatch count;
- a mismatch that does not rotate the key;
- a length check that lets a short PIN through;
- a missing `retries() == 0` return (caught by the refinement);
- a KEK regenerated with the previous number;
- key pairs always generated in volatile storage;
- a `verify_pin` that accepts any token the platform holds;
- a CTAP1 arm whose enqueue is commented out with no `respond()`;
- a selection loop in which a later -7 overrides -8 (a loop body without
  the `is_none()` test);
- a `key_encryption_key()` that makes the same KEK in every power cycle
  (caught by `StaleIdsRejected`);
- a power cycle that keeps the PIN token (caught by the refinement);
- a `poll()` that reads the request without dequeuing it (caught by
  `HaltOnlyOnPanic`);
- a CTAP1 arm that dequeues the request and only logs it (caught by
  `DispatchRefined`).

### The violation runs

Each violation run is a disagreement between the code and `spec.md`, recorded
as a finding.

- **`pin_auth_block`.** Nothing checks `consecutive_pin_mismatches` before a
  verification (lib.rs:466, 417). After three mismatches, the right PIN still
  succeeds and resets the counter. The spec says PinAuthBlocked lasts until a
  reboot.
- **`pin_persist`.** `State` is never stored (lib.rs:136). A power cycle
  forgets the PIN and the retry counter, and anyone may then `SetPin`.
- **`retries_terminal`.** `decrement_retries()` runs before the code finds that
  no PIN is set (lib.rs:474, 431). Requests on a PIN-less device use up the
  retries, the device then answers PinBlocked, and `SetPin` restores 8. The
  spec calls 0 terminal.
- **`empty_allow_list`.** A GetAssertion with no allow list, or an empty one,
  reaches `todo!()` (lib.rs:775). The authenticator panics and never answers.
  Spec section 4.6 requires one response per request, and its test 5 expects
  NoCredentials.
- **`blob_store`.** `store_blob` runs for every credential (lib.rs:999), where
  the spec stores only resident ones.
- **`hmac_store`.** `cred_random` is generated in internal storage (lib.rs:891)
  before the credProtect parse and the user-presence check. It stays there for
  non-resident credentials, which the spec keeps only wrapped, and for refused
  requests.

One further gap is not a run, because any test shows it: `get_assertion` always
ends with InvalidCommand (lib.rs:816, "not done YET"), even when it found
applicable credentials.

## 4. Proofs

The proofs assume `SentinelsAssumption` (the sentinels are not PINs),
`MaxHandles >= 6` and `AuthBoundsAssumption`; `SelectionLoopProofs` assumes
only `MaxParams \in Nat`.

### `PinProtocolProofs.tla`, for every set of PINs

- **`TypeCorrect`**: `Spec => []TypeOK`. The type invariant is inductive. The
  lemma `NewHandleFresh` shows that a generated handle is in range and
  distinct from at most five given handles.
- **`RetryAccountingHolds`**: `Spec => []RetryAccounting`, meaning
  `retries + mismatches = 8` once `retries` is set.
  - The invariant is made inductive by conjoining `TypeOK` (`AccountingInv`).
  - The key lemma is `DecrementKeepsSum`. A failing verification is reached
    only past the `retries() == 0` early return, so `RetriesReady >= 1` and
    `mismatches <= 7`. Neither `% 256` wraps, and one unit moves from one
    counter to the other.
- **`PinBlockedTerminal`**: `Spec => PinBlockedIsTerminal`. Every disjunct of
  `Next` satisfies the step formula directly.
- **`MismatchSecretStale`**: `Spec => MismatchInvalidatesSecret`. A
  stuttering step repeats a PinInvalid response, so the proof goes through the
  state invariant `StaleAfterMismatch`: only the mismatch path answers
  PinInvalid or PinAuthBlocked, and it leaves the key at the fresh
  `KakRotated`.
- **`LockoutRefinement`**: `Spec => LockoutRefined`, meaning PinProtocol
  implements PinLockout.
  - The initial state maps to `LockoutInit`.
  - Under `TypeOK`, every step maps to a `PinLockout` step or a stutter:
    - a mismatch maps to `Fail`;
    - a success, which needs `RetriesReady > 0`, maps to `Succeed`;
    - SetPin maps to `Set`, and a reboot to `Forget`;
    - everything else is a stutter of `left`, `pinSet` and `granted`.
  The step facts are lemmas (`PinStateStep`, `AccountingStep`,
  `PinBlockedStep`, `LockoutStep`), stated under `PinStateOK` and `[Next]_vars`,
  so that the composition's proofs cite them for its `client_pin` steps.

### `AuthenticatorProofs.tla`, for every set of relying parties, number of credentials and number of power cycles

- **`IssuedStoredHolds`**: `AuthSpec => []IssuedCredentialsStored`. The
  invariant is inductive as it stands:
  - no handler deletes from internal storage, and `Authenticator::new` does
    not touch it;
  - a credential is issued in the same `poll()` that stores its blob and,
    when resident, its key (`IssueKeepsStored`, `MakeCredentialKeepsStored`).
- **`UvTokenCurrent`**: `AuthSpec => UvOnlyWithTokenOfThisBoot`. The
  inductive invariant is `StaleTokenRevoked`: a token handed out in an
  earlier power cycle is never the current `pin_token`. The steps are:
  - `TokenStep` shows that every `poll()` sets `pin_token` to `pin_token()` or
    leaves it, and hands the platform only that token;
  - `TokenReadyFresh` shows that a lazily created token is not the platform's;
  - a power cycle clears `pin_token`;
  - `PrecheckUvMatches` shows that `Ok(true)` from `pin_prechecks` implies a
    tag made with `pin_token()`;
  - `MatchedTokenCurrent` then yields a token of the current power cycle.

- **`AuthTypeCorrect`**: `AuthSpec => []AuthTypeOK`. `AuthTypeOK` is not
  inductive: `keks <= boots + 1` needs `KekCount`, which says that a KEK is
  created at most once per power cycle and that the current KEK is the
  newest one (`KekStep`, `KekUsedOrKept`). The inductive invariant
  `AuthTypeInv` adds it and the queue shapes (`QueueTypeOK`: at most one
  request and one response). One lemma per handler (`ClientPinType`,
  `MakeCredentialType`, `GetAssertionType`) proves its step; `Serve` adds the
  dequeue and `Enqueue`.
- **`AuthLockoutRefinement`**: `AuthSpec => LockoutRefined`. A `client_pin`
  step is a `PinProtocol` step (`LockoutStep`). `make_credential` and
  `get_assertion` change at most `pin_token`, by creating it lazily; the
  lemma `GrantedKept` shows, from `TokenReadyFresh`, that a lazily created
  token is never the platform's, so `granted` is kept and the step is a
  stutter of `PinLockout`.
- **`NoQueueOverflow`**: `AuthSpec => []HaltOnlyOnPanic`. The inductive
  invariant `OneInFlight` adds that the response queue is empty while a
  request waits: the platform sends only after reading the last response,
  so `Enqueue` always finds room.
- **`AuthRetryAccounting`** and **`AuthPinBlockedTerminal`**: the PIN
  retry accounting and the blocked PIN's terminality hold in the composition
  too. `PinStepOrKept` shows that every step is a `PinProtocol` step or
  leaves the counters, the PIN and the platform's token alone:
  `pin_prechecks` of `make_credential` and `get_assertion` never charges an
  attempt.

- **`DispatchRefinement`**: `AuthSpec => DispatchRefined`.
  - The initial state maps to `ContractInit`.
  - Under `AuthTypeInv` and `OneInFlight`, every step maps to a contract
    step or a stutter (`DispatchStep`):
    - a served request maps to `Respond` or, on a panic, `Crash`
      (`ServeContract`). The answer slot is free because of `OneInFlight`.
    - One lemma per handler shows that its answer is one that `AnswersTo`
      allows for its kind (`ClientPinAnswers`, `MakeCredentialAnswers`,
      `GetAssertionAnswers`, `PrecheckErrorsOf`).
    - `HostSend`, `HostReceive` and `AuthReboot` map to `Request`,
      `Collect` and `Restart`; an idle poll is a stutter.
  - Because `cycles` is `boots`, `Restart` is only a power cycle: every
    other step that empties the request slot must be `Respond` or `Crash`.
- **`StaleIdsRejectedHolds`**: `AuthSpec => []StaleIdsRejected`. The
  inductive invariant `IdsSealed` says:
  - every issued ID carries a KEK number up to `keks` and a credential number
    up to `nextCred`;
  - an ID of an earlier power cycle carries a KEK number below the current
    KEK, or there is no current KEK yet;
  - credential numbers are unique, since `Decrypts` finds an ID by its number.

  A KEK is made at most once per power cycle and takes the next number
  (`KekOnlySealed`); a new ID is sealed under the current one (`IssueSealed`,
  `MakeCredentialSealed`); a power cycle clears the KEK (`SealedStep`).
  `SealedRejects` then derives the property.
- **`AuthMismatchSecretStale`**: `AuthSpec => MismatchInvalidatesSecret`.
  - Its invariant `StaleAfterMismatch` is kept by every `client_pin` step
    (`StaleAfterMismatchStep` of PinProtocolProofs).
  - The other arms never answer PinInvalid or PinAuthBlocked: their answers
    are within `AnswersTo` (`OtherArmsNoMismatch`).
  - The platform's steps leave the keys and the response alone.

  With `AuthRetryAccounting` and `AuthPinBlockedTerminal`, every property of
  the run `pin_protocol` is proved for the composition too.

### `SelectionLoopProofs.tla`, for every bound on the list length

- **`LoopChoosesPreferred`**: `LoopSpec => []LoopPrefersEd25519`. The loop
  invariant `LoopInv` says that after `i` iterations `algorithm` is
  `PreferredOf` of the first `i` ids. `AlgStepPreferred` shows that one
  iteration extends it by one id, and `OfferedStep` that the offered set
  grows by that id.

### Only model-checked

The following are checked by TLC only:

- the violation runs, and the finite instance behind each mutant;
- the liveness property `RequestAnsweredOrHalted`, because TLAPS cannot
  reason about ENABLED or fairness;
- what the recursive function `ChosenAlgorithm` computes for every list,
  which needs induction over data that the provers cannot do. The loop form
  of the same rule, `LoopPrefersEd25519`, is proved.

## 5. Not modelled, and why

- **The crypto service's failures.** `syscall!` panics on any error
  (lib.rs:122), for instance when internal storage is full. The service is
  outside the repository, so the model takes every call to succeed.
- **A platform that sends a request before reading the previous response.**
  The response queue holds one response, and spec section 7 requires one
  request in flight. Under that discipline, the full-queue panic of `Enqueue`
  (lib.rs:239) is unreachable (`HaltOnlyOnPanic`, proved as
  `NoQueueOverflow`), and the model does not explore a platform that
  breaks the discipline.
- **`attestation_key`.** It is reached only when `SELF_SIGNED` is false, which
  it never is.
- **Signatures, encodings, the attestation statement, the sign counter** (a
  constant 123), **and the authData bytes.** They are data. The model keeps
  only the flags.
- **The credential codec.** Its source is not in the repository. A credential
  ID is (credential, rp, KEK), and decryption is equality of the rp and the
  KEK.
- **`src/pqclean/build.rs`.** It is a build script with no runtime state.
