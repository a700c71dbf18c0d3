---------------------------- MODULE Authenticator ----------------------------
(***************************************************************************)
(* The whole authenticator of src/components/fido-authenticator/src/lib.rs *)
(* as its poll() loop sees it: the request and response queues shared with *)
(* the transport, the routing of every request kind, the PIN protocol of   *)
(* PinProtocol, pin_prechecks/verify_pin, make_credential,                 *)
(* get_assertion/locate_credentials, get_info, the volatile key-encryption *)
(* key and the internal (persistent) storage of the crypto service.        *)
(*                                                                         *)
(* Data abstraction.  A credential is numbered in creation order; internal *)
(* storage is a set of objects tagged with the credential they belong to   *)
(* (its resident private key, its hmac-secret key, its "rk" blob).  The    *)
(* platform keeps the credential IDs it received: a record of the          *)
(* credential, the rp id (the AEAD associated data) and the KEK it was     *)
(* encrypted under; an ID decrypts iff it is presented for the same rp and *)
(* the KEK is still the current one.  A KEK is numbered in creation order, *)
(* so a KEK made after a reboot is never an earlier one.  Credential IDs   *)
(* that are not the authenticator's are TamperedId.  The algorithm chosen  *)
(* only decides whether the request is refused, so its value is not kept.  *)
(***************************************************************************)
EXTENDS PinProtocol, AlgorithmChoice, Sequences, FiniteSets

CONSTANTS
    Rps,        \* relying-party ids
    MaxCreds,   \* credentials the model creates (storage slots allocated)
    MaxBoots    \* power cycles the model performs

ASSUME AuthBoundsAssumption == MaxCreds \in Nat /\ MaxBoots \in Nat

Kinds == {"ClientPin", "MakeCredential", "GetAssertion", "GetInfo",
          "OtherCtap2", "Ctap1"}
Policies == {"Optional", "OptionalWithCredentialIdList", "Required"}
Creds == 1..MaxCreds
TamperedId == 0
RespQueueCap == 1         \* one response in flight (spec section 7)

VARIABLES
    key_encryption_key,  \* State::key_encryption_key (volatile KEK)
    keks,                \* KEKs generated so far
    storage,             \* objects in the crypto service's internal storage
    nextCred,            \* credentials that have taken storage so far
    issued,              \* credential IDs the platform received, with the
                         \* power cycle it received each in (history)
    flags,               \* flags of the last MakeCredential's authData
    reqQ,                \* rpc.recv: requests not yet dequeued
    respQ,               \* rpc.send: responses not yet read by the host
    halted,              \* the authenticator has panicked
    boots,               \* power cycles so far
    hostTokenBoot        \* history: the power cycle in which the platform
                         \* received the token it holds

credVars == <<key_encryption_key, keks, storage, nextCred, issued, flags>>
queueVars == <<reqQ, respQ, halted, boots, hostTokenBoot>>
allVars == <<vars, credVars, queueVars>>

StoredObject(kind, c) == [kind |-> kind, cred |-> c]

-----------------------------------------------------------------------------
(* Helpers.                                                                *)

\* Variant of key_encryption_key() that regenerates the previous KEK.
KekReadyReused == IF key_encryption_key = NoHandle THEN keks
                                                   ELSE key_encryption_key

\* Variant of key_encryption_key() whose new KEK is always the same key, as
\* if it were derived from a fixed seed instead of generated.
KekReadyFixed == IF key_encryption_key = NoHandle THEN 1
                                                  ELSE key_encryption_key

\* key_encryption_key(): the stored KEK or a new volatile one.
KekReady == IF key_encryption_key = NoHandle THEN keks + 1
                                             ELSE key_encryption_key
UseKek ==
    /\ key_encryption_key' = KekReady
    /\ keks' = IF key_encryption_key = NoHandle THEN keks + 1 ELSE keks

\* pin_token(): the stored token or a new one, after key_agreement_key().
PinTokenReady == IF pin_token = NoHandle THEN NewHandle(Used \cup {KakReady})
                                         ELSE pin_token

\* pinAuth of a MakeCredential/GetAssertion request: absent, empty (the
\* discovery probe), of a length other than 16, the HMAC the platform
\* computed with the token it holds, or 16 bytes made without it.
PinAuthInputs == {"Absent", "Empty", "Short", "Host", "Forged"}

\* Variant of verify_pin() that accepts any tag once the platform holds
\* some token, without checking it against pin_token().
TokenMatchesStale(pa) == pa = "Host" /\ hostToken # NoHandle

\* verify_pin(): the platform's tag matches HMAC(pin_token(), data).
TokenMatches(pa) == pa = "Host" /\ hostToken = PinTokenReady

\* pin_prechecks() reaches verify_pin() (which creates pin_token lazily).
ReachesVerify(pa, proto) == pa \in {"Host", "Forged"} /\ proto /\ PinIsSet

\* pin_prechecks(): an error, or "UV" / "NoUV" for Ok(true) / Ok(false),
\* in the order of the code's early returns.
PrecheckResult(pa, proto, uvOpt, up) ==
    IF pa = "Empty" THEN
        IF ~up THEN "OperationDenied"
        ELSE IF ~PinIsSet THEN "PinNotSet" ELSE "PinAuthInvalid"
    ELSE IF pa # "Absent" /\ ~proto THEN "PinAuthInvalid"
    ELSE IF ~PinIsSet /\ (uvOpt \/ pa # "Absent") THEN "InvalidOption"
    ELSE IF ~PinIsSet THEN "NoUV"
    ELSE IF pa = "Absent" THEN "PinRequired"
    ELSE IF pa = "Short" THEN "InvalidParameter"
    ELSE IF TokenMatches(pa) THEN "UV" ELSE "PinAuthInvalid"

PrecheckPassed(r) == r \in {"UV", "NoUV"}

\* What pin_prechecks() can do to a request: its result, and whether it
\* reached verify_pin(), over every pinAuth, protocol, uv option and
\* user presence.
PrecheckOutcomes ==
    {<<PrecheckResult(pa, proto, uvOpt, up), ReachesVerify(pa, proto), up>> :
        pa \in PinAuthInputs, proto \in BOOLEAN, uvOpt \in BOOLEAN,
        up \in BOOLEAN}

\* pubKeyCredParams lists of up to two entries: enough for a request the
\* selection loop refuses and for one it accepts.
ParamLists == ParamListsUpTo(2)

\* The extensions.cred_protect value: absent (default Optional), a policy,
\* or an integer that CredentialProtectionPolicy::try_from rejects.
ProtectInputs == {"Absent", "Invalid"} \cup Policies
PolicyOf(protect) == IF protect = "Absent" THEN "Optional" ELSE protect

\* Variant of step 11 that generates every key pair in volatile storage.
KeyLocationVolatile(rk) == "Volatile"

\* Step 11 of make_credential: where the credential key pair is generated.
KeyLocation(rk) == IF rk THEN "Internal" ELSE "Volatile"

\* A credential ID of the platform decrypts under the current KEK with rp.
Decrypts(id, rp) == \E cr \in issued : cr.cred = id /\ cr.rp = rp
                                      /\ cr.kek = KekReady

\* The cred_protect filter of locate_credentials, for a non-empty list.
Applicable(policy, uv) ==
    \/ policy \in {"Optional", "OptionalWithCredentialIdList"}
    \/ policy = "Required" /\ uv

-----------------------------------------------------------------------------
(* Request handlers.  Each is the handler's whole run inside one poll():   *)
(* key_agreement_key() first, then the handler with its early returns.    *)
(* `response` is what the handler returns; "Panic" stands for a panic.     *)

\* make_credential(): pin_prechecks, algorithm choice, hmac-secret key
\* (internal storage, wrapped under the KEK when not resident), credProtect
\* parse, user presence, key pair (internal when resident), store_blob,
\* credential ID under the KEK, authData flags.
\* pre, verified and up are an outcome of PrecheckOutcomes; the later
\* inputs are chosen where the code reads them.
MakeCredential(pre, verified, up) ==
    /\ key_agreement_key' = KakReady
    /\ pin_token' = IF verified THEN PinTokenReady ELSE pin_token
    /\ \/ /\ ~PrecheckPassed(pre)
          /\ response' = pre
          /\ UNCHANGED credVars
       \/ /\ PrecheckPassed(pre)
          /\ \E ps \in ParamLists : ChosenAlgorithm(ps) = "None"
          /\ response' = "UnsupportedAlgorithm"
          /\ UNCHANGED credVars
       \/ \E rk, hmac \in BOOLEAN, protect \in ProtectInputs, rp \in Rps :
          LET c == nextCred + 1
              random == IF hmac THEN {StoredObject("credRandom", c)} ELSE {}
              resident == IF KeyLocation(rk) = "Internal"
                             THEN {StoredObject("credKey", c)} ELSE {}
          IN
          /\ PrecheckPassed(pre)
          /\ \E ps \in ParamLists : ChosenAlgorithm(ps) # "None"
          /\ nextCred < MaxCreds
          /\ \/ /\ protect = "Invalid" \/ ~up
                /\ response' = IF protect = "Invalid" THEN "InvalidParameter"
                                                      ELSE "OperationDenied"
                /\ storage' = storage \cup random
                /\ nextCred' = IF hmac THEN c ELSE nextCred
                /\ IF hmac /\ ~rk THEN UseKek
                                  ELSE UNCHANGED <<key_encryption_key, keks>>
                /\ UNCHANGED <<issued, flags>>
             \/ /\ protect # "Invalid" /\ up
                /\ response' = "Ok"
                /\ storage' = storage \cup random \cup resident
                                      \cup {StoredObject("blob", c)}
                /\ nextCred' = c
                /\ UseKek
                /\ issued' = issued \cup {[cred |-> c, rp |-> rp, rk |-> rk,
                                           kek |-> KekReady, boot |-> boots,
                                           protect |-> PolicyOf(protect)]}
                /\ flags' = {"UP", "AT"}
                            \cup (IF pre = "UV" THEN {"UV"} ELSE {})
                            \cup (IF hmac \/ PolicyOf(protect) # "Optional"
                                    THEN {"ED"} ELSE {})
    /\ UNCHANGED <<retries, consecutive_pin_mismatches, pin_hash, hostVars>>

\* get_assertion() and locate_credentials(): pin_prechecks, the KEK, the
\* strict allow list, the todo!() of an empty or absent list, the existence
\* and credProtect filters, and the final InvalidCommand of a request that
\* found credentials.  ids is the allow list (absent and empty behave alike).
GetAssertion(pre, verified) ==
    /\ key_agreement_key' = KakReady
    /\ pin_token' = IF verified THEN PinTokenReady ELSE pin_token
    /\ \/ /\ ~PrecheckPassed(pre)
          /\ response' = pre
          /\ UNCHANGED <<key_encryption_key, keks>>
       \/ \E rp \in Rps, ids \in SUBSET ({TamperedId} \cup Creds) :
          LET allowed == {cr \in issued : cr.cred \in ids
                                          /\ Decrypts(cr.cred, rp)}
              existing == {cr \in allowed :
                             \/ ~cr.rk
                             \/ StoredObject("credKey", cr.cred) \in storage}
              applicable == {cr \in existing :
                               Applicable(cr.protect, pre = "UV")}
          IN
          /\ PrecheckPassed(pre)
          /\ UseKek
          /\ response' =
                IF \E id \in ids : ~Decrypts(id, rp) THEN "InvalidCredential"
                ELSE IF ids = {} THEN "Panic"
                ELSE IF applicable = {} THEN "NoCredentials"
                ELSE "InvalidCommand"
    /\ UNCHANGED <<retries, consecutive_pin_mismatches, pin_hash, hostVars,
                   storage, nextCred, issued, flags>>

\* get_info(): a constant response.
GetInfo ==
    /\ key_agreement_key' = KakReady
    /\ response' = "Ok"
    /\ UNCHANGED <<retries, consecutive_pin_mismatches, pin_hash, pin_token,
                   hostVars, credVars>>

\* The `_ =>` arm of the CTAP2 match and the CTAP1 arm.
Unsupported ==
    /\ key_agreement_key' = KakReady
    /\ response' = "InvalidCommand"
    /\ UNCHANGED <<retries, consecutive_pin_mismatches, pin_hash, pin_token,
                   hostVars, credVars>>

\* client_pin() with the inputs of PinProtocol's Next.
ClientPin ==
    /\ \/ BadProtocol
       \/ GetRetries
       \/ GetKeyAgreement
       \/ \E p, m \in BOOLEAN, n \in NewPinInputs : SetPin(p, m, n)
       \/ \E p, m \in BOOLEAN, e \in PinHashInputs, n \in NewPinInputs :
             ChangePin(p, m, e, n)
       \/ \E p \in BOOLEAN, e \in PinHashInputs : GetPinToken(p, e)
    /\ UNCHANGED credVars

-----------------------------------------------------------------------------
(* poll(), the host and power cycles.                                      *)

\* rpc.send.enqueue(response).expect("internal error"): a panic when the
\* handler panicked or the queue is full.
Enqueue ==
    IF response' # "Panic" /\ Len(respQ) < RespQueueCap
       THEN /\ respQ' = Append(respQ, response')
            /\ UNCHANGED halted
       ELSE /\ halted' = TRUE
            /\ UNCHANGED respQ

\* Variant of poll() that peeks at the request instead of dequeuing it.
ServePeek(k, Handler) ==
    /\ ~halted
    /\ reqQ = <<k>>
    /\ UNCHANGED reqQ
    /\ Handler
    /\ Enqueue
    /\ hostTokenBoot' = IF hostToken' # hostToken THEN boots ELSE hostTokenBoot
    /\ UNCHANGED boots

\* poll() dequeues a request of kind k and runs its handler.
Serve(k, Handler) ==
    /\ ~halted
    /\ reqQ = <<k>>
    /\ reqQ' = <<>>
    /\ Handler
    /\ Enqueue
    /\ hostTokenBoot' = IF hostToken' # hostToken THEN boots ELSE hostTokenBoot
    /\ UNCHANGED boots

\* poll() with an empty request queue.
PollIdleStep ==
    /\ ~halted
    /\ reqQ = <<>>
    /\ PollIdle
    /\ UNCHANGED <<credVars, queueVars>>

\* Variant of poll() whose CTAP1 arm only logs the request, with the
\* enqueue of line 310 commented out and no respond() after it.
PollCtap1Unanswered ==
    \/ PollIdleStep
    \/ Serve("ClientPin", ClientPin)
    \/ Serve("GetInfo", GetInfo)
    \/ Serve("OtherCtap2", Unsupported)
    \/ /\ ~halted
       /\ reqQ = <<"Ctap1">>
       /\ reqQ' = <<>>
       /\ Unsupported
       /\ UNCHANGED <<respQ, halted, boots, hostTokenBoot>>
    \/ \E o \in PrecheckOutcomes :
          Serve("MakeCredential", MakeCredential(o[1], o[2], o[3]))
    \/ \E o \in PrecheckOutcomes :
          Serve("GetAssertion", GetAssertion(o[1], o[2]))

\* Every run of poll().
Poll ==
    \/ PollIdleStep
    \/ Serve("ClientPin", ClientPin)
    \/ Serve("GetInfo", GetInfo)
    \/ Serve("OtherCtap2", Unsupported)
    \/ Serve("Ctap1", Unsupported)
    \/ \E o \in PrecheckOutcomes :
          Serve("MakeCredential", MakeCredential(o[1], o[2], o[3]))
    \/ \E o \in PrecheckOutcomes :
          Serve("GetAssertion", GetAssertion(o[1], o[2]))

\* The transport hands over a request once the previous one is answered
\* and its response read (one request in flight, spec section 7).
HostSend ==
    /\ reqQ = <<>> /\ respQ = <<>>
    /\ \E k \in Kinds : reqQ' = <<k>>
    /\ UNCHANGED <<vars, credVars, respQ, halted, boots, hostTokenBoot>>

HostReceive ==
    /\ respQ # <<>>
    /\ respQ' = <<>>
    /\ UNCHANGED <<vars, credVars, reqQ, halted, boots, hostTokenBoot>>

\* Variant of the power cycle whose new State keeps the PIN token of the
\* previous one, as if State::pin_token were persisted.
AuthRebootKeepingToken ==
    /\ boots < MaxBoots
    /\ retries' = RetriesUnset
    /\ consecutive_pin_mismatches' = 0
    /\ pin_hash' = NoPin
    /\ key_agreement_key' = NoHandle
    /\ response' = "None"
    /\ key_encryption_key' = NoHandle
    /\ reqQ' = <<>>
    /\ respQ' = <<>>
    /\ halted' = FALSE
    /\ boots' = boots + 1
    /\ UNCHANGED <<pin_token, hostVars, keks, storage, nextCred, issued, flags,
                   hostTokenBoot>>

\* Power cycle: Authenticator::new with State::default(), fresh queues;
\* internal storage and what the platform holds survive.
AuthReboot ==
    /\ boots < MaxBoots
    /\ Reboot
    /\ key_encryption_key' = NoHandle
    /\ reqQ' = <<>>
    /\ respQ' = <<>>
    /\ halted' = FALSE
    /\ boots' = boots + 1
    /\ UNCHANGED <<keks, storage, nextCred, issued, flags, hostTokenBoot>>

AuthInit ==
    /\ Init
    /\ key_encryption_key = NoHandle
    /\ keks = 0
    /\ storage = {}
    /\ nextCred = 0
    /\ issued = {}
    /\ flags = {}
    /\ reqQ = <<>>
    /\ respQ = <<>>
    /\ halted = FALSE
    /\ boots = 0
    /\ hostTokenBoot = 0

AuthNext == Poll \/ HostSend \/ HostReceive \/ AuthReboot

\* The firmware's main loop calls poll() again and again.
AuthSpec == AuthInit /\ [][AuthNext]_allVars /\ WF_allVars(Poll)

-----------------------------------------------------------------------------
(* Properties.                                                             *)

AuthResponses ==
    Responses \cup {"PinNotSet", "OperationDenied", "InvalidOption",
                    "PinRequired", "UnsupportedAlgorithm",
                    "InvalidCredential", "NoCredentials", "Panic"}

CredentialRecords ==
    [cred : Creds, rp : Rps, rk : BOOLEAN, kek : 1..(MaxBoots + 1),
     boot : 0..MaxBoots, protect : Policies]

\* Every variable has a value of its type; both queues hold at most one
\* element.
AuthTypeOK ==
    /\ retries \in {RetriesUnset} \cup 0..(U8 - 1)
    /\ pin_hash \in Pins \cup {NoPin}
    /\ pin_token \in Handles \cup {NoHandle}
    /\ hostToken \in Handles \cup {NoHandle}
    /\ response \in AuthResponses
    /\ keks \in 0..(MaxBoots + 1)
    /\ key_encryption_key \in {NoHandle} \cup 1..keks
    /\ storage \subseteq [kind : {"credKey", "credRandom", "blob"},
                          cred : Creds]
    /\ nextCred \in 0..MaxCreds
    /\ issued \subseteq CredentialRecords
    /\ flags \subseteq {"UP", "UV", "AT", "ED"}
    /\ reqQ \in {<<>>} \cup {<<k>> : k \in Kinds}
    /\ respQ \in {<<>>} \cup {<<r>> : r \in AuthResponses}
    /\ halted \in BOOLEAN
    /\ boots \in 0..MaxBoots
    /\ hostTokenBoot \in 0..MaxBoots

\* pin_prechecks grants UV to a MakeCredential only for a pinAuth made with
\* a PIN token the platform received in the current power cycle: the token
\* verify_pin() creates after a reboot is never one handed out before it.
UvOnlyWithTokenOfThisBoot ==
    [][(/\ reqQ = <<"MakeCredential">> /\ reqQ' = <<>>
        /\ response' = "Ok" /\ "UV" \in flags')
         => hostToken # NoHandle /\ hostTokenBoot = boots]_allVars

\* Spec sections 3 and 6: a credential ID is sealed under the KEK, which is
\* volatile and made anew in every power cycle (key_encryption_key() at
\* lib.rs:707), so an ID the platform received before the current power
\* cycle decrypts for no relying party: get_assertion rejects it.
StaleIdsRejected ==
    \A cr \in issued, rp \in Rps : cr.boot < boots => ~Decrypts(cr.cred, rp)

\* The internal storage of the crypto service survives power cycles: every
\* credential the platform received keeps its "rk" blob, and a resident
\* one keeps its private key, through any sequence of requests and reboots.
IssuedCredentialsStored ==
    \A cr \in issued :
        /\ StoredObject("blob", cr.cred) \in storage
        /\ cr.rk => StoredObject("credKey", cr.cred) \in storage

\* The .expect("internal error") of rpc.send.enqueue() never fires on a
\* full response queue: with a platform that keeps one request in flight,
\* the authenticator halts only because a handler panicked.
HaltOnlyOnPanic ==
    halted => response = "Panic"

\* The errors pin_prechecks() returns to make_credential and get_assertion.
PrecheckErrors == {"OperationDenied", "PinNotSet", "PinAuthInvalid",
                   "InvalidOption", "PinRequired", "InvalidParameter"}

\* The answers each arm of poll() may enqueue: client_pin's, make_credential's
\* and get_assertion's own results (get_assertion's "Ok" is the spec's, the
\* InvalidCommand of lib.rs:816 the code's), get_info's, and InvalidCommand
\* for the `_ =>` arm and CTAP1 (spec section 4.6).
AnswersTo ==
    [k \in Kinds |->
        CASE k = "ClientPin"      -> Responses \ {"None"}
          [] k = "MakeCredential" -> PrecheckErrors \cup
                                       {"UnsupportedAlgorithm", "Ok"}
          [] k = "GetAssertion"   -> PrecheckErrors \cup
                                       {"InvalidCredential", "NoCredentials",
                                        "InvalidCommand", "Ok"}
          [] k = "GetInfo"        -> {"Ok"}
          [] OTHER                -> {"InvalidCommand"}]

Dispatch == INSTANCE DispatchContract WITH
    pending   <- IF reqQ = <<>> THEN "NoRequest" ELSE Head(reqQ),
    answer    <- IF respQ = <<>> THEN "NoAnswer" ELSE Head(respQ),
    dead      <- halted,
    cycles    <- boots,
    NoRequest <- "NoRequest",
    NoAnswer  <- "NoAnswer"

\* poll() keeps the dispatcher's contract with the transport (spec sections
\* 4.6 and 5): exactly one answer per dequeued request, of the kind its arm
\* of the match routes it to, enqueued only into a free slot, or a panic;
\* no answer is enqueued without a request, and the platform sends only
\* into empty queues.
DispatchRefined == Dispatch!ContractSpec

\* poll() answers every request it dequeues, unless the authenticator
\* panicked or lost power first (the firmware keeps calling poll()).
RequestAnsweredOrHalted ==
    \A b \in 0..MaxBoots :
        (reqQ # <<>> /\ boots = b) ~> (respQ # <<>> \/ halted \/ boots # b)

\* Spec section 4.6: "Exactly one response is enqueued per dequeued
\* request"; test 5 of section 8 expects NoCredentials from a GetAssertion
\* with an empty allow list.  A request is answered unless power is lost.
RequestAnswered ==
    \A b \in 0..MaxBoots :
        (reqQ # <<>> /\ boots = b) ~> (respQ # <<>> \/ boots # b)

\* Spec section 4.4 step 8, "If rk, store the blob in internal storage":
\* make_credential stores an "rk" blob only for a resident credential.
BlobsOnlyForResident ==
    \A o \in storage :
        o.kind = "blob" => \E cr \in issued : cr.cred = o.cred /\ cr.rk

\* Spec section 4.4 step 4: the cred_random of a non-resident credential
\* is wrapped under the KEK and kept as Wrapped(bytes), so make_credential
\* leaves in internal storage only those of resident credentials, and
\* none of a request it refuses.
HmacKeysOnlyForResident ==
    \A o \in storage :
        o.kind = "credRandom" => \E cr \in issued : cr.cred = o.cred /\ cr.rk

=============================================================================
