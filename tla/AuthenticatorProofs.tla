------------------------- MODULE AuthenticatorProofs -------------------------
(***************************************************************************)
(* Proofs about the composed authenticator, for every set of relying       *)
(* parties, every number of credentials and every number of power cycles.  *)
(***************************************************************************)
EXTENDS Authenticator, PinProtocolProofs, TLAPS

-----------------------------------------------------------------------------
(* Type correctness.  key_encryption_key() numbers a new KEK keks + 1, so  *)
(* AuthTypeOK's bound keks <= MaxBoots + 1 needs to know that at most one *)
(* KEK is made per power cycle: KekCount, which holds because only a       *)
(* missing KEK is replaced and only Authenticator::new forgets it.         *)

USE SentinelsAssumption, MaxHandlesAssumption, AuthBoundsAssumption

\* At most one KEK per power cycle, and the stored one is the last made.
KekCount ==
    /\ keks <= boots + (IF key_encryption_key = NoHandle THEN 0 ELSE 1)
    /\ key_encryption_key # NoHandle => key_encryption_key = keks

KekTypeOK ==
    /\ keks \in 0..(MaxBoots + 1)
    /\ key_encryption_key \in {NoHandle} \cup 1..keks
    /\ KekCount

CredTypeOK ==
    /\ KekTypeOK
    /\ storage \subseteq [kind : {"credKey", "credRandom", "blob"},
                          cred : Creds]
    /\ nextCred \in 0..MaxCreds
    /\ issued \subseteq CredentialRecords
    /\ flags \subseteq {"UP", "UV", "AT", "ED"}

QueueTypeOK ==
    /\ reqQ \in {<<>>} \cup {<<k>> : k \in Kinds}
    /\ respQ \in {<<>>} \cup {<<r>> : r \in AuthResponses}
    /\ halted \in BOOLEAN
    /\ boots \in 0..MaxBoots
    /\ hostTokenBoot \in 0..MaxBoots

\* The inductive invariant behind AuthTypeOK.
AuthTypeInv ==
    /\ PinStateOK
    /\ response \in AuthResponses
    /\ CredTypeOK
    /\ QueueTypeOK

LEMMA AuthTypeInvTypeOK ==
    AuthTypeInv => AuthTypeOK
BY DEF AuthTypeInv, PinStateOK, CredTypeOK, KekTypeOK, QueueTypeOK, AuthTypeOK

\* The responses of the ClientPin handlers are responses of the
\* authenticator.
LEMMA ResponsesAuth ==
    Responses \subseteq AuthResponses
BY DEF Responses, AuthResponses

\* An error of pin_prechecks() is a response of the authenticator.
LEMMA PrecheckType ==
    ASSUME NEW o \in PrecheckOutcomes, ~PrecheckPassed(o[1])
    PROVE  o[1] \in AuthResponses
<1>1. PICK pa \in PinAuthInputs, proto \in BOOLEAN, uvOpt \in BOOLEAN,
           up \in BOOLEAN :
        o = <<PrecheckResult(pa, proto, uvOpt, up), ReachesVerify(pa, proto),
              up>>
  BY DEF PrecheckOutcomes
<1>. QED
  BY <1>1 DEF PrecheckResult, PrecheckPassed, AuthResponses, Responses

\* key_encryption_key() in a power cycle that already has its KEK returns
\* it; otherwise it makes the first KEK of this power cycle.
LEMMA KekStep ==
    ASSUME KekTypeOK, boots \in 0..MaxBoots, boots' = boots, UseKek
    PROVE  KekTypeOK' /\ KekReady \in 1..(MaxBoots + 1)
<1>1. CASE key_encryption_key = NoHandle
  <2>1. keks <= boots
    BY <1>1 DEF KekTypeOK, KekCount
  <2>. QED
    BY <1>1, <2>1 DEF KekTypeOK, KekCount, UseKek, KekReady, NoHandle
<1>2. CASE key_encryption_key # NoHandle
  BY <1>2 DEF KekTypeOK, KekCount, UseKek, KekReady, NoHandle
<1>. QED
  BY <1>1, <1>2

\* A step that keeps the KEK keeps its part of the invariant.
LEMMA KekKept ==
    ASSUME KekTypeOK, boots' = boots,
           UNCHANGED <<key_encryption_key, keks>>
    PROVE  KekTypeOK'
BY DEF KekTypeOK, KekCount

\* key_encryption_key() names a KEK made in this or an earlier power cycle.
LEMMA KekReadyRange ==
    ASSUME KekTypeOK, boots \in 0..MaxBoots
    PROVE  KekReady \in 1..(MaxBoots + 1)
BY DEF KekTypeOK, KekCount, KekReady, NoHandle

\* A step that sets the KEK with key_encryption_key() or keeps it.
LEMMA KekUsedOrKept ==
    ASSUME KekTypeOK, boots \in 0..MaxBoots, boots' = boots,
           UseKek \/ UNCHANGED <<key_encryption_key, keks>>
    PROVE  KekTypeOK'
BY KekStep, KekKept

\* key_agreement_key() and pin_token() return handles.
LEMMA LazyKeysType ==
    ASSUME PinStateOK
    PROVE  KakReady \in Handles /\ PinTokenReady \in Handles \cup {NoHandle}
BY KakReadyType, NewTokenType DEF PinStateOK, PinTokenReady

\* A handler that creates the key-agreement key and the PIN token lazily
\* and leaves the rest of State and the platform alone.
LEMMA HandlerPinState ==
    ASSUME PinStateOK, key_agreement_key' = KakReady,
           pin_token' \in {pin_token, PinTokenReady},
           UNCHANGED <<retries, consecutive_pin_mismatches, pin_hash, hostVars>>
    PROVE  PinStateOK'
BY LazyKeysType DEF PinStateOK, hostVars

\* client_pin() is a step of PinProtocol that leaves the credentials alone.
LEMMA ClientPinType ==
    ASSUME PinStateOK, CredTypeOK, boots' = boots, ClientPin
    PROVE  PinStateOK' /\ response' \in AuthResponses /\ CredTypeOK'
<1>1. Next
  BY DEF ClientPin, Next
<1>2. PinStateOK' /\ response' \in Responses
  BY <1>1, PinStateStep
<1>3. CredTypeOK'
  BY KekKept DEF ClientPin, credVars, CredTypeOK
<1>. QED
  BY <1>2, <1>3, ResponsesAuth

\* make_credential() stores objects of the credential it numbers next,
\* within MaxCreds, and issues a record under a KEK of this power cycle.
LEMMA MakeCredentialType ==
    ASSUME PinStateOK, CredTypeOK, boots \in 0..MaxBoots, boots' = boots,
           NEW o \in PrecheckOutcomes, MakeCredential(o[1], o[2], o[3])
    PROVE  PinStateOK' /\ response' \in AuthResponses /\ CredTypeOK'
<1>1. PinStateOK'
  BY HandlerPinState DEF MakeCredential
<1>2. response' \in AuthResponses
  BY PrecheckType DEF MakeCredential, AuthResponses, Responses
<1>3. KekTypeOK'
  <2>1. UseKek \/ UNCHANGED <<key_encryption_key, keks>>
    BY DEF MakeCredential, credVars
  <2>. QED
    BY <2>1, KekUsedOrKept DEF CredTypeOK
<1>4. KekReady \in 1..(MaxBoots + 1)
  BY KekReadyRange DEF CredTypeOK
<1>5. /\ storage' \subseteq [kind : {"credKey", "credRandom", "blob"},
                             cred : Creds]
      /\ nextCred' \in 0..MaxCreds
  BY DEF MakeCredential, CredTypeOK, credVars, StoredObject, Creds
<1>6. issued' \subseteq CredentialRecords
  BY <1>4 DEF MakeCredential, CredTypeOK, credVars, CredentialRecords, Creds,
              PolicyOf, ProtectInputs, Policies
<1>7. flags' \subseteq {"UP", "UV", "AT", "ED"}
  BY DEF MakeCredential, CredTypeOK, credVars
<1>. QED
  BY <1>1, <1>2, <1>3, <1>5, <1>6, <1>7 DEF CredTypeOK

\* get_assertion() only answers and sets the KEK.
LEMMA GetAssertionType ==
    ASSUME PinStateOK, CredTypeOK, boots \in 0..MaxBoots, boots' = boots,
           NEW o \in PrecheckOutcomes, GetAssertion(o[1], o[2])
    PROVE  PinStateOK' /\ response' \in AuthResponses /\ CredTypeOK'
<1>1. PinStateOK'
  BY HandlerPinState DEF GetAssertion
<1>2. response' \in AuthResponses
  BY PrecheckType DEF GetAssertion, AuthResponses, Responses
<1>3. KekTypeOK'
  <2>1. UseKek \/ UNCHANGED <<key_encryption_key, keks>>
    BY DEF GetAssertion
  <2>. QED
    BY <2>1, KekUsedOrKept DEF CredTypeOK
<1>. QED
  BY <1>1, <1>2, <1>3 DEF GetAssertion, CredTypeOK

\* poll() dequeues the one request and enqueues one response of the
\* authenticator, or halts.
LEMMA ServeQueueType ==
    ASSUME QueueTypeOK, reqQ' = <<>>, Enqueue, response' \in AuthResponses,
           boots' = boots,
           hostTokenBoot' = IF hostToken' # hostToken THEN boots
                                                      ELSE hostTokenBoot
    PROVE  QueueTypeOK'
<1>1. reqQ' \in {<<>>} \cup {<<k>> : k \in Kinds}
  OBVIOUS
<1>2. respQ' \in {<<>>} \cup {<<r>> : r \in AuthResponses}
  <2>1. CASE response' # "Panic" /\ Len(respQ) < RespQueueCap
    <3>1. respQ = <<>>
      BY <2>1 DEF QueueTypeOK, RespQueueCap
    <3>2. respQ' = <<response'>>
      BY <2>1, <3>1 DEF Enqueue
    <3>. QED
      BY <3>2
  <2>2. CASE ~(response' # "Panic" /\ Len(respQ) < RespQueueCap)
    BY <2>2 DEF Enqueue, QueueTypeOK
  <2>. QED
    BY <2>1, <2>2
<1>3. halted' \in BOOLEAN
  BY DEF Enqueue, QueueTypeOK
<1>4. boots' \in 0..MaxBoots /\ hostTokenBoot' \in 0..MaxBoots
  BY DEF QueueTypeOK
<1>. QED
  BY <1>1, <1>2, <1>3, <1>4 DEF QueueTypeOK

\* Every step of the composed authenticator keeps AuthTypeInv.
LEMMA AuthTypeStep ==
    ASSUME AuthTypeInv, [AuthNext]_allVars
    PROVE  AuthTypeInv'
<1> USE DEF AuthTypeInv
<1>1. CASE Serve("ClientPin", ClientPin)
  <2>1. PinStateOK' /\ response' \in AuthResponses /\ CredTypeOK'
    BY <1>1, ClientPinType DEF Serve
  <2>2. QueueTypeOK'
    BY <1>1, <2>1, ServeQueueType DEF Serve
  <2>. QED
    BY <2>1, <2>2
<1>2. CASE Serve("GetInfo", GetInfo) \/ Serve("OtherCtap2", Unsupported)
           \/ Serve("Ctap1", Unsupported)
  <2>1. PinStateOK'
    BY <1>2, HandlerPinState DEF Serve, GetInfo, Unsupported
  <2>2. response' \in AuthResponses
    BY <1>2 DEF Serve, GetInfo, Unsupported, AuthResponses, Responses
  <2>3. CredTypeOK'
    BY <1>2, KekKept DEF Serve, GetInfo, Unsupported, credVars, CredTypeOK
  <2>4. QueueTypeOK'
    BY <1>2, <2>2, ServeQueueType DEF Serve
  <2>. QED
    BY <2>1, <2>2, <2>3, <2>4
<1>3. CASE \E o \in PrecheckOutcomes :
             Serve("MakeCredential", MakeCredential(o[1], o[2], o[3]))
  <2>1. PICK o \in PrecheckOutcomes :
               Serve("MakeCredential", MakeCredential(o[1], o[2], o[3]))
    BY <1>3
  <2>2. PinStateOK' /\ response' \in AuthResponses /\ CredTypeOK'
    BY <2>1, MakeCredentialType DEF Serve, QueueTypeOK
  <2>3. QueueTypeOK'
    BY <2>1, <2>2, ServeQueueType DEF Serve
  <2>. QED
    BY <2>2, <2>3
<1>4. CASE \E o \in PrecheckOutcomes :
             Serve("GetAssertion", GetAssertion(o[1], o[2]))
  <2>1. PICK o \in PrecheckOutcomes :
               Serve("GetAssertion", GetAssertion(o[1], o[2]))
    BY <1>4
  <2>2. PinStateOK' /\ response' \in AuthResponses /\ CredTypeOK'
    BY <2>1, GetAssertionType DEF Serve, QueueTypeOK
  <2>3. QueueTypeOK'
    BY <2>1, <2>2, ServeQueueType DEF Serve
  <2>. QED
    BY <2>2, <2>3
<1>5. CASE PollIdleStep
  <2>1. PinStateOK'
    BY <1>5, HandlerPinState DEF PollIdleStep, PollIdle
  <2>2. CredTypeOK'
    BY <1>5, KekKept DEF PollIdleStep, credVars, queueVars, CredTypeOK
  <2>. QED
    BY <1>5, <2>1, <2>2 DEF PollIdleStep, PollIdle, queueVars, QueueTypeOK,
                            AuthResponses, Responses
<1>6. CASE HostSend \/ HostReceive \/ UNCHANGED allVars
  BY <1>6 DEF HostSend, HostReceive, allVars, vars, credVars, queueVars,
              hostVars, PinStateOK, CredTypeOK, KekTypeOK, KekCount,
              QueueTypeOK
<1>7. CASE AuthReboot
  <2>1. PinStateOK' /\ response' \in AuthResponses
    BY <1>7 DEF AuthReboot, Reboot, hostVars, PinStateOK, RetriesUnset, U8,
                NoHandle, AuthResponses, Responses
  <2>2. KekTypeOK'
    BY <1>7 DEF AuthReboot, QueueTypeOK, CredTypeOK, KekTypeOK, KekCount,
                NoHandle
  <2>3. CredTypeOK'
    BY <1>7, <2>2 DEF AuthReboot, CredTypeOK
  <2>4. QueueTypeOK'
    <3>1. reqQ' = <<>> /\ respQ' = <<>> /\ halted' = FALSE
      BY <1>7 DEF AuthReboot
    <3>2. boots' \in 0..MaxBoots /\ hostTokenBoot' \in 0..MaxBoots
      BY <1>7 DEF AuthReboot, QueueTypeOK
    <3>. QED
      BY <3>1, <3>2 DEF QueueTypeOK
  <2>. QED
    BY <2>1, <2>3, <2>4
<1>. QED
  BY <1>1, <1>2, <1>3, <1>4, <1>5, <1>6, <1>7 DEF AuthNext, Poll

\* The initial state of Authenticator::new satisfies AuthTypeInv.
LEMMA AuthTypeInitial ==
    AuthInit => AuthTypeInv
<1> SUFFICES ASSUME AuthInit PROVE AuthTypeInv
  OBVIOUS
<1>1. PinStateOK /\ response \in AuthResponses
  BY DEF AuthInit, Init, PinStateOK, RetriesUnset, U8, NoHandle,
         AuthResponses, Responses
<1>2. CredTypeOK
  BY DEF AuthInit, CredTypeOK, KekTypeOK, KekCount, NoHandle
<1>3. QueueTypeOK
  <2>1. /\ reqQ = <<>> /\ respQ = <<>> /\ halted = FALSE
        /\ boots = 0 /\ hostTokenBoot = 0
    BY DEF AuthInit
  <2>2. /\ reqQ \in {<<>>} \cup {<<k>> : k \in Kinds}
        /\ respQ \in {<<>>} \cup {<<r>> : r \in AuthResponses}
    BY <2>1, Zenon
  <2>3. boots \in 0..MaxBoots /\ hostTokenBoot \in 0..MaxBoots
    BY <2>1
  <2>. QED
    BY <2>1, <2>2, <2>3 DEF QueueTypeOK
<1>. QED
  BY <1>1, <1>2, <1>3 DEF AuthTypeInv

\* Theorem for the run authenticator (property AuthTypeOK): through every
\* sequence of requests, platform reads and power cycles, every variable
\* holds a value of its type; in particular at most one KEK is made per
\* power cycle and every response is one the handlers return.
THEOREM AuthTypeCorrect == AuthSpec => []AuthTypeOK
<1>1. AuthInit => AuthTypeInv
  BY AuthTypeInitial
<1>2. AuthTypeInv /\ [AuthNext]_allVars => AuthTypeInv'
  BY AuthTypeStep
<1>. QED
  BY <1>1, <1>2, AuthTypeInvTypeOK, PTL DEF AuthSpec

\* Every reachable state satisfies the strengthened type invariant.
LEMMA AuthTypeInvHolds == AuthSpec => []AuthTypeInv
<1>1. AuthInit => AuthTypeInv
  BY AuthTypeInitial
<1>. QED
  BY <1>1, AuthTypeStep, PTL DEF AuthSpec

-----------------------------------------------------------------------------
(* Internal storage only grows: no handler of lib.rs deletes an object,    *)
(* and Authenticator::new does not touch the crypto service.  A            *)
(* credential is issued in the same poll() that stores its blob and, when  *)
(* resident, its key.  So IssuedCredentialsStored is inductive.            *)

\* A step that leaves the credentials and the storage alone keeps the
\* invariant.
LEMMA KeepsStored ==
    ASSUME IssuedCredentialsStored,
           UNCHANGED <<storage, issued>>
    PROVE  IssuedCredentialsStored'
BY DEF IssuedCredentialsStored, StoredObject

\* A make_credential that refuses the request only adds objects.
LEMMA RefusalKeepsStored ==
    ASSUME IssuedCredentialsStored,
           NEW extra,
           storage' = storage \cup extra,
           UNCHANGED issued
    PROVE  IssuedCredentialsStored'
BY DEF IssuedCredentialsStored, StoredObject

\* A make_credential that succeeds stores what the new record needs.
LEMMA IssueKeepsStored ==
    ASSUME IssuedCredentialsStored,
           NEW c, NEW rk \in BOOLEAN, NEW random, NEW rec,
           storage' = storage \cup random
                      \cup (IF KeyLocation(rk) = "Internal"
                              THEN {StoredObject("credKey", c)} ELSE {})
                      \cup {StoredObject("blob", c)},
           issued' = issued \cup {rec},
           rec.cred = c, rec.rk = rk
    PROVE  IssuedCredentialsStored'
<1>1. rk => StoredObject("credKey", c) \in storage'
  BY DEF KeyLocation
<1>2. StoredObject("blob", c) \in storage'
  OBVIOUS
<1>3. storage \subseteq storage'
  OBVIOUS
<1>. QED
  BY <1>1, <1>2, <1>3 DEF IssuedCredentialsStored

\* Every MakeCredential request keeps the invariant.
LEMMA MakeCredentialKeepsStored ==
    ASSUME IssuedCredentialsStored,
           NEW pre, NEW verified, NEW up,
           MakeCredential(pre, verified, up)
    PROVE  IssuedCredentialsStored'
<1>1. CASE UNCHANGED credVars
  BY <1>1, KeepsStored DEF credVars
<1>2. CASE \E rk, hmac \in BOOLEAN, protect \in ProtectInputs, rp \in Rps :
          LET c == nextCred + 1
              random == IF hmac THEN {StoredObject("credRandom", c)} ELSE {}
              resident == IF KeyLocation(rk) = "Internal"
                             THEN {StoredObject("credKey", c)} ELSE {}
          IN
          /\ PrecheckPassed(pre)
          /\ \E ps \in ParamLists : ChosenAlgorithm(ps) # "None"
          /\ nextCred < MaxCreds
          /\ \/ /\ protect = "Invalid" \/ ~up
                /\ response' = IF protect = "Invalid" THEN "InvalidParameter"
                                                      ELSE "OperationDenied"
                /\ storage' = storage \cup random
                /\ nextCred' = IF hmac THEN c ELSE nextCred
                /\ IF hmac /\ ~rk THEN UseKek
                                  ELSE UNCHANGED <<key_encryption_key, keks>>
                /\ UNCHANGED <<issued, flags>>
             \/ /\ protect # "Invalid" /\ up
                /\ response' = "Ok"
                /\ storage' = storage \cup random \cup resident
                                      \cup {StoredObject("blob", c)}
                /\ nextCred' = c
                /\ UseKek
                /\ issued' = issued \cup {[cred |-> c, rp |-> rp, rk |-> rk,
                                           kek |-> KekReady, boot |-> boots,
                                           protect |-> PolicyOf(protect)]}
                /\ flags' = {"UP", "AT"}
                            \cup (IF pre = "UV" THEN {"UV"} ELSE {})
                            \cup (IF hmac \/ PolicyOf(protect) # "Optional"
                                    THEN {"ED"} ELSE {})
  <2>1. PICK rk \in BOOLEAN, hmac \in BOOLEAN, protect \in ProtectInputs,
             rp \in Rps :
          LET c == nextCred + 1
              random == IF hmac THEN {StoredObject("credRandom", c)} ELSE {}
              resident == IF KeyLocation(rk) = "Internal"
                             THEN {StoredObject("credKey", c)} ELSE {}
          IN
          \/ /\ storage' = storage \cup random
             /\ UNCHANGED issued
          \/ /\ storage' = storage \cup random \cup resident
                                   \cup {StoredObject("blob", c)}
             /\ issued' = issued \cup {[cred |-> c, rp |-> rp, rk |-> rk,
                                        kek |-> KekReady, boot |-> boots,
                                        protect |-> PolicyOf(protect)]}
    BY <1>2
  <2>. DEFINE c == nextCred + 1
              random == IF hmac THEN {StoredObject("credRandom", c)} ELSE {}
              rec == [cred |-> c, rp |-> rp, rk |-> rk, kek |-> KekReady,
                      boot |-> boots, protect |-> PolicyOf(protect)]
  <2>2. CASE storage' = storage \cup random /\ UNCHANGED issued
    BY <2>2, RefusalKeepsStored
  <2>3. CASE /\ storage' = storage \cup random
                             \cup (IF KeyLocation(rk) = "Internal"
                                     THEN {StoredObject("credKey", c)} ELSE {})
                             \cup {StoredObject("blob", c)}
             /\ issued' = issued \cup {rec}
    <3>1. rec.cred = c /\ rec.rk = rk
      OBVIOUS
    <3>. QED
      BY <2>3, <3>1, IssueKeepsStored
  <2>. QED
    BY <2>1, <2>2, <2>3
<1>. QED
  BY <1>1, <1>2 DEF MakeCredential

\* One poll() that serves a request of any kind keeps the invariant.
LEMMA ServeKeepsStored ==
    ASSUME IssuedCredentialsStored, Poll
    PROVE  IssuedCredentialsStored'
<1>1. CASE PollIdleStep
  BY <1>1, KeepsStored DEF PollIdleStep, credVars
<1>2. CASE Serve("ClientPin", ClientPin)
  BY <1>2, KeepsStored DEF Serve, ClientPin, credVars
<1>3. CASE Serve("GetInfo", GetInfo)
  BY <1>3, KeepsStored DEF Serve, GetInfo, credVars
<1>4. CASE Serve("OtherCtap2", Unsupported) \/ Serve("Ctap1", Unsupported)
  BY <1>4, KeepsStored DEF Serve, Unsupported, credVars
<1>5. CASE \E o \in PrecheckOutcomes :
             Serve("MakeCredential", MakeCredential(o[1], o[2], o[3]))
  BY <1>5, MakeCredentialKeepsStored DEF Serve
<1>6. CASE \E o \in PrecheckOutcomes :
             Serve("GetAssertion", GetAssertion(o[1], o[2]))
  BY <1>6, KeepsStored DEF Serve, GetAssertion
<1>. QED
  BY <1>1, <1>2, <1>3, <1>4, <1>5, <1>6 DEF Poll

\* IssuedCredentialsStored is inductive as it stands.
LEMMA StoredInductive ==
    ASSUME IssuedCredentialsStored, [AuthNext]_allVars
    PROVE  IssuedCredentialsStored'
<1>1. CASE Poll
  BY <1>1, ServeKeepsStored
<1>2. CASE HostSend \/ HostReceive \/ AuthReboot \/ UNCHANGED allVars
  BY <1>2, KeepsStored DEF HostSend, HostReceive, AuthReboot, allVars,
                           credVars
<1>. QED
  BY <1>1, <1>2 DEF AuthNext

\* Theorem for the run authenticator (property IssuedCredentialsStored):
\* through every sequence of requests and power cycles, each credential the
\* platform received keeps its blob, and a resident one its private key, in
\* internal storage.
THEOREM IssuedStoredHolds == AuthSpec => []IssuedCredentialsStored
<1>1. AuthInit => IssuedCredentialsStored
  BY DEF AuthInit, IssuedCredentialsStored
<1>. QED
  BY <1>1, StoredInductive, PTL DEF AuthSpec

-----------------------------------------------------------------------------
(* A PIN token handed out before a power cycle is never honoured after it. *)
(* Authenticator::new forgets pin_token, and the token verify_pin() or     *)
(* GetPinToken creates lazily afterwards is a fresh handle, distinct from  *)
(* the one the platform still holds.  StaleTokenRevoked is the inductive   *)
(* invariant behind UvOnlyWithTokenOfThisBoot.                             *)

StaleTokenRevoked ==
    hostTokenBoot # boots => hostToken = NoHandle \/ hostToken # pin_token

\* The token pin_token() returns is the stored one, or one the platform
\* does not hold.
LEMMA TokenReadyFresh ==
    pin_token = NoHandle => PinTokenReady # hostToken
<1>1. Used \cup {KakReady} \subseteq
        {key_agreement_key, pin_token, hostKak, hostToken, KakReady}
  BY DEF Used
<1>2. NewHandle(Used \cup {KakReady}) \notin Used \cup {KakReady}
  BY <1>1, NewHandleFresh
<1>. QED
  BY <1>2 DEF PinTokenReady, Used

\* A poll() step keeps the invariant when it sets pin_token to pin_token()
\* or leaves it, and hands the platform the new token or nothing.
LEMMA TokenStep ==
    ASSUME StaleTokenRevoked,
           pin_token' \in {pin_token, PinTokenReady},
           hostToken' \in {hostToken, pin_token'},
           boots' = boots,
           hostTokenBoot' = IF hostToken' # hostToken THEN boots
                                                      ELSE hostTokenBoot
    PROVE  StaleTokenRevoked'
<1>1. CASE hostToken' # hostToken
  BY <1>1 DEF StaleTokenRevoked
<1>2. CASE hostToken' = hostToken
  <2>1. SUFFICES ASSUME hostTokenBoot # boots, hostToken # NoHandle
                 PROVE  hostToken # pin_token'
    BY <1>2 DEF StaleTokenRevoked
  <2>2. hostToken # pin_token
    BY <2>1 DEF StaleTokenRevoked
  <2>3. pin_token = NoHandle => PinTokenReady # hostToken
    BY TokenReadyFresh
  <2>. QED
    BY <2>2, <2>3 DEF PinTokenReady
<1>. QED
  BY <1>1, <1>2

\* Every ClientPin subcommand leaves both tokens, or hands out pin_token().
LEMMA ClientPinTokens ==
    ASSUME ClientPin
    PROVE  /\ pin_token' \in {pin_token, PinTokenReady}
           /\ hostToken' \in {hostToken, pin_token'}
<1>1. CASE BadProtocol \/ GetRetries \/ GetKeyAgreement
  BY <1>1 DEF BadProtocol, GetRetries, GetKeyAgreement, hostVars
<1>2. CASE \E p, m \in BOOLEAN, n \in NewPinInputs : SetPin(p, m, n)
  BY <1>2 DEF SetPin, hostVars
<1>3. CASE \E p, m \in BOOLEAN, e \in PinHashInputs, n \in NewPinInputs :
             ChangePin(p, m, e, n)
  BY <1>3 DEF ChangePin, hostVars
<1>4. CASE \E p \in BOOLEAN, e \in PinHashInputs : GetPinToken(p, e)
  BY <1>4 DEF GetPinToken, PinTokenReady
<1>. QED
  BY <1>1, <1>2, <1>3, <1>4 DEF ClientPin

\* Every step of the composed authenticator keeps the invariant.
LEMMA TokenInductive ==
    ASSUME StaleTokenRevoked, [AuthNext]_allVars
    PROVE  StaleTokenRevoked'
<1>1. CASE Serve("ClientPin", ClientPin)
  BY <1>1, ClientPinTokens, TokenStep DEF Serve
<1>2. CASE Serve("GetInfo", GetInfo) \/ Serve("OtherCtap2", Unsupported)
           \/ Serve("Ctap1", Unsupported)
  BY <1>2, TokenStep DEF Serve, GetInfo, Unsupported, hostVars
<1>3. CASE \E o \in PrecheckOutcomes :
             Serve("MakeCredential", MakeCredential(o[1], o[2], o[3]))
  BY <1>3, TokenStep DEF Serve, MakeCredential, hostVars
<1>4. CASE \E o \in PrecheckOutcomes :
             Serve("GetAssertion", GetAssertion(o[1], o[2]))
  BY <1>4, TokenStep DEF Serve, GetAssertion, hostVars
<1>5. CASE PollIdleStep \/ HostSend \/ HostReceive \/ UNCHANGED allVars
  BY <1>5 DEF PollIdleStep, PollIdle, HostSend, HostReceive, allVars, vars,
              queueVars, hostVars, StaleTokenRevoked
<1>6. CASE AuthReboot
  BY <1>6 DEF AuthReboot, Reboot, StaleTokenRevoked
<1>. QED
  BY <1>1, <1>2, <1>3, <1>4, <1>5, <1>6 DEF AuthNext, Poll

\* pin_prechecks() never answers Ok: it returns an error, or Ok(true) or
\* Ok(false) to the handler.
LEMMA PrecheckNotOk ==
    ASSUME NEW o \in PrecheckOutcomes
    PROVE  o[1] # "Ok"
<1>1. PICK pa \in PinAuthInputs, proto \in BOOLEAN, uvOpt \in BOOLEAN,
           up \in BOOLEAN :
        o = <<PrecheckResult(pa, proto, uvOpt, up), ReachesVerify(pa, proto),
              up>>
  BY DEF PrecheckOutcomes
<1>. QED
  BY <1>1 DEF PrecheckResult

\* pin_prechecks() returns Ok(true) only when verify_pin() accepted the tag
\* the platform computed with the token it holds.
LEMMA PrecheckUvMatches ==
    ASSUME NEW o \in PrecheckOutcomes, o[1] = "UV"
    PROVE  hostToken = PinTokenReady
<1>1. PICK pa \in PinAuthInputs, proto \in BOOLEAN, uvOpt \in BOOLEAN,
           up \in BOOLEAN :
        o = <<PrecheckResult(pa, proto, uvOpt, up), ReachesVerify(pa, proto),
              up>>
  BY DEF PrecheckOutcomes
<1>2. TokenMatches(pa)
  BY <1>1 DEF PrecheckResult
<1>. QED
  BY <1>2 DEF TokenMatches

\* A MakeCredential answered Ok with the UV flag passed pin_prechecks with
\* Ok(true).
LEMMA MakeCredentialUv ==
    ASSUME NEW o \in PrecheckOutcomes,
           MakeCredential(o[1], o[2], o[3]),
           response' = "Ok", "UV" \in flags'
    PROVE  o[1] = "UV"
<1>1. o[1] # "Ok"
  BY PrecheckNotOk
<1>. QED
  BY <1>1 DEF MakeCredential

\* A token the platform matches against pin_token() was handed out in the
\* current power cycle.
LEMMA MatchedTokenCurrent ==
    ASSUME StaleTokenRevoked, hostToken = PinTokenReady
    PROVE  hostToken # NoHandle /\ hostTokenBoot = boots
<1>1. pin_token # NoHandle
  BY TokenReadyFresh
<1>2. hostToken = pin_token
  BY <1>1 DEF PinTokenReady
<1>. QED
  BY <1>1, <1>2 DEF StaleTokenRevoked

\* The only step that answers a MakeCredential with Ok and UV.
LEMMA UvStep ==
    ASSUME StaleTokenRevoked, [AuthNext]_allVars,
           reqQ = <<"MakeCredential">>, reqQ' = <<>>,
           response' = "Ok", "UV" \in flags'
    PROVE  hostToken # NoHandle /\ hostTokenBoot = boots
<1>1. CASE \E o \in PrecheckOutcomes :
             Serve("MakeCredential", MakeCredential(o[1], o[2], o[3]))
  <2>1. PICK o \in PrecheckOutcomes : MakeCredential(o[1], o[2], o[3])
    BY <1>1 DEF Serve
  <2>2. o[1] = "UV"
    BY <2>1, MakeCredentialUv
  <2>. QED
    BY <2>2, PrecheckUvMatches, MatchedTokenCurrent
<1>2. CASE \/ Serve("ClientPin", ClientPin) \/ Serve("GetInfo", GetInfo)
           \/ Serve("OtherCtap2", Unsupported) \/ Serve("Ctap1", Unsupported)
           \/ \E o \in PrecheckOutcomes :
                Serve("GetAssertion", GetAssertion(o[1], o[2]))
  BY <1>2 DEF Serve
<1>3. CASE PollIdleStep \/ HostSend \/ HostReceive \/ AuthReboot
           \/ UNCHANGED allVars
  BY <1>3 DEF PollIdleStep, HostSend, HostReceive, AuthReboot, Reboot,
              allVars, queueVars
<1>. QED
  BY <1>1, <1>2, <1>3 DEF AuthNext, Poll

\* Theorem for the run authenticator (property UvOnlyWithTokenOfThisBoot):
\* a MakeCredential gets the UV flag only with a pinAuth made with a PIN
\* token the platform received in the current power cycle, for any number
\* of power cycles.
THEOREM UvTokenCurrent == AuthSpec => UvOnlyWithTokenOfThisBoot
<1>1. AuthInit => StaleTokenRevoked
  BY DEF AuthInit, StaleTokenRevoked
<1>2. StaleTokenRevoked /\ [AuthNext]_allVars
        => [(/\ reqQ = <<"MakeCredential">> /\ reqQ' = <<>>
             /\ response' = "Ok" /\ "UV" \in flags')
              => hostToken # NoHandle /\ hostTokenBoot = boots]_allVars
  BY UvStep
<1>. QED
  BY <1>1, <1>2, TokenInductive, PTL DEF AuthSpec, UvOnlyWithTokenOfThisBoot

-----------------------------------------------------------------------------
(* The composed authenticator still implements the PIN gate PinLockout.    *)
(* client_pin() is a step of PinProtocol, so LockoutStep applies to it.    *)
(* make_credential and get_assertion run verify_pin(), which creates       *)
(* pin_token lazily: a token made that way is one the platform does not    *)
(* hold, so no token becomes honoured, and no counter or PIN changes.      *)

\* A step that leaves the platform's token and sets pin_token to
\* pin_token() or keeps it neither grants nor revokes a token.
LEMMA GrantedKept ==
    ASSUME pin_token' \in {pin_token, PinTokenReady}, hostToken' = hostToken
    PROVE  Granted' = Granted
<1>1. pin_token = NoHandle => PinTokenReady # hostToken
  BY TokenReadyFresh
<1>. QED
  BY <1>1 DEF Granted, PinTokenReady

\* A handler other than client_pin() is a stutter of the gate.
LEMMA HandlerStutters ==
    ASSUME pin_token' \in {pin_token, PinTokenReady},
           UNCHANGED <<retries, consecutive_pin_mismatches, pin_hash, hostVars>>
    PROVE  UNCHANGED Lockout!lockoutVars
<1>1. Granted' = Granted
  BY GrantedKept DEF hostVars
<1>. QED
  BY <1>1 DEF Lockout!lockoutVars, RetriesReady, PinIsSet

\* Every step of the composed authenticator is a step of PinLockout or
\* leaves retries(), pin_is_set() and the honoured token alone.
LEMMA AuthLockoutStep ==
    ASSUME AuthTypeInv, [AuthNext]_allVars
    PROVE  [Lockout!LockoutNext]_Lockout!lockoutVars
<1>1. CASE Serve("ClientPin", ClientPin)
  <2>1. Next
    BY <1>1 DEF Serve, ClientPin, Next
  <2>. QED
    BY <2>1, LockoutStep DEF AuthTypeInv
<1>2. CASE PollIdleStep
  BY <1>2, LockoutStep DEF PollIdleStep, Next, AuthTypeInv
<1>3. CASE AuthReboot
  BY <1>3, LockoutStep DEF AuthReboot, Next, AuthTypeInv
<1>4. CASE Serve("GetInfo", GetInfo) \/ Serve("OtherCtap2", Unsupported)
           \/ Serve("Ctap1", Unsupported)
  BY <1>4, HandlerStutters DEF Serve, GetInfo, Unsupported
<1>5. CASE \E o \in PrecheckOutcomes :
             Serve("MakeCredential", MakeCredential(o[1], o[2], o[3]))
  BY <1>5, HandlerStutters DEF Serve, MakeCredential
<1>6. CASE \E o \in PrecheckOutcomes :
             Serve("GetAssertion", GetAssertion(o[1], o[2]))
  BY <1>6, HandlerStutters DEF Serve, GetAssertion
<1>7. CASE HostSend \/ HostReceive \/ UNCHANGED allVars
  <2>1. UNCHANGED <<retries, consecutive_pin_mismatches, pin_hash, pin_token,
                    hostToken>>
    BY <1>7 DEF HostSend, HostReceive, allVars, vars
  <2>. QED
    BY <2>1 DEF Lockout!lockoutVars, RetriesReady, PinIsSet, Granted
<1>. QED
  BY <1>1, <1>2, <1>3, <1>4, <1>5, <1>6, <1>7 DEF AuthNext, Poll

\* Theorem for the run authenticator (property LockoutRefined): with
\* make_credential and get_assertion beside client_pin, the authenticator
\* still implements the abstract PIN gate: pinAuth checks never grant a
\* token, charge or restore a retry, or set a PIN, and Authenticator::new
\* still forgets PIN, retries and token.
THEOREM AuthLockoutRefinement == AuthSpec => LockoutRefined
<1>1. AuthInit => Lockout!LockoutInit
  BY DEF AuthInit, Init, Lockout!LockoutInit, RetriesReady, RetriesUnset,
         PinIsSet, Granted, NoHandle
<1>2. AuthTypeInv /\ [AuthNext]_allVars
        => [Lockout!LockoutNext]_Lockout!lockoutVars
  BY AuthLockoutStep
<1>. QED
  BY <1>1, <1>2, AuthTypeInvHolds, PTL DEF AuthSpec, LockoutRefined,
     Lockout!LockoutSpec

-----------------------------------------------------------------------------
(* The response queue never overflows.  The platform hands over a request *)
(* only when both queues are empty, and poll() dequeues it before it       *)
(* enqueues the answer, so a request waiting means an empty response       *)
(* queue: OneInFlight, the inductive invariant behind HaltOnlyOnPanic.     *)

OneInFlight ==
    /\ reqQ # <<>> => respQ = <<>>
    /\ HaltOnlyOnPanic

\* One poll() that serves a request: it finds the response queue empty, so
\* enqueue() fails only when the handler itself panicked.
LEMMA ServeInFlight ==
    ASSUME OneInFlight, ~halted, reqQ # <<>>, reqQ' = <<>>, Enqueue
    PROVE  OneInFlight'
<1>1. Len(respQ) < RespQueueCap
  BY DEF OneInFlight, RespQueueCap
<1>2. halted' => response' = "Panic"
  BY <1>1 DEF Enqueue
<1>. QED
  BY <1>2 DEF OneInFlight, HaltOnlyOnPanic

LEMMA InFlightStep ==
    ASSUME OneInFlight, [AuthNext]_allVars
    PROVE  OneInFlight'
<1>1. CASE Serve("ClientPin", ClientPin) \/ Serve("GetInfo", GetInfo)
           \/ Serve("OtherCtap2", Unsupported) \/ Serve("Ctap1", Unsupported)
  BY <1>1, ServeInFlight DEF Serve
<1>2. CASE \E o \in PrecheckOutcomes :
             Serve("MakeCredential", MakeCredential(o[1], o[2], o[3]))
  BY <1>2, ServeInFlight DEF Serve
<1>3. CASE \E o \in PrecheckOutcomes :
             Serve("GetAssertion", GetAssertion(o[1], o[2]))
  BY <1>3, ServeInFlight DEF Serve
<1>4. CASE PollIdleStep
  BY <1>4 DEF PollIdleStep, queueVars, OneInFlight, HaltOnlyOnPanic
<1>5. CASE HostSend \/ HostReceive \/ UNCHANGED allVars
  BY <1>5 DEF HostSend, HostReceive, allVars, vars, queueVars, OneInFlight,
              HaltOnlyOnPanic
<1>6. CASE AuthReboot
  BY <1>6 DEF AuthReboot, OneInFlight, HaltOnlyOnPanic
<1>. QED
  BY <1>1, <1>2, <1>3, <1>4, <1>5, <1>6 DEF AuthNext, Poll

\* Theorem for the run authenticator (property HaltOnlyOnPanic): with a
\* platform that keeps one request in flight, the .expect("internal
\* error") of respond() never fires on a full queue; the authenticator
\* halts only on a handler's panic (the todo!() of get_assertion).
THEOREM NoQueueOverflow == AuthSpec => []HaltOnlyOnPanic
<1>1. AuthInit => OneInFlight
  BY DEF AuthInit, OneInFlight, HaltOnlyOnPanic
<1>2. OneInFlight => HaltOnlyOnPanic
  BY DEF OneInFlight
<1>. QED
  BY <1>1, <1>2, InFlightStep, PTL DEF AuthSpec

-----------------------------------------------------------------------------
(* The PIN counters in the composition.  Only client_pin() and             *)
(* Authenticator::new touch retries, the mismatch count and the PIN:       *)
(* pin_prechecks() of make_credential and get_assertion neither charges    *)
(* nor restores a retry.  So the theorems of PinProtocolProofs carry over. *)

\* A handler other than client_pin() leaves the PIN counters, the PIN and
\* the platform's token alone; client_pin(), idle polls and reboots are
\* steps of PinProtocol.
LEMMA PinStepOrKept ==
    ASSUME [AuthNext]_allVars
    PROVE  \/ Next
           \/ UNCHANGED <<retries, consecutive_pin_mismatches, pin_hash,
                          hostToken>>
<1>1. CASE Serve("ClientPin", ClientPin)
  BY <1>1 DEF Serve, ClientPin, Next
<1>2. CASE PollIdleStep \/ AuthReboot
  BY <1>2 DEF PollIdleStep, AuthReboot, Next
<1>3. CASE \/ Serve("GetInfo", GetInfo) \/ Serve("OtherCtap2", Unsupported)
           \/ Serve("Ctap1", Unsupported)
           \/ \E o \in PrecheckOutcomes :
                Serve("MakeCredential", MakeCredential(o[1], o[2], o[3]))
           \/ \E o \in PrecheckOutcomes :
                Serve("GetAssertion", GetAssertion(o[1], o[2]))
  BY <1>3 DEF Serve, GetInfo, Unsupported, MakeCredential, GetAssertion,
              hostVars
<1>4. CASE HostSend \/ HostReceive \/ UNCHANGED allVars
  BY <1>4 DEF HostSend, HostReceive, allVars, vars
<1>. QED
  BY <1>1, <1>2, <1>3, <1>4 DEF AuthNext, Poll

\* Theorem for the run pin_protocol's RetryAccounting, in the composed
\* authenticator: with make_credential and get_assertion beside client_pin,
\* retries + consecutive_pin_mismatches = 8 once retries() is initialised.
THEOREM AuthRetryAccounting == AuthSpec => []RetryAccounting
<1>1. AuthInit => RetryAccounting
  BY DEF AuthInit, Init, RetryAccounting
<1>2. AuthTypeInv /\ RetryAccounting /\ [AuthNext]_allVars
        => RetryAccounting'
  <2> SUFFICES ASSUME AuthTypeInv, RetryAccounting, [AuthNext]_allVars
               PROVE  RetryAccounting'
    OBVIOUS
  <2>1. CASE Next
    BY <2>1, AccountingStep DEF AuthTypeInv
  <2>2. CASE UNCHANGED <<retries, consecutive_pin_mismatches, pin_hash,
                         hostToken>>
    BY <2>2 DEF RetryAccounting
  <2>. QED
    BY <2>1, <2>2, PinStepOrKept
<1>. QED
  BY <1>1, <1>2, AuthTypeInvHolds, PTL DEF AuthSpec

\* Theorem for the run pin_protocol's PinBlockedIsTerminal, in the composed
\* authenticator: once a set PIN has no retries left, no request of any
\* kind revives the counter, changes the PIN or hands out a token; only a
\* power cycle does.
THEOREM AuthPinBlockedTerminal == AuthSpec => PinBlockedIsTerminal
<1>1. [AuthNext]_allVars => [retries = 0 /\ pin_hash # NoPin =>
                               \/ /\ retries' = 0
                                  /\ pin_hash' = pin_hash
                                  /\ hostToken' = hostToken
                               \/ retries' = RetriesUnset]_vars
  <2> SUFFICES ASSUME [AuthNext]_allVars
               PROVE  [retries = 0 /\ pin_hash # NoPin =>
                          \/ /\ retries' = 0
                             /\ pin_hash' = pin_hash
                             /\ hostToken' = hostToken
                          \/ retries' = RetriesUnset]_vars
    OBVIOUS
  <2>1. CASE Next
    BY <2>1, PinBlockedStep
  <2>2. CASE UNCHANGED <<retries, consecutive_pin_mismatches, pin_hash,
                         hostToken>>
    BY <2>2
  <2>. QED
    BY <2>1, <2>2, PinStepOrKept
<1>. QED
  BY <1>1, PTL DEF AuthSpec, PinBlockedIsTerminal

-----------------------------------------------------------------------------
(* The dispatcher's contract.  poll() dequeues the one request in flight   *)
(* and enqueues exactly one answer of the arm it routes the request to,   *)
(* into the response queue that OneInFlight shows empty, or panics; the    *)
(* platform and Authenticator::new are Request, Collect and Restart.       *)

\* A failing verification answers Other, InvalidCommand or an escalation.
LEMMA VerifyFailsAnswers ==
    ASSUME NEW enc, VerifyFails(enc)
    PROVE  response' \in Responses \ {"None"}
BY DEF VerifyFails, EscalationError, Responses

\* client_pin() answers with a PIN protocol response, never the "None" of
\* an idle poll().
LEMMA ClientPinAnswers ==
    ASSUME ClientPin
    PROVE  response' \in AnswersTo["ClientPin"]
<1>1. response' \in Responses \ {"None"}
  <2>1. CASE BadProtocol \/ GetRetries \/ GetKeyAgreement
    BY <2>1 DEF BadProtocol, GetRetries, GetKeyAgreement, Responses
  <2>2. ASSUME NEW p \in BOOLEAN, NEW m \in BOOLEAN, NEW n \in NewPinInputs,
               SetPin(p, m, n)
        PROVE  response' \in Responses \ {"None"}
    BY <2>2 DEF SetPin, NewPinError, Responses
  <2>3. ASSUME NEW p \in BOOLEAN, NEW m \in BOOLEAN, NEW e \in PinHashInputs,
               NEW n \in NewPinInputs, ChangePin(p, m, e, n)
        PROVE  response' \in Responses \ {"None"}
    BY <2>3, VerifyFailsAnswers DEF ChangePin, NewPinError, Responses
  <2>4. ASSUME NEW p \in BOOLEAN, NEW e \in PinHashInputs, GetPinToken(p, e)
        PROVE  response' \in Responses \ {"None"}
    BY <2>4, VerifyFailsAnswers DEF GetPinToken, Responses
  <2>. QED
    BY <2>1, <2>2, <2>3, <2>4 DEF ClientPin
<1>. QED
  BY <1>1 DEF AnswersTo, Kinds

\* An error of pin_prechecks() is one of PrecheckErrors.
LEMMA PrecheckErrorsOf ==
    ASSUME NEW o \in PrecheckOutcomes, ~PrecheckPassed(o[1])
    PROVE  o[1] \in PrecheckErrors
<1>1. PICK pa \in PinAuthInputs, proto \in BOOLEAN, uvOpt \in BOOLEAN,
           up \in BOOLEAN :
        o = <<PrecheckResult(pa, proto, uvOpt, up), ReachesVerify(pa, proto),
              up>>
  BY DEF PrecheckOutcomes
<1>. QED
  BY <1>1 DEF PrecheckResult, PrecheckPassed, PrecheckErrors

LEMMA MakeCredentialAnswers ==
    ASSUME NEW o \in PrecheckOutcomes, MakeCredential(o[1], o[2], o[3])
    PROVE  response' \in AnswersTo["MakeCredential"]
BY PrecheckErrorsOf DEF MakeCredential, AnswersTo, Kinds, PrecheckErrors

LEMMA GetAssertionAnswers ==
    ASSUME NEW o \in PrecheckOutcomes, GetAssertion(o[1], o[2])
    PROVE  response' \in AnswersTo["GetAssertion"] \cup {"Panic"}
BY PrecheckErrorsOf DEF GetAssertion, AnswersTo, Kinds

\* One poll() that serves a request of kind k whose handler answered within
\* the contract (or panicked) is a Respond or a Crash of the contract.
LEMMA ServeContract ==
    ASSUME QueueTypeOK, OneInFlight, NEW k \in Kinds, ~halted,
           reqQ = <<k>>, reqQ' = <<>>, Enqueue, boots' = boots,
           response' \in AnswersTo[k] \cup {"Panic"}
    PROVE  Dispatch!Respond \/ Dispatch!Crash
<1>1. respQ = <<>>
  BY DEF OneInFlight
<1>2. k # "NoRequest"
  BY DEF Kinds
<1>3. CASE response' # "Panic"
  <2>1. respQ' = <<response'>> /\ halted' = halted
    BY <1>1, <1>3 DEF Enqueue, RespQueueCap
  <2>2. response' \in AnswersTo[k]
    BY <1>3
  <2>. QED
    BY <1>1, <1>2, <2>1, <2>2 DEF Dispatch!Respond
<1>4. CASE response' = "Panic"
  <2>1. respQ' = respQ /\ halted' = TRUE
    BY <1>4 DEF Enqueue
  <2>. QED
    BY <1>1, <1>2, <2>1 DEF Dispatch!Crash
<1>. QED
  BY <1>3, <1>4

\* Every step of the composed authenticator is a step of the contract or
\* leaves both queues and the halt flag alone.
LEMMA DispatchStep ==
    ASSUME AuthTypeInv, OneInFlight, [AuthNext]_allVars
    PROVE  [Dispatch!ContractNext]_Dispatch!contractVars
<1>0. QueueTypeOK
  BY DEF AuthTypeInv
<1>1. CASE Serve("ClientPin", ClientPin)
  BY <1>0, <1>1, ClientPinAnswers, ServeContract
     DEF Serve, Kinds, Dispatch!ContractNext
<1>2. CASE Serve("GetInfo", GetInfo)
  <2>1. response' \in AnswersTo["GetInfo"]
    BY <1>2 DEF Serve, GetInfo, AnswersTo, Kinds
  <2>. QED
    BY <1>0, <1>2, <2>1, ServeContract DEF Serve, Kinds, Dispatch!ContractNext
<1>3. CASE Serve("OtherCtap2", Unsupported) \/ Serve("Ctap1", Unsupported)
  <2>1. response' = "InvalidCommand"
    BY <1>3 DEF Serve, Unsupported
  <2>2. /\ "InvalidCommand" \in AnswersTo["OtherCtap2"]
        /\ "InvalidCommand" \in AnswersTo["Ctap1"]
    BY DEF AnswersTo, Kinds
  <2>. QED
    BY <1>0, <1>3, <2>1, <2>2, ServeContract
       DEF Serve, Kinds, Dispatch!ContractNext
<1>4. CASE \E o \in PrecheckOutcomes :
             Serve("MakeCredential", MakeCredential(o[1], o[2], o[3]))
  BY <1>0, <1>4, MakeCredentialAnswers, ServeContract
     DEF Serve, Kinds, Dispatch!ContractNext
<1>5. CASE \E o \in PrecheckOutcomes :
             Serve("GetAssertion", GetAssertion(o[1], o[2]))
  BY <1>0, <1>5, GetAssertionAnswers, ServeContract
     DEF Serve, Kinds, Dispatch!ContractNext
<1>6. CASE PollIdleStep \/ UNCHANGED allVars
  BY <1>6 DEF PollIdleStep, allVars, queueVars, Dispatch!contractVars
<1>7. CASE HostSend
  <2>1. PICK k \in Kinds : reqQ' = <<k>>
    BY <1>7 DEF HostSend
  <2>. QED
    BY <1>7, <2>1 DEF HostSend, Dispatch!Request, Dispatch!ContractNext
<1>8. CASE HostReceive
  <2>1. PICK r \in AuthResponses : respQ = <<r>>
    BY <1>0, <1>8 DEF HostReceive, QueueTypeOK
  <2>2. r # "NoAnswer"
    BY DEF AuthResponses, Responses
  <2>. QED
    BY <1>8, <2>1, <2>2 DEF HostReceive, Dispatch!Collect,
                            Dispatch!ContractNext
<1>9. CASE AuthReboot
  BY <1>9 DEF AuthReboot, Dispatch!Restart, Dispatch!ContractNext
<1>. QED
  BY <1>1, <1>2, <1>3, <1>4, <1>5, <1>6, <1>7, <1>8, <1>9 DEF AuthNext, Poll

\* Theorem for the run authenticator (property DispatchRefined): poll()
\* keeps the dispatcher's contract for every number of power cycles: one
\* answer per dequeued request, from the arm its kind is routed to, into a
\* free response queue, or a panic; no answer without a request.
THEOREM DispatchRefinement == AuthSpec => DispatchRefined
<1>1. AuthInit => Dispatch!ContractInit
  BY DEF AuthInit, Dispatch!ContractInit
<1>2. AuthSpec => []OneInFlight
  <2>1. AuthInit => OneInFlight
    BY DEF AuthInit, OneInFlight, HaltOnlyOnPanic
  <2>. QED
    BY <2>1, InFlightStep, PTL DEF AuthSpec
<1>. QED
  BY <1>1, <1>2, AuthTypeInvHolds, DispatchStep, PTL
     DEF AuthSpec, DispatchRefined, Dispatch!ContractSpec

-----------------------------------------------------------------------------
(* The mismatch rotation in the composition.  Only client_pin() answers    *)
(* PinInvalid or PinAuthBlocked: the other arms answer within AnswersTo,   *)
(* which holds neither, and the platform's steps keep the keys.            *)

\* No arm of poll() but client_pin's answers a PIN mismatch.
LEMMA OtherArmsNoMismatch ==
    /\ AnswersTo["MakeCredential"] \cap {"PinInvalid", "PinAuthBlocked"} = {}
    /\ AnswersTo["GetAssertion"] \cap {"PinInvalid", "PinAuthBlocked"} = {}
BY DEF AnswersTo, Kinds, PrecheckErrors

LEMMA AuthStaleStep ==
    ASSUME AuthTypeInv, StaleAfterMismatch, [AuthNext]_allVars
    PROVE  StaleAfterMismatch'
<1>1. CASE Serve("ClientPin", ClientPin) \/ PollIdleStep \/ AuthReboot
  <2>1. Next
    BY <1>1 DEF Serve, ClientPin, PollIdleStep, AuthReboot, Next
  <2>. QED
    BY <2>1, StaleAfterMismatchStep DEF AuthTypeInv
<1>2. CASE Serve("GetInfo", GetInfo) \/ Serve("OtherCtap2", Unsupported)
           \/ Serve("Ctap1", Unsupported)
  BY <1>2 DEF Serve, GetInfo, Unsupported, StaleAfterMismatch
<1>3. CASE \E o \in PrecheckOutcomes :
             Serve("MakeCredential", MakeCredential(o[1], o[2], o[3]))
  BY <1>3, MakeCredentialAnswers, OtherArmsNoMismatch
     DEF Serve, StaleAfterMismatch
<1>4. CASE \E o \in PrecheckOutcomes :
             Serve("GetAssertion", GetAssertion(o[1], o[2]))
  BY <1>4, GetAssertionAnswers, OtherArmsNoMismatch
     DEF Serve, StaleAfterMismatch
<1>5. CASE HostSend \/ HostReceive \/ UNCHANGED allVars
  BY <1>5 DEF HostSend, HostReceive, allVars, vars, hostVars,
              StaleAfterMismatch
<1>. QED
  BY <1>1, <1>2, <1>3, <1>4, <1>5 DEF AuthNext, Poll

\* Theorem for the run pin_protocol's MismatchInvalidatesSecret, in the
\* composed authenticator: a request answered PinInvalid or PinAuthBlocked
\* leaves the platform's shared secret stale, whatever make_credential,
\* get_assertion or the platform did before; rotate_key_agreement_key()
\* runs before the error is returned.
THEOREM AuthMismatchSecretStale == AuthSpec => MismatchInvalidatesSecret
<1>1. AuthInit => StaleAfterMismatch
  BY DEF AuthInit, Init, StaleAfterMismatch
<1>2. AuthSpec => []StaleAfterMismatch
  BY <1>1, AuthStaleStep, AuthTypeInvHolds, PTL DEF AuthSpec
<1>3. StaleAfterMismatch /\ StaleAfterMismatch' =>
        (response' \in {"PinInvalid", "PinAuthBlocked"} =>
           hostKak' # key_agreement_key')
  BY DEF StaleAfterMismatch
<1>. QED
  BY <1>2, <1>3, PTL DEF MismatchInvalidatesSecret

-----------------------------------------------------------------------------
(* Credential IDs of an earlier power cycle are rejected.  A KEK is made   *)
(* at most once per power cycle and numbered after every earlier one, and  *)
(* a credential ID is sealed under the KEK of the cycle that issued it, so *)
(* an ID of an earlier cycle carries a smaller number than any KEK the     *)
(* current cycle has or will make.  IdsSealed is the inductive invariant;  *)
(* it also records that credential numbers are unique, since Decrypts      *)
(* looks an ID up by its number.                                           *)

IdsSealed ==
    /\ \A cr \in issued :
          /\ cr.kek \in 1..keks
          /\ cr.cred \in 1..nextCred
          /\ cr.boot < boots =>
                key_encryption_key = NoHandle \/ cr.kek < key_encryption_key
    /\ \A cr, cr2 \in issued : cr.cred = cr2.cred => cr = cr2

\* A step that issues nothing, at most makes the KEK of this power cycle
\* and at most takes credential numbers keeps the IDs sealed.
LEMMA KekOnlySealed ==
    ASSUME CredTypeOK, IdsSealed, issued' = issued, nextCred' \in Nat,
           nextCred' >= nextCred, boots' = boots,
           UseKek \/ UNCHANGED <<key_encryption_key, keks>>
    PROVE  IdsSealed'
<1>0. keks \in Nat /\ nextCred \in Nat
  BY DEF CredTypeOK, KekTypeOK
<1>1. CASE key_encryption_key = NoHandle /\ UseKek
  <2>1. key_encryption_key' = keks + 1 /\ keks' = keks + 1
    BY <1>1 DEF UseKek, KekReady
  <2>. QED
    BY <1>0, <2>1 DEF IdsSealed
<1>2. CASE ~(key_encryption_key = NoHandle /\ UseKek)
  <2>1. key_encryption_key' = key_encryption_key /\ keks' = keks
    BY <1>2 DEF UseKek, KekReady
  <2>. QED
    BY <1>0, <2>1 DEF IdsSealed
<1>. QED
  BY <1>1, <1>2

\* make_credential's success: the new ID takes the next number and the KEK
\* of this power cycle.
LEMMA IssueSealed ==
    ASSUME CredTypeOK, IdsSealed, boots \in Nat, boots' = boots, NEW rec,
           rec.cred = nextCred + 1, rec.kek = KekReady, rec.boot = boots,
           issued' = issued \cup {rec}, nextCred' = nextCred + 1, UseKek
    PROVE  IdsSealed'
<1>0. /\ keks \in Nat /\ nextCred \in Nat
      /\ key_encryption_key # NoHandle => key_encryption_key = keks
  BY DEF CredTypeOK, KekTypeOK, KekCount
<1>1. /\ \A cr \in issued : cr.kek \in 1..keks' /\ cr.cred \in 1..nextCred'
      /\ \A cr \in issued :
            cr.boot < boots' =>
              key_encryption_key' = NoHandle \/ cr.kek < key_encryption_key'
      /\ rec.kek \in 1..keks'
  <2>1. CASE key_encryption_key = NoHandle
    <3>1. key_encryption_key' = keks + 1 /\ keks' = keks + 1
          /\ rec.kek = keks + 1
      BY <2>1 DEF UseKek, KekReady
    <3>. QED
      BY <1>0, <3>1 DEF IdsSealed
  <2>2. CASE key_encryption_key # NoHandle
    <3>1. key_encryption_key' = key_encryption_key /\ keks' = keks
          /\ rec.kek = key_encryption_key
      BY <2>2 DEF UseKek, KekReady
    <3>2. keks \in 1..keks
      BY <1>0, <2>2 DEF CredTypeOK, KekTypeOK, NoHandle
    <3>. QED
      BY <1>0, <2>2, <3>1, <3>2 DEF IdsSealed
  <2>. QED
    BY <2>1, <2>2
<1>2. rec.cred \in 1..nextCred' /\ ~(rec.boot < boots')
  BY <1>0
<1>3. \A cr \in issued : cr.cred # rec.cred
  BY <1>0 DEF IdsSealed
<1>. QED
  BY <1>1, <1>2, <1>3 DEF IdsSealed

\* Every make_credential keeps the IDs sealed.
LEMMA MakeCredentialSealed ==
    ASSUME CredTypeOK, IdsSealed, boots \in Nat, boots' = boots,
           NEW pre, NEW verified, NEW up,
           MakeCredential(pre, verified, up)
    PROVE  IdsSealed'
<1>0. nextCred \in Nat
  BY DEF CredTypeOK
<1>1. CASE UNCHANGED credVars
  BY <1>0, <1>1, KekOnlySealed DEF credVars
<1>2. CASE \E rk, hmac \in BOOLEAN, protect \in ProtectInputs, rp \in Rps :
          LET c == nextCred + 1
              random == IF hmac THEN {StoredObject("credRandom", c)} ELSE {}
              resident == IF KeyLocation(rk) = "Internal"
                             THEN {StoredObject("credKey", c)} ELSE {}
          IN
          /\ PrecheckPassed(pre)
          /\ \E ps \in ParamLists : ChosenAlgorithm(ps) # "None"
          /\ nextCred < MaxCreds
          /\ \/ /\ protect = "Invalid" \/ ~up
                /\ response' = IF protect = "Invalid" THEN "InvalidParameter"
                                                      ELSE "OperationDenied"
                /\ storage' = storage \cup random
                /\ nextCred' = IF hmac THEN c ELSE nextCred
                /\ IF hmac /\ ~rk THEN UseKek
                                  ELSE UNCHANGED <<key_encryption_key, keks>>
                /\ UNCHANGED <<issued, flags>>
             \/ /\ protect # "Invalid" /\ up
                /\ response' = "Ok"
                /\ storage' = storage \cup random \cup resident
                                      \cup {StoredObject("blob", c)}
                /\ nextCred' = c
                /\ UseKek
                /\ issued' = issued \cup {[cred |-> c, rp |-> rp, rk |-> rk,
                                           kek |-> KekReady, boot |-> boots,
                                           protect |-> PolicyOf(protect)]}
                /\ flags' = {"UP", "AT"}
                            \cup (IF pre = "UV" THEN {"UV"} ELSE {})
                            \cup (IF hmac \/ PolicyOf(protect) # "Optional"
                                    THEN {"ED"} ELSE {})
  <2>1. PICK rk \in BOOLEAN, hmac \in BOOLEAN, protect \in ProtectInputs,
             rp \in Rps :
          \/ /\ nextCred' \in {nextCred, nextCred + 1}
             /\ UseKek \/ UNCHANGED <<key_encryption_key, keks>>
             /\ UNCHANGED issued
          \/ /\ nextCred' = nextCred + 1
             /\ UseKek
             /\ issued' = issued \cup {[cred |-> nextCred + 1, rp |-> rp,
                                        rk |-> rk, kek |-> KekReady,
                                        boot |-> boots,
                                        protect |-> PolicyOf(protect)]}
    BY <1>2
  <2>2. CASE /\ nextCred' \in {nextCred, nextCred + 1}
             /\ UseKek \/ UNCHANGED <<key_encryption_key, keks>>
             /\ UNCHANGED issued
    BY <1>0, <2>2, KekOnlySealed
  <2>3. CASE /\ nextCred' = nextCred + 1
             /\ UseKek
             /\ issued' = issued \cup {[cred |-> nextCred + 1, rp |-> rp,
                                        rk |-> rk, kek |-> KekReady,
                                        boot |-> boots,
                                        protect |-> PolicyOf(protect)]}
    <3>. DEFINE rec == [cred |-> nextCred + 1, rp |-> rp, rk |-> rk,
                        kek |-> KekReady, boot |-> boots,
                        protect |-> PolicyOf(protect)]
    <3>1. rec.cred = nextCred + 1 /\ rec.kek = KekReady /\ rec.boot = boots
      OBVIOUS
    <3>. QED
      BY <2>3, <3>1, IssueSealed, Zenon
  <2>. QED
    BY <2>1, <2>2, <2>3
<1>. QED
  BY <1>1, <1>2 DEF MakeCredential

\* Every step of the authenticator and its platform keeps the IDs sealed.
LEMMA SealedStep ==
    ASSUME AuthTypeInv, IdsSealed, [AuthNext]_allVars
    PROVE  IdsSealed'
<1>0. CredTypeOK /\ nextCred \in Nat /\ boots \in Nat
  BY DEF AuthTypeInv, CredTypeOK, QueueTypeOK
<1>1. CASE \E o \in PrecheckOutcomes :
             Serve("MakeCredential", MakeCredential(o[1], o[2], o[3]))
  BY <1>0, <1>1, MakeCredentialSealed DEF Serve
<1>2. CASE \E o \in PrecheckOutcomes :
             Serve("GetAssertion", GetAssertion(o[1], o[2]))
  BY <1>0, <1>2, KekOnlySealed DEF Serve, GetAssertion
<1>3. CASE Serve("ClientPin", ClientPin)
  BY <1>0, <1>3, KekOnlySealed DEF Serve, ClientPin, credVars
<1>6. CASE Serve("GetInfo", GetInfo)
  BY <1>0, <1>6, KekOnlySealed DEF Serve, GetInfo, credVars
<1>7. CASE Serve("OtherCtap2", Unsupported) \/ Serve("Ctap1", Unsupported)
  BY <1>0, <1>7, KekOnlySealed DEF Serve, Unsupported, credVars
<1>8. CASE PollIdleStep
  BY <1>0, <1>8, KekOnlySealed DEF PollIdleStep, credVars, queueVars
<1>4. CASE HostSend \/ HostReceive \/ UNCHANGED allVars
  BY <1>0, <1>4, KekOnlySealed DEF HostSend, HostReceive, allVars, credVars,
                                   queueVars
<1>5. CASE AuthReboot
  BY <1>0, <1>5 DEF AuthReboot, IdsSealed
<1>. QED
  BY <1>1, <1>2, <1>3, <1>4, <1>5, <1>6, <1>7, <1>8 DEF AuthNext, Poll

\* A credential number names one ID only, and an ID of an earlier power
\* cycle is sealed under a KEK older than key_encryption_key().
LEMMA SealedRejects ==
    ASSUME CredTypeOK, IdsSealed
    PROVE  StaleIdsRejected
<1> SUFFICES ASSUME NEW cr \in issued, NEW rp \in Rps, cr.boot < boots,
                    Decrypts(cr.cred, rp)
             PROVE  FALSE
  BY DEF StaleIdsRejected
<1>1. PICK cr2 \in issued : cr2.cred = cr.cred /\ cr2.kek = KekReady
  BY DEF Decrypts
<1>2. cr2 = cr
  BY <1>1 DEF IdsSealed
<1>3. keks \in Nat
  BY DEF CredTypeOK, KekTypeOK
<1>. QED
  BY <1>1, <1>2, <1>3 DEF IdsSealed, KekReady

\* Theorem for the run authenticator (property StaleIdsRejected): for every
\* number of power cycles and credentials, an ID issued before the current
\* power cycle decrypts for no relying party, because key_encryption_key()
\* makes a new volatile KEK in each cycle.
THEOREM StaleIdsRejectedHolds == AuthSpec => []StaleIdsRejected
<1>1. AuthInit => IdsSealed
  BY DEF AuthInit, IdsSealed
<1>2. AuthSpec => []IdsSealed
  BY <1>1, SealedStep, AuthTypeInvHolds, PTL DEF AuthSpec
<1>3. AuthTypeInv /\ IdsSealed => StaleIdsRejected
  BY SealedRejects DEF AuthTypeInv
<1>. QED
  BY <1>2, <1>3, AuthTypeInvHolds, PTL

=============================================================================
