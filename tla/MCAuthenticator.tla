-------------------------- MODULE MCAuthenticator --------------------------
(* Model-checking instance of Authenticator: one PIN (a wrong guess is the *)
(* undecryptable one; mismatches of two PINs are PinProtocol's runs), two  *)
(* relying parties (a credential ID presented for the other rp), one       *)
(* credential slot (an allow list can hold it, a tampered ID, both or      *)
(* neither) and one power cycle (a KEK and a PIN token lost).              *)
EXTENDS Authenticator

CONSTANTS p1, r1, r2

MCAuthPins == {p1}
MCRps == {r1, r2}
MCMaxCreds == 1
MCMaxBoots == 1
MCMaxHandles == 6
\* Attempts of the PIN in this instance: the retry accounting is checked by
\* the PinProtocol runs with the code's 8; here two attempts let the
\* platform fail once and still succeed, and exhaust the PIN.
MCPinRetriesMax == 2
\* The liveness run needs one relying party only.
MCOneRp == {r1}
MCOneRetry == 1
MCNoBoots == 0

=============================================================================
