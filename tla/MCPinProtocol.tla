--------------------------- MODULE MCPinProtocol ---------------------------
(* Model-checking instance of PinProtocol: two PINs (so that a guess can   *)
(* be right or wrong and a PIN can be changed) and six handles, the most   *)
(* an action can need (four referenced, two generated).                    *)
EXTENDS PinProtocol

CONSTANTS p1, p2

MCPins == {p1, p2}
MCMaxHandles == 6

=============================================================================
