CONSTANTS
    Pins <- MCAuthPins
    Rps <- MCOneRp
    MaxHandles <- MCMaxHandles
    MaxCreds <- MCMaxCreds
    MaxBoots <- MCNoBoots
    PinRetriesMax <- MCOneRetry
    p1 = p1
    r1 = r1
    r2 = r2
    NoPin = NoPin
    Malformed = Malformed
    ShortPin = ShortPin

SPECIFICATION AuthSpec

\* A panicked authenticator stops (todo!() in locate_credentials).
CHECK_DEADLOCK FALSE

PROPERTY RequestAnsweredOrHalted
