CONSTANTS
    Pins <- MCPins
    MaxHandles <- MCMaxHandles
    p1 = p1
    p2 = p2
    NoPin = NoPin
    Malformed = Malformed
    ShortPin = ShortPin

SPECIFICATION Spec

PROPERTY PinHashPersists
