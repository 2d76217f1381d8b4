CONSTANTS
    Values = {v1, v2, v3}
    None = None
    Torn = Torn
    MaxDeaths = 3
SPECIFICATION SerializerSpec
PROPERTY ImplementsAtomicValue
