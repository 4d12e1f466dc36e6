CONSTANTS
    value1 = value1
    value2 = value2
SPECIFICATION Spec
\* a computation ends
CHECK_DEADLOCK FALSE
INVARIANTS
    EncodingsExact
    HashesExact
    SignaturesExact
PROPERTY
    ValuesOwned
