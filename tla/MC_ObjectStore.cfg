SPECIFICATION Spec
CONSTANTS
    Raws = 3
    Abstracts = 1
    KeyOf <- MCKeyOf
    NoNode = 0
    MaxGivenUp = 1
INVARIANTS
    TypeOK
    IndexesExact
PROPERTIES
    Atomic
    PersistedIsFound
    FirstWriterWins
