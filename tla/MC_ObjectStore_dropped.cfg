SPECIFICATION Spec
CONSTANTS
    Raws = 2
    Abstracts = 0
    KeyOf <- MCTwoKeys
    NoNode = 0
    MaxGivenUp = 1
PROPERTIES
    BacklogListsPushedOut
