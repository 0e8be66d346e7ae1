SPECIFICATION Spec
CONSTANTS
    Groups = {1, 2, 3, 4}
    Relays = {4}
    NoLabel = NoLabel
    MaxNodes = 4
INVARIANT LabelingSound
