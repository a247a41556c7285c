CONSTANTS
    None = None
    Labels = {1, 2, 3}
    Pool <- MixedPool
    Questions <- ChainQuestions
    MaxProfiles = 3
SPECIFICATION Spec
INVARIANTS
    SiblingsInterchangeable
    HiddenChangesNoHead
