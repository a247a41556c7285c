CONSTANTS
    None = None
    Labels = {1, 2, 3}
    Pool <- FormatPool
    Questions <- FormatQuestions
    MaxProfiles = 3
SPECIFICATION Spec
INVARIANTS
    FormatStaysOnAccount
