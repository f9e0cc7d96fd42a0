\* Two shells run the script at once while the API changes once.
SPECIFICATION Spec
CONSTANTS
    Deployer = {d1, d2}
    MaxEdits = 1
    MaxImages = 2
    None = None
INVARIANTS
    TypeOK
    PodsRunOneImage
    SignInClosedOnlyMidway
    SettledMeansUsable
SYMMETRY MCSymmetry
