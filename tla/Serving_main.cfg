SPECIFICATION FairSpec
CONSTANTS
    ApiPod = {a1, a2, a3}
    ModelPod = {m1, m2}
    Parts = 1
    Window = 2
    MaxFailing = 2
INVARIANTS
    TypeOK
PROPERTIES
    CapacityIsLostToFaultsOnly
    ServiceComesUp
    ApiRidesOutTheModel
