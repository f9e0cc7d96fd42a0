\* The script is interrupted, fails and is run again, without a bound.
SPECIFICATION FairSpec
INVARIANTS
    TypeOK
    StackOrder
PROPERTIES
    RunEnds
    ReRunsFinish
