SPECIFICATION FairSpec
CONSTANTS
    Apps <- DevAndProd
    Automated <- OnlyDev
    HashOf <- ThreeRevisions
    MaxTrouble = 2
INVARIANTS TypeOK NoFalseAlarm StandingDriftReported
PROPERTY DriftGoes
