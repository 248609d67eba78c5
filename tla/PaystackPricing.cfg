SPECIFICATION FairSpec
CONSTANTS
    flatKobo = 3
    flatFromKobo = 100
    capKobo = 6
    Fee <- MCFee
CHECK_DEADLOCK FALSE
INVARIANTS
    SmallestTotal
PROPERTY
    SearchAnswers
