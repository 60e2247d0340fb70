\* One block after another with a bad or a good view of it, and a panel found late.
SPECIFICATION FairSpec
CONSTANTS
    Sightings <- MCSightings
    Grips <- MCGrips
    Tolerance = 1
    Disturbance = 3
    MaxCorrection = 2
INVARIANTS
    NothingWithoutTheWord
    CorrectionCountsOnce
PROPERTIES
    AnswerIsOfThisWait
    AnswerIsHeard
