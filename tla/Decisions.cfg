CONSTANTS
    MaxLen = 3
    MaxSize = 2
    MaxTime = 2
    Policies <- SmallPolicies
    Width = 4
    MaxBackoff = 12
    MaxDuration = 100
    MaxUnsigned = 1000000
    MaxInt = 400000
    MaxSeconds = 200000
    RawSettings <- SmallSettings
    MaxRetry = 7
    Events <- Samples
    MatchSpecs <- SmallSpecs
    Configurations <- SmallConfigurations
    ChainIds <- FourIds
    Metadatas <- OptionalMetadata
SPECIFICATION Spec
INVARIANTS
    KeepsLongestFittingSuffix
    UndeliveredNeedHardBound
    BackoffDoublesToCap
    SettingsHonoured
    FiresInOrder
    ChainKeepsRoot
CHECK_DEADLOCK FALSE
