SPECIFICATION Spec
CONSTANTS
    Identifiers <- MCIdentifiers
    Numeric <- MCNumeric
    NumericValue <- MCNumericValue
    TextRank <- MCTextRank
    Builds <- MCBuilds
    Sources <- MCSources
    Place <- MCPlace
    OutputOf <- MCOutputOf
    Drafts <- MCDrafts
    Configs <- MCConfigs
    MaxBegun = 3
    Absent = Absent
    Broken = Broken
    Rootless = Rootless
    Torn = Torn
INVARIANTS
    TypeOK
    FileIsWhole
    ReportAgreesWithLoad
    ProtectionSurvives
    CatalogIsComplete
    AmbiguityWasLinted
PROPERTIES
    NeverDowngraded
