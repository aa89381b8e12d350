SPECIFICATION MCSpec
CONSTANTS
    HookNames <- MCHooks
    CapitalNames <- MCCapitals
    Repositories <- MCRepositories
    Char <- MCChar
    Simple <- MCSimple
    Identities <- MCIdentities
    CalleeTexts <- MCCallees
    Ordinals <- MCOrdinals
INVARIANTS
    ImportsReachAProvider
    SoleProviderIsFound
    NoImportIsSilent
    IdentitiesAgree
    CertainIsProven
    CalledIsNotUnused
    MapLevelsAgree
    CodecIsLossless
CHECK_DEADLOCK FALSE
