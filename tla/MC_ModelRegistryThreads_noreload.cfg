CONSTANTS
    RegIds <- MCThreadRegIds
    RawIds <- MCRawIds
    IdLower <- MCIdLower
    Names <- MCNames
    SynthName = SynthName
    ModelTypes <- MCModelTypes
    DefaultType = "openai-compatible"
    TypeTexts <- MCTypeTexts
    TypeLower <- MCTypeLower
    UrlTexts <- MCUrlTexts
    BlankUrls <- MCBlankUrls
    Statuses <- MCStatuses
    Tags <- MCTags
    Requests <- MCRequests
    UpdateRequests <- MCUpdateRequests
    EnvSnapshots <- MCThreadEnvs
    None = None
    t1 = t1
    t2 = t2
    Threads <- MCThreads
    MaxCalls = 2
SPECIFICATION NoReloadSpec
INVARIANT RegistriesDisjoint
INVARIANT GetSeesRuntimeModels
