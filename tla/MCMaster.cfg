SPECIFICATION FairSpec
CONSTANTS
    openai = openai
    anthropic = anthropic
    None = None
    Loop = Loop
    Urls = {d1, d2}
    Providers = {openai, anthropic}
    Values = {v1}
    Envs = {production, staging}
    Production = production
    Sources = {bcv, usdt}
    Slots = {s1, s2}
    Patches <- MCPatches
    DefaultProvider = anthropic
    MaxWork = 3
INVARIANTS DeletedIsUndeployed DeployedIsCurrent ModelOfProvider
CHECK_DEADLOCK FALSE
PROPERTIES RatesArrive
