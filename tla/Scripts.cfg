\* A concert of two walks, one of them repeatable, and an AI script that has
\* its name and walks too.
CONSTANTS
    m1 = m1
    m2 = m2
    walkA = walkA
    walkB = walkB
    ai = ai
    stage = stage
    Monster = {m1, m2}
    Unkillable = {m2}
    Script = {walkA, walkB, ai}
    AIScripts = {ai}
    Overrides = {walkB}
    Walks = {walkA, walkB, ai}
    Teleports = {}
    Idles = {walkB}
    Repeatable = {walkA}
    targetname <- MCTargetname
    MaxDelay = 2
    MaxEarly = 1
    Null = Null
SPECIFICATION ScriptFairSpec
INVARIANTS
    ScriptTypeOK
    LinksAgree
    ScriptStateHasCine
    DelayCountsWalkers
PROPERTY ConcertPlays
