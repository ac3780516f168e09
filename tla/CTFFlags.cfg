\* Two slots, the intermission included.
CONSTANTS
    Players = {p1, p2}
    NoPlayer = NoPlayer
    CaptureLimit = 1
    ScoreBound = 1
SPECIFICATION FairSpec
INVARIANTS
    FlagMachine
    CarrierKnown
    CarrierInPlay
PROPERTIES
    ScoreOnlyByCapture
    CTFFlagsRefinement
    LostFlagLeaves
    ReturnedFlagTouchable
