CONSTANTS
    Infinity = 9
    State <- States
    Event <- Events
    Clock <- Clocks
    None <- NoState
    Id <- Ids
    Gen <- Generators
    Duration <- Durations
    Preset <- Presets
    PresetTime <- PresetTimes
SPECIFICATION Spec
INVARIANTS
    TypeOK
    MemberStatusRight
    StatusRight
PROPERTIES
    RefinesTimedProduct
