SPECIFICATION DirectorSpec
CONSTANTS
    Scenes <- mc_Scenes
    Imported <- mc_Imported
    HeroScenes <- mc_HeroScenes
    Articulated <- mc_HeroScenes
    Codes <- mc_Codes
    c1 = c1
    c2 = c2
    Owners <- mc_Owners
    Operator = "operator"
    Workers = 2
    Reserve = 4
    MaxFaults = 1
    Threads <- mc_Threads
    Flight = "flight"
    Nobody = Nobody
    Holds <- mc_Holds
    Nothing = Nothing
SYMMETRY mc_Symmetry
CONSTRAINT mc_NoStaleScript
INVARIANTS
    RenderBound
    RenderedAsApproved
    ProductionAuthorised
PROPERTIES
    JobsPostOnce
CHECK_DEADLOCK FALSE
