SPECIFICATION RevisionSpec
CONSTANTS
    s1 = s1
    s2 = s2
    Scenes <- mc_Scenes
    HeroesAllowed <- mc_WithHeroes
    Budget = 4
    Spare = 2
    MaxRevisions = 2
    Nothing = Nothing
SYMMETRY mc_Symmetry
CHECK_DEADLOCK FALSE
INVARIANT WorkspaceLoads
