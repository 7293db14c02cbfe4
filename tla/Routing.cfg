CONSTANTS
    Layouts <- BothLayouts
    Starts <- SensorsAndEnds
SPECIFICATION Spec
INVARIANTS
    DistancesLeast
    RouteBest
    PlacesRight
