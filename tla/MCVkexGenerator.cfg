SPECIFICATION HeaderSpec
CONSTANTS
    Interfaces <- MCInterfaces
    AutoGenerateableStructs = {"Auto"}
    BrokenStructs = {"Broken"}
    Absent = Absent
INVARIANTS
    MappedCountsAreTrue
    HeaderIsOldOrWhole
CHECK_DEADLOCK FALSE
