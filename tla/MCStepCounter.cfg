SPECIFICATION Spec
CONSTANTS
    Absent = Absent
    DefaultGoal = 2
    Goals = {2}
    SampleHistory <- MCSample
    HistoryLimit = 2
    SensorStart = {0, 2}
    MaxDay = 2
    MaxWalk = 2
    MaxSaves = 2
    MaxFaults = 1
INVARIANTS
    TypeOK
    ReloadAgrees
    SavesCatchUp
    NewestFirst
    OneEntryPerDate
    NoOvercount
