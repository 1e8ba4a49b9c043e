SPECIFICATION Spec
CONSTANTS
    Absent = Absent
    DefaultGoal = 2
    Goals = {2}
    SampleHistory <- MCSample
    HistoryLimit = 2
    SensorStart = {1}
    MaxDay = 2
    MaxWalk = 1
    MaxSaves = 2
    MaxFaults = 1
PROPERTY
    FinishedDaySurvives
