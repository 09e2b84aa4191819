SPECIFICATION ChecksSpec
CONSTANTS
    Null = Null
    Configs <- MonitorConfigs
    Answers <- NetworkAnswers
    Intervals = {1, 2}
    JobPeriod = 2
    MaxDelay = 1
    Retention = 3
    DayTicks = 2
    WeekTicks = 4
    SmallBucket = 1
    MediumBucket = 2
    LargeBucket = 3
    MaxTime = 6
    MaxEdits = 1
INVARIANTS
    TimelineAgreesWithUptime
    StepsAreRendered
PROPERTIES
    
    PassMeansReached
CHECK_DEADLOCK FALSE
