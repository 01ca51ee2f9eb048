SPECIFICATION Spec
CONSTANTS
    beat = beat
    job = job
    cron = cron
    Job = {beat, job, cron}
    Period <- MCPeriod
    Schedules <- MCSchedules
    WordMax = 5
    Low = 1
    High = 4
    MaxParts = 2
    MinuteLength = 3
    Capacity = 1
    MaxTime = 15
    MaxSteps = 1
INVARIANTS TypeOK ParsesToMeaning OncePerMinute NoMinuteMissed NoTickLost
CHECK_DEADLOCK FALSE
