CONSTANTS
    SchedulerThreads = {th1, th2}
    Tasks = {t1, t2}
    MaxTime = 2
SPECIFICATION SchedulerSpec
INVARIANTS SettledInTheEnd
PROPERTIES TasksStart ThreadsLeave
