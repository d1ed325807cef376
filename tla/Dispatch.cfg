CONSTANTS
    r1 = r1
    t1 = t1
    None = None
    Reminders = {r1}
    DeadlineAlerts = {r1}
    Appearances = {}
    Tasks = {t1}
    TaskOf <- MCTaskOf
    Procs = {tick, cli}
    Hosted = {tick}
    Providers = {mail}
    MaxAttempts = 2
    RetryDelay = 15
    Grace = 30
    ScheduleTimes = {0}
    Step = 15
    Horizon = 45
    MaxCrashes = 1
SPECIFICATION FairSpec
INVARIANTS AtMostOnce TruthfulOutcome
PROPERTIES RetriesSpaced ImplementsOneShot EventuallySettled QuietOnceClosed OutcomeFinal
