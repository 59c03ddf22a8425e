SPECIFICATION ServicesSpec
CONSTANTS
    Minutes <- MCMinutes
    Calendar <- MCCalendar
    Expressions <- MCExpressions
    Lowest <- MCLowest
    Highest <- MCHighest
    MaxIterations <- MCMaxIterations
    t1 = t1
    t2 = t2
    Threads = {t1, t2}
    NumPoints = 2
    BatchSize = 1
    MaxWrites = 2
    r1 = r1
    r2 = r2
    i1 = i1
    i2 = i2
    x1 = x1
    Requests = {r1, r2}
    Words <- MCWords
    Context <- MCContext
    Intentions = {i1, i2}
    Trigger <- MCTrigger
    Once = {i1}
    Priority <- MCPriority
    MaxIntentions = 1
    Thoughts = {x1}
    Mail <- MCMail
    Rules <- MCRules
    FetchLimit = 2
    ErrorLimit = 4
    MaxFaults = 2
    k1 = k1
    k2 = k2
    m1 = m1
    m2 = m2
    m3 = m3
    NumAdapters = 2
    Policy <- MCPolicy
    Enabled = {2}
    MaxRestarts = 1
    Callers = {k1, k2}
    MaxSpawned <- MCSpawned
    Clients = {m1, m2, m3}
    Jobs <- MCJobs
    MaxReconnects = 1
    MaxTasks = 6
    MaxOps <- MCOps
CHECK_DEADLOCK FALSE
INVARIANTS ServicesTypeOK MigrationSafe AdaptersSafe McpSafe MailSafe
PROPERTIES SearchCorrect ImplementsVectorStore RemindersSafe
