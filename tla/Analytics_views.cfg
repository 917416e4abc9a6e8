\* A session's events, redelivered, while the views are created over them.
SPECIFICATION AnalyticsSpec
CONSTANTS
    e1 = e1
    e2 = e2
    e3 = e3
    Events = {e1, e2, e3}
    EventOf <- Session
    Months = {1, 2}
    Views <- FourViews
    MaxCopies = 2
    MaxRedeliveries = 1
    MaxRestarts = 1
INVARIANTS MetricsMirror EventsCountedOnce
CHECK_DEADLOCK FALSE
