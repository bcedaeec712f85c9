\* One failure of the supervisor while its worker runs.
CONSTANT MaxCrashes = 1
SPECIFICATION CallSpec
INVARIANT CrashKeepsSpend
CHECK_DEADLOCK FALSE
