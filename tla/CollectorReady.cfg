\* Readiness during the shutdown of a collector.
SPECIFICATION CollectorSpec
INVARIANT ReadinessWithdrawn
CHECK_DEADLOCK FALSE
