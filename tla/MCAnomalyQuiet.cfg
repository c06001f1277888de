\* Anomaly notices while OPERATOR_ANOMALY_ENABLED is off.
SPECIFICATION Spec
INVARIANTS QuietUnlessEnabled
CHECK_DEADLOCK FALSE
