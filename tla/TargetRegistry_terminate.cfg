\* One dump target and a target_terminate call.
SPECIFICATION Spec
CONSTANTS MaxTarget = 1
PROPERTY RefusedTerminateKeepsTarget
CHECK_DEADLOCK FALSE
