SPECIFICATION Spec
CONSTANTS
  Requests = {"r1", "r2"}
  Codes = {"bg1"}
  Users = {"alice", "carol"}
  Roles <- RolesOf
  Policies <- PoliciesOf
  Scenes <- ScenesOf
  MaxTime = 2
  MaxCalls = 2
  MaxFaults = 1
  MaxSessions = 3
 
 
PROPERTY Answered
CHECK_DEADLOCK FALSE
