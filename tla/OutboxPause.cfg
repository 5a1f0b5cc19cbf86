SPECIFICATION Spec
CONSTANTS
  worker = worker
  caller = caller
  Workers = {worker, caller}
  Callers = {caller}
  Events = {1, 2}
  Tenants = {1}
  TenantOf <- SameTenant
  MaxAttempts = 2
  Lease = 1
  BatchLimit = 1
  MaxTime = 2
  LastCrash = 1
  MaxRetries = 0
  MaxRestores = 1
PROPERTIES
  PauseIsImmediate
