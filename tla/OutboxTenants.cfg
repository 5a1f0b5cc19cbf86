SPECIFICATION FairSpec
CONSTANTS
  worker = worker
  caller = caller
  Workers = {worker, caller}
  Callers = {caller}
  Events = {1, 2}
  Tenants = {1, 2}
  TenantOf <- OneEach
  MaxAttempts = 2
  Lease = 1
  BatchLimit = 1
  MaxTime = 3
  LastCrash = 2
  MaxRetries = 0
  MaxRestores = 1
PROPERTIES
  TenantsAreIndependent
