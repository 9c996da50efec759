SPECIFICATION Spec
CONSTANTS
  completionLimit = 2
  GoTypes <- MCGoTypes
  Json <- MCValues
  UriTasks = {}
  SchemaTasks <- MCSchemaTasks
  SampleValues = {}
  OpenApiTasks = {}
  HttpTasks = {}
  ProxyTasks = {}
INVARIANTS
  ReferencedDefsStay
CHECK_DEADLOCK FALSE
