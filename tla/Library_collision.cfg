SPECIFICATION Spec
CONSTANTS
  completionLimit = 2
  GoTypes <- MCGoTypes
  Json <- MCValues
  UriTasks = {}
  SchemaTasks = {}
  SampleValues = {}
  OpenApiTasks <- MCOpenApiTasks
  HttpTasks = {}
  ProxyTasks = {}
INVARIANTS
  EveryArgumentSent
CHECK_DEADLOCK FALSE
