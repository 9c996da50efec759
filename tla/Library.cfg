SPECIFICATION Spec
CONSTANTS
  completionLimit = 2
  GoTypes <- MCGoTypes
  Json <- MCValues
  UriTasks <- MCUriTasks
  SchemaTasks <- MCSchemaTasks
  SampleValues <- MCSampleValues
  OpenApiTasks <- MCOpenApiTasks
  HttpTasks <- MCHttpTasks
  ProxyTasks <- MCProxyTasks
INVARIANTS
  UriRoundTrip
  SchemaKeepsMeaning
  ArgumentsArrive
  AnsweredOrRefused
  ProxyTransparent
\* A task that is done has no next call.
CHECK_DEADLOCK FALSE
