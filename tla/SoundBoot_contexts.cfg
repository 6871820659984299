\* Two threads, a context of system_server and one of an application.
CONSTANTS
  t1 = t1
  t2 = t2
  server = server
  app = app
  Threads <- TwoThreads
  SystemContexts <- ServerAlone
  AppContexts <- AppAlone
SPECIFICATION Spec
\* system_server may end with an exception.
CHECK_DEADLOCK FALSE
INVARIANTS
  TypeOK
  OneManager
  AppsHaveTheService
  ServiceIsConstructed
