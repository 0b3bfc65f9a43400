SPECIFICATION Spec
CONSTANTS
  Consumers <- MCConsumers
  Requests <- MCRequests
  Wired <- MCWired
  Errors <- MCErrors
INVARIANTS
  TypeOK
  PromisesKept
