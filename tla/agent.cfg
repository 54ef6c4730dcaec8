\* A writer that retries through the client library, another payload under the
\* same request ID, and every fault of relay, page and sockets.
CHECK_DEADLOCK FALSE
SPECIFICATION Spec
CONSTANTS
  Calls = {"c1", "c2"}
  IdOf <- MCIdOf
  PayloadOf <- MCPayloadOf
  Retrying = {"c1"}
  Large = {"p2"}
  NetworkRetries = 1
  OfflineRetries = 1
  MaxSockets = 3
  MaxPages = 2
  MaxUpsets = 1
  None = None
INVARIANTS
  TypeOK AnswersAreOwn EndIsFinal
PROPERTY NeverRunsAgain
