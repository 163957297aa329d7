\* Every way the two ends can be built, messages of an ordinary size, the
\* largest whose echo fits, the largest that fits and one byte more, sessions up
\* to the last nonce, and what TCP lets happen: a reset or a silent partition at
\* any moment, a refused connection.  A partition leaves an end waiting, so the
\* system may stop.
CONSTANTS
  BitmapBits = 2
  MaxSeq = 4
  MaxNonce = 4
  ClientArgs <- AnyClient
  ServerArgs <- AnyServer
  AtCapacity = {FALSE, TRUE}
  MessageSizes = {5, 65496, 65511, 65512}
  Faults = {"reset", "partition"}
  MaxFaults = 1
SPECIFICATION FairSpec
INVARIANTS TypeOK NoMutualWait MetricsConserved ReplyCorrelation
PROPERTIES ImplementsRequestReply HealthyExchangeSucceeds TimeoutBoundsOneShot ServerReleased
CHECK_DEADLOCK FALSE
