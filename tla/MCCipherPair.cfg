\* Three nonces, so that both ends reach the last one, and one rekey.
CONSTANTS
  MaxNonce = 2
  AADs = {"tunnel-data", "heartbeat"}
  StartNonces = {0, 1}
  MaxKeys = 2
  MaxMessages = 3
SPECIFICATION Spec
INVARIANTS TypeOK NonceReuseNeedsReset OpenedInOrder BudgetExact DecryptNeverOverflows
