\* One worker with two threads, as in gunicornProd.sh.
SPECIFICATION Spec
CONSTANTS
  Workers = {w1}
  Threads = {t1, t2}
  Kinds = {"block", "verify"}
  MaxRequests = 2
  MaxRestarts = 0
  MaxCommitFailures = 0
INVARIANT RepliesWithAck
CHECK_DEADLOCK FALSE
