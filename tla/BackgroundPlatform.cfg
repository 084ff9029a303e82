\* Two sessions on one slot, one of them reviewed, cancelled and waited for; release calls may fail.
SPECIFICATION Spec
CONSTANTS
  s1 = s1
  s2 = s2
  s3 = s3
  cancel = cancel
  review = review
  waiter = waiter
  Sessions = {s1, s2}
  NeedsReview = {s1}
  Cancels = {cancel}
  Reviews = {review}
  Waiters = {waiter}
  Target <- MCTarget
  MaxConcurrent = 1
  MaxQueued = 2
  HasTimeout = TRUE
  ReleaseMayFail = TRUE
  AsyncStore = TRUE
CHECK_DEADLOCK FALSE
INVARIANT SlotsAccounted
PROPERTY StatusMovesForward
