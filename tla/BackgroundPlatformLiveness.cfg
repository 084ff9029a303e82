\* Liveness with a synchronous store and release calls that succeed; one session reviewed, cancelled and waited for.
SPECIFICATION Spec
CONSTANTS
  s1 = s1
  s2 = s2
  s3 = s3
  cancel = cancel
  review = review
  waiter = waiter
  Sessions = {s1, s2}
  NeedsReview = {s1}
  Cancels = {cancel}
  Reviews = {review}
  Waiters = {waiter}
  Target <- MCTarget
  MaxConcurrent = 1
  MaxQueued = 2
  HasTimeout = FALSE
  ReleaseMayFail = FALSE
  AsyncStore = FALSE
CHECK_DEADLOCK FALSE
PROPERTIES NobodyHangs CancelTakesEffect
