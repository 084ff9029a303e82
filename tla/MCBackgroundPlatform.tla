------------------------ MODULE MCBackgroundPlatform ------------------------
(* TLC instances of BackgroundPlatform. *)
EXTENDS BackgroundPlatform

CONSTANTS s1, s2, s3, cancel, review, waiter

(* s1 needs a review and is reviewed, cancelled and waited for; the others   *)
(* compete with it for the slot and the queue.                              *)
MCTarget == [x \in Cancels \cup Reviews \cup Waiters |-> s1]
=============================================================================
