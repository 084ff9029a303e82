---------------------------- MODULE TokenStreams ----------------------------
(***************************************************************************)
(* Tokens on their way from a node to whoever reads them                   *)
(* (src/src/streaming.ts): the TokenStreamWriter, whose readers are        *)
(* generators that wait for the next token, and the BoundedBuffer, a ring  *)
(* that drops its oldest item or refuses the new one.                      *)
(*                                                                         *)
(* A token is its number.  A reader that was handed a token goes on in a   *)
(* later step, and other tokens may be pushed before it does.              *)
(***************************************************************************)
EXTENDS Integers, Sequences, FiniteSets, SequencesExt

CONSTANTS
  TokenReaders,
  Capacity,    \* of the ring
  MaxTokens,   \* bound: tokens pushed
  Empty        \* undefined

ASSUME TokenAssumption == Capacity \in Nat \ {0} /\ MaxTokens \in Nat /\ Empty \notin Nat

VARIABLES
  pushed,     \* tokens pushed to the writer
  tokens,     \* the writer's queue
  waiters,    \* readers whose promise is not resolved
  ended,      \* done
  tokenReader,     \* of each reader: where it is, what it was handed, what it has yielded
  strategy, ring, ringHead, ringTail, ringSize,
  refused,    \* items the buffer threw on
  dropped,    \* ghost: items dropped
  items,      \* ghost: all items pushed
  drained     \* ghost: what drain() returned so far

writerVars == <<pushed, tokens, waiters, ended, tokenReader>>
ringVars == <<strategy, ring, ringHead, ringTail, ringSize, refused, dropped, items, drained>>
tokenVars == <<writerVars, ringVars>>

TokenInit ==
  /\ pushed = 0 /\ tokens = <<>> /\ waiters = <<>> /\ ended = FALSE
  /\ tokenReader = [r \in TokenReaders |-> [at |-> "loop", handed |-> 0, yielded |-> <<>>]]
  /\ strategy \in {"drop-oldest", "error"}
  /\ ring = [i \in 0..(Capacity - 1) |-> Empty] /\ ringHead = 0 /\ ringTail = 0 /\ ringSize = 0
  /\ refused = {} /\ dropped = {} /\ items = 0 /\ drained = <<>>

-----------------------------------------------------------------------------
(* push(): to the reader that has waited longest, or into the queue; also  *)
(* after end().                                                            *)
PushToken ==
  /\ pushed < MaxTokens /\ pushed' = pushed + 1
  /\ IF waiters # <<>>
     THEN /\ waiters' = Tail(waiters)
          /\ tokenReader' = [tokenReader EXCEPT ![Head(waiters)].handed = pushed']
          /\ UNCHANGED tokens
     ELSE tokens' = Append(tokens, pushed') /\ UNCHANGED <<waiters, tokenReader>>
  /\ UNCHANGED <<ended, ringVars>>

End == 0 - 1
EndTokens ==
  /\ ~ended /\ ended' = TRUE /\ waiters' = <<>>
  /\ tokenReader' = [r \in TokenReaders |-> IF r \in ToSet(waiters) THEN [tokenReader[r] EXCEPT !.handed = End]
                                                               ELSE tokenReader[r]]
  /\ UNCHANGED <<pushed, tokens, ringVars>>

Yields(r, token, at) ==
  tokenReader' = [tokenReader EXCEPT ![r] = [at |-> at, handed |-> 0, yielded |-> Append(@.yielded, token)]]

(* The next token is asked of a reader that has yielded the one before.    *)
TakeQueued(r) ==
  /\ tokenReader[r].at \in {"loop", "flush"} /\ tokens # <<>>
  /\ Yields(r, Head(tokens), tokenReader[r].at) /\ tokens' = Tail(tokens)
  /\ UNCHANGED <<pushed, waiters, ended, ringVars>>

Stop(r) ==
  /\ tokens = <<>> /\ (tokenReader[r].at = "flush" \/ (tokenReader[r].at = "loop" /\ ended))
  /\ tokenReader' = [tokenReader EXCEPT ![r].at = "returned"]
  /\ UNCHANGED <<pushed, tokens, waiters, ended, ringVars>>

Wait(r) ==
  /\ tokenReader[r].at = "loop" /\ tokens = <<>> /\ ~ended
  /\ tokenReader' = [tokenReader EXCEPT ![r].at = "waiting"] /\ waiters' = Append(waiters, r)
  /\ UNCHANGED <<pushed, tokens, ended, ringVars>>

Resume(r) ==
  /\ tokenReader[r].at = "waiting" /\ tokenReader[r].handed # 0
  /\ IF tokenReader[r].handed = End
     THEN tokenReader' = [tokenReader EXCEPT ![r].at = "flush", ![r].handed = 0]
     ELSE Yields(r, tokenReader[r].handed, "loop")
  /\ UNCHANGED <<pushed, tokens, waiters, ended, ringVars>>

-----------------------------------------------------------------------------
(* The ring.                                                               *)

Around(i) == i % Capacity
PushItem ==
  /\ items < MaxTokens /\ items' = items + 1
  /\ IF ringSize >= Capacity /\ strategy = "error"
     THEN /\ refused' = refused \cup {items'}
          /\ UNCHANGED <<ring, ringHead, ringTail, ringSize, dropped>>
     ELSE LET full == ringSize >= Capacity IN
          /\ ring' = [ring EXCEPT ![ringTail] = items']
          /\ ringTail' = Around(ringTail + 1)
          /\ ringHead' = IF full THEN Around(ringHead + 1) ELSE ringHead
          /\ ringSize' = IF full THEN ringSize ELSE ringSize + 1
          /\ dropped' = IF full THEN dropped \cup {ring[ringHead]} ELSE dropped
          /\ UNCHANGED refused
  /\ UNCHANGED <<strategy, drained, writerVars>>

InRing == [i \in 1..ringSize |-> ring[Around(ringHead + i - 1)]]
Drain ==
  /\ ringSize > 0
  /\ drained' = drained \o InRing
  /\ ring' = [i \in 0..(Capacity - 1) |-> Empty] /\ ringHead' = 0 /\ ringTail' = 0 /\ ringSize' = 0
  /\ UNCHANGED <<strategy, refused, dropped, items, writerVars>>

TokenNext ==
  \/ PushToken \/ EndTokens \/ PushItem \/ Drain
  \/ \E r \in TokenReaders : TakeQueued(r) \/ Stop(r) \/ Wait(r) \/ Resume(r)

-----------------------------------------------------------------------------
(* Every token reaches one reader or is still in the queue, and each       *)
(* reader gets its tokens in their order, whoever waits and whatever is    *)
(* pushed before it goes on or after the end (streaming.ts:72); the buffer *)
(* gives back its items in order and loses those it dropped or refused,    *)
(* and no others (streaming.ts:204).                                       *)
Ascending(s) == \A i, j \in DOMAIN s : i < j => s[i] < s[j]
HandedTo(r) == IF tokenReader[r].handed > 0 THEN <<tokenReader[r].handed>> ELSE <<>>
TokensTrue ==
  /\ \A t \in 1..pushed :
       Cardinality({r \in TokenReaders : t \in ToSet(tokenReader[r].yielded \o HandedTo(r))})
         + (IF t \in ToSet(tokens) THEN 1 ELSE 0) = 1
  /\ \A r \in TokenReaders : Ascending(tokenReader[r].yielded \o HandedTo(r))
  /\ LET kept == drained \o InRing IN
     /\ Ascending(kept)
     /\ ToSet(kept) = 1..items \ (dropped \cup refused)
     /\ ringSize = Len(InRing) /\ Empty \notin ToSet(InRing)
=============================================================================
