--------------------------- MODULE MCPregelThread ---------------------------
(* TLC instances of PregelThread. *)
EXTENDS PregelThread

CONSTANTS a, b, c, d, e

To(nodes) == [nodes |-> nodes, sends |-> <<>>]
Fan(nodes, sends) == [nodes |-> nodes, sends |-> sends]

(* a fans out to b and c, which both ask, to itself and d, or to Sends; c   *)
(* ends (its Command drops the Send), loops to a, or leads to e.            *)
Diamond ==
  [n \in Nodes \cup {Start} |->
     CASE n = a -> {To(<<b, c>>), To(<<a, d>>), Fan(<<b>>, <<e, e>>), Fan(<<a>>, <<b>>)}
       [] n = b -> {To(<<c>>)}
       [] n = c -> {Fan(<<End>>, <<b>>), To(<<a>>), To(<<e>>)}
       [] n = Start -> {To(<<a>>)}
       [] OTHER -> {To(<<End>>)}]

AskBC == [n \in Nodes |-> IF n \in {b, c} THEN 1 ELSE 0]
=============================================================================
