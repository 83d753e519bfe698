------------------------------ MODULE MCIndexer ------------------------------
(***************************************************************************)
(* Small instances of Indexer: what the chain holds when it first starts.  *)
(***************************************************************************)
EXTENDS Indexer

RECURSIVE Confirmed(_)
\* The chain on which these kinds of transaction confirmed, in this order.
Confirmed(kinds) ==
  IF kinds = <<>> THEN <<>>
  ELSE LET earlier == Confirmed(SubSeq(kinds, 1, Len(kinds) - 1))
           a == IF earlier = <<>> THEN NoAccount ELSE earlier[Len(earlier)].after
           kind == kinds[Len(kinds)]
       IN  Append(earlier, [kind |-> kind, after |-> After(kind, a)])

Registered == {Confirmed(<<"register">>)}
Staked == {Confirmed(<<"register", "stake">>)}

\* A router paid for an epoch, one suspended and reinstated, and one that waited
\* out a pause.
Lives ==
  {Confirmed(<<"register", "stake", "heartbeat", "finalize", "claim">>),
   Confirmed(<<"register", "stake", "heartbeat", "late", "reinstate">>),
   Confirmed(<<"register", "stake", "pause", "resume", "stake">>)}

Beginnings == Registered \cup Lives
============================================================================
