---------------------------- MODULE EventDelivery ----------------------------
(***************************************************************************)
(* What ingestion promises for the events of a transaction, whoever takes  *)
(* it up: they reach the documents in the order they were emitted, each    *)
(* at most once, after the RPC served the transaction and the events       *)
(* collection received them.  A transaction may be abandoned at any event, *)
(* and is then never taken up again.  Beside the events, only accounts     *)
(* that the chain held at some time overwrite the documents.               *)
(***************************************************************************)
EXTENDS Naturals, Sequences

CONSTANTS
  Sigs, Histories,
  EventsOf(_),        \* the events of a transaction
  NoDoc,              \* the documents at first
  Projected(_, _, _), \* the documents after an event
  Collections, Overwritten(_, _, _)

VARIABLES
  chain, served,
  position,           \* [Sigs -> Nat]: 0 not taken up, n at its n-th event
  stored, doc

vars == <<chain, served, position, stored, doc>>

Init ==
  /\ chain \in Histories
  /\ served = 1 .. Len(chain)
  /\ position = [s \in Sigs |-> 0]
  /\ stored = {}
  /\ doc = NoDoc

Confirm ==
  /\ chain' = Append(chain, chain'[Len(chain')])
  /\ UNCHANGED <<served, position, stored, doc>>

Serve(s) ==
  /\ s \in 1 .. Len(chain)
  /\ served' = served \cup {s}
  /\ UNCHANGED <<chain, position, stored, doc>>

Take(s) ==
  /\ s \in served /\ position[s] = 0
  /\ position' = [position EXCEPT ![s] = 1]
  /\ UNCHANGED <<chain, served, stored, doc>>

\* Past its last event, or abandoned.
Over(s) == Len(EventsOf(chain[s])) + 1
Underway == {s \in Sigs : position[s] # 0 /\ position[s] < Over(s)}

Store(s) ==
  /\ s \in Underway \ stored
  /\ stored' = stored \cup {s}
  /\ UNCHANGED <<chain, served, position, doc>>

\* On to the next event; the projection of this one may have failed.
Apply(s) ==
  /\ s \in Underway \cap stored
  /\ position' = [position EXCEPT ![s] = @ + 1]
  /\ doc' \in {doc, Projected(doc, EventsOf(chain[s])[position[s]], chain[s].after)}
  /\ UNCHANGED <<chain, served, stored>>

Abandon ==
  /\ \E S \in SUBSET Underway :
       position' = [s \in Sigs |-> IF s \in S THEN Over(s) ELSE position[s]]
  /\ UNCHANGED <<chain, served, stored, doc>>

Overwrite(c, n) ==
  /\ doc' = Overwritten(doc, Collections[c], chain[n].after)
  /\ UNCHANGED <<chain, served, position, stored>>

Next ==
  \/ Confirm \/ Abandon
  \/ \E s \in Sigs : Serve(s) \/ Take(s) \/ Store(s) \/ Apply(s)
  \/ \E c \in 1 .. Len(Collections), n \in 1 .. Len(chain) : Overwrite(c, n)

Spec == Init /\ [][Next]_vars
=============================================================================
