-------------------------- MODULE MCCollectionQueue --------------------------
(* Model-checking instance of CollectionQueue. *)
EXTENDS CollectionQueue, TLC

Symmetry == Permutations(Tasks) \cup Permutations(Clients)

\* One agent is followed to all the bounds; once both were used, the clock stands still and
\* flushes wait one at a time.
Used(c) == handed[c] # {} \/ queues[c] # <<>> \/ running[c] # NoTask \/ file[c] # <<>>
TwoAgentsBriefly == (\A c \in Clients : Used(c)) => now = 0 /\ chained <= 1
=============================================================================
