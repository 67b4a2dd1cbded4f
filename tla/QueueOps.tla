------------------------------ MODULE QueueOps ------------------------------
(***************************************************************************)
(* The per-client operations of src/server/dashboard/queue.js as           *)
(* operators on one client's queue and in-flight slot.  An entry of        *)
(* `queues` is a sequence, its head at index 1; an entry of `running` is   *)
(* the analysisId holding the agent's slot, or NoTask when the Map has     *)
(* none.  The modules that model the server use these operators for the    *)
(* calls they make on the queue.                                           *)
(***************************************************************************)
EXTENDS Naturals, Sequences

CONSTANTS
  Tasks,          \* analysisIds: one fresh UUID per start_ai_analysis
  NoTask,         \* an absent entry of `running`
  MaxPerClient    \* MAX_QUEUE_PER_CLIENT

ASSUME NoTaskAssumption == NoTask \notin Tasks
ASSUME MaxPerClientAssumption == MaxPerClient \in Nat \ {0}

\* An in-flight slot: running.get(clientId) || null.
Slot == Tasks \cup {NoTask}

\* enqueue refuses when q.length >= maxPerClient.
HasRoom(q) == Len(q) < MaxPerClient

\* pump returns early while a task is in flight or when nothing waits.
CanPump(q, slot) == slot = NoTask /\ q # <<>>

\* markDone releases the slot only for the task that holds it.
Released(slot, t) == IF slot = t THEN NoTask ELSE slot
=============================================================================
