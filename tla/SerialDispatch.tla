--------------------------- MODULE SerialDispatch ---------------------------
(***************************************************************************)
(* What queue.js promises (its header, lines 5-8): the requests for one    *)
(* agent wait in a line of bounded length, the agent serves one of them at *)
(* a time, oldest first, and agents are independent of each other.         *)
(*                                                                         *)
(* The clock, the stamps, the writer and the file of CollectionQueue are   *)
(* hidden; of a crash this specification says only that no agent is busy   *)
(* afterwards and that no line holds a request nobody made.                *)
(***************************************************************************)
EXTENDS QueueOps

CONSTANT Clients

VARIABLES
  line,           \* the requests that wait for each agent, oldest first
  busy,           \* the request each agent serves, or NoTask
  made            \* the requests accepted so far

vars == <<line, busy, made>>

Init ==
  /\ line = [c \in Clients |-> <<>>]
  /\ busy = [c \in Clients |-> NoTask]
  /\ made = {}

\* A new request joins the end of a line that has room.
Request(c, t) ==
  /\ t \notin made
  /\ HasRoom(line[c])
  /\ line' = [line EXCEPT ![c] = Append(@, t)]
  /\ made' = made \cup {t}
  /\ UNCHANGED busy

\* A free agent serves the oldest request of its line.
Serve(c) ==
  /\ CanPump(line[c], busy[c])
  /\ busy' = [busy EXCEPT ![c] = Head(line[c])]
  /\ line' = [line EXCEPT ![c] = Tail(@)]
  /\ UNCHANGED made

\* A free agent cannot be reached: its oldest request is given up.
GiveUp(c) ==
  /\ CanPump(line[c], busy[c])
  /\ line' = [line EXCEPT ![c] = Tail(@)]
  /\ UNCHANGED <<busy, made>>

\* The agent is done with the request it serves.
Finish(c) ==
  /\ busy[c] # NoTask
  /\ busy' = [busy EXCEPT ![c] = NoTask]
  /\ UNCHANGED <<line, made>>

\* The oldest requests of any lines have waited too long.
TimeOut ==
  /\ \E n \in [Clients -> 0..MaxPerClient] :
       line' = [c \in Clients |-> SubSeq(line[c], n[c] + 1, Len(line[c]))]
  /\ UNCHANGED <<busy, made>>

\* The server crashes and boots from what it once stored.
Crash ==
  /\ line' \in [Clients -> Seq(made)]
  /\ busy' = [c \in Clients |-> NoTask]
  /\ UNCHANGED made

Next ==
  \/ \E c \in Clients :
       \/ \E t \in Tasks : Request(c, t)
       \/ Serve(c) \/ GiveUp(c) \/ Finish(c)
  \/ TimeOut
  \/ Crash

Spec == Init /\ [][Next]_vars
=============================================================================
