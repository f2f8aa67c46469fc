----------------------------- MODULE TaskBoard -----------------------------
(***************************************************************************)
(* What the files of one plan promise together: a board of task statuses   *)
(* with its revision counters, its lifecycle and a retry counter, changed  *)
(* by atomic operations that each start from the current board.  The log   *)
(* is told one task at a time, the page shows a whole board, and the       *)
(* closing marker follows the lifecycle.  There are no processes, no flock *)
(* and no copies here: OrchestratorStore implements this specification     *)
(* with all three.                                                         *)
(***************************************************************************)
EXTENDS Naturals

CONSTANTS Tasks, HistoryCap, Status

VARIABLES
  status,     \* the status of each task, or "absent"
  history,    \* the number of rows of each iteration_history
  lifecycle,  \* "active" or "closed"
  retries,    \* the unified retry counter
  marker,     \* the plan is closed for good
  told,       \* what the log says of each task, or "absent"
  page        \* the statuses on the rendered page

board == <<status, history, lifecycle, retries>>
bvars == <<status, history, lifecycle, retries, marker, told, page>>

Init ==
  /\ status = [t \in Tasks |-> "absent"]
  /\ history = [t \in Tasks |-> 0]
  /\ lifecycle = "active"
  /\ retries = 0
  /\ marker = FALSE
  /\ told = status
  /\ page = status

(* One task moves to a status of the enum *)
Move(t, s) ==
  /\ status' = [status EXCEPT ![t] = s]
  /\ UNCHANGED <<history, lifecycle, retries, marker, told, page>>

(* A revision: back to work, and one more row of its history *)
Revise(t) ==
  /\ history[t] <= HistoryCap
  /\ history' = [history EXCEPT ![t] = @ + 1]
  /\ status' = [status EXCEPT ![t] = "wip"]
  /\ UNCHANGED <<lifecycle, retries, marker, told, page>>

(* Tasks the plan has gained start ready; a task that is there stays *)
Seed(S) ==
  /\ status' = [t \in Tasks |-> IF t \in S /\ status[t] = "absent" THEN "ready" ELSE status[t]]
  /\ UNCHANGED <<history, lifecycle, retries, marker, told, page>>

(* The log learns the status a task has *)
Tell(t) ==
  /\ status[t] # "absent"
  /\ told' = [told EXCEPT ![t] = status[t]]
  /\ UNCHANGED <<board, marker, page>>

(* The page shows the board *)
Show ==
  /\ page' = status
  /\ UNCHANGED <<board, marker, told>>

Close ==
  /\ ~marker
  /\ lifecycle' = "closed"
  /\ UNCHANGED <<status, history, retries, marker, told, page>>

Seal ==
  /\ lifecycle = "closed"
  /\ marker' = TRUE
  /\ UNCHANGED <<board, told, page>>

Count ==
  /\ retries' \in {0, retries + 1}
  /\ UNCHANGED <<status, history, lifecycle, marker, told, page>>

Next ==
  \/ \E t \in Tasks, s \in Status : Move(t, s)
  \/ \E t \in Tasks : Revise(t) \/ Tell(t)
  \/ \E S \in SUBSET Tasks : Seed(S)
  \/ Show \/ Close \/ Seal \/ Count

Spec == Init /\ [][Next]_bvars
=============================================================================
