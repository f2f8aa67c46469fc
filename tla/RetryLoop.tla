----------------------------- MODULE RetryLoop -----------------------------
(***************************************************************************)
(* The bounded loops of bin/_retry_loop: the test-step loop (coder         *)
(* session, pytest, reviewer) that the chain runs for /code and /test and  *)
(* the operator runs with bin/verify test-step, and the phase-boundary     *)
(* review.  Runs of one plan share its retry counters, its working tree    *)
(* and its plan directory, and nothing keeps two of them apart.            *)
(***************************************************************************)
EXTENDS Integers, FiniteSets

CONSTANTS
  Runs,         \* the runs of a behaviour, one process each
  Cap,          \* unified_counter_active_cap
  MaxRetries,   \* OVERNIGHT_TEST_MAX_RETRIES
  MaxEdits,     \* bound: edits of what grades the code
  MaxEvents     \* bound: injects placed, reviews begun with --fresh, runs killed

ASSUME RetryAssumption ==
  /\ IsFiniteSet(Runs)
  /\ Cap \in Nat \ {0} /\ MaxRetries \in Nat \ {0}
  /\ MaxEdits \in Nat /\ MaxEvents \in Nat

\* code is phase 4 of the chain, test is phase 5, cli is bin/verify test-step
TestStep == {"code", "test", "cli"}
Kinds == TestStep \cup {"boundary"}

\* SPLOCK_PHASE is 5 for the chain's /test and for the command line
Guarded(k) == k \in {"test", "cli"}

\* The grading surface: the tests of tests_enabled, the conftest and ini files
\* pytest reads for them, a conftest or ini file added where no sweep looks
\* ("ours": there is none), and the plan's list of tests_enabled.  Each of them
\* can be forged so that failures pass.
TrustFiles == {"conftest", "added"}
Graded == {"tests", "plan"} \cup TrustFiles
Content == {"ours", "forged"}

Counters == {"test_step", "boundary"}

\* What snapshot_repair_write_scope remembers: the grading surface, and is
\* there an inject.  A pause sentinel, the marker of a close and what a coder
\* adds to the plan directory fare as the inject does.
Surface == [graded : [Graded -> Content], inject : BOOLEAN]
Pristine == [graded |-> [g \in Graded |-> "ours"], inject |-> FALSE]
Clean(s) == \A g \in Graded : s.graded[g] = "ours"

\* What a run knows: its iterations so far and their limit, an inject in
\* hand, the snapshot of a session, and (ghost) is it guarded, did it start on a
\* clean surface, and did each of its sessions begin with the plan unedited.
RunState == [kind : Kinds, limit : Nat, iter : Nat, body : BOOLEAN,
             snap : Surface, clean : BOOLEAN]
NoRun == [kind |-> "code", limit |-> 0, iter |-> 0, body |-> FALSE,
          snap |-> Pristine, clean |-> FALSE]

VARIABLES
  used,     \* retry_count of each counter, in _state.json
  works,    \* does the code, with what the tests import, do what they ask
  surface,  \* the grading surface, and the inject in the plan directory
  head,     \* what is committed of the conftest and ini files
  pc, run,  \* per run: control, and what it knows
  sessions, \* ghost: coder sessions so far
  shared,   \* ghost: have two runs been active at once
  edits, events    \* bounds

tree == <<works, surface, head, edits>>
vars == <<used, tree, pc, run, sessions, shared, events>>

Init ==
  /\ used = [c \in Counters |-> 0]
  /\ works \in BOOLEAN
  /\ surface = Pristine /\ head = [g \in TrustFiles |-> "ours"]
  /\ pc = [r \in Runs |-> "idle"]
  /\ run = [r \in Runs |-> NoRun]
  /\ sessions = 0 /\ shared = FALSE
  /\ edits = 0 /\ events = 0

-----------------------------------------------------------------------------
(* Helpers *)

\* PASSED or READY; the retry cap, any other halt, or a kill -9
Ends == {"passed", "halted"}
Active(r) == pc[r] \notin Ends \cup {"idle"}

\* a process that ends forgets what it knew
Becomes(r, at, state) ==
  /\ pc' = [pc EXCEPT ![r] = at]
  /\ run' = [run EXCEPT ![r] = IF at \in Ends THEN NoRun ELSE state]
GoTo(r, at) == Becomes(r, at, run[r])

Smaller(m, n) == IF m < n THEN m ELSE n

\* unified_counter_get_remaining, read without the flock
Remaining(c) == IF used[c] < Cap THEN Cap - used[c] ELSE 0

\* pytest over the union of tests_enabled
Green == works \/ \E g \in Graded : surface.graded[g] = "forged"

\* the conftest and ini files that are there are tracked and clean
Trusted ==
  /\ surface.graded["conftest"] = head["conftest"]
  /\ surface.graded["added"] \in {"ours", head["added"]}

\* after a red result: the first iteration, or the reviewer
Red(r) == GoTo(r, IF run[r].iter = 0 THEN "count" ELSE "review")

\* (wrong) one iteration more than the limit
OneMoreIteration(r) == GoTo(r, IF run[r].iter <= run[r].limit THEN "count" ELSE "halted")

\* run_iteration returned FAILED_RETRY
NextIteration(r) == GoTo(r, IF run[r].iter < run[r].limit THEN "count" ELSE "halted")

-----------------------------------------------------------------------------
(* The test-step loop *)

\* The chain or the operator starts a run; the chain may hand over an inject
\* that it took at the phase boundary.
Start(r, k, given) ==
  /\ pc[r] = "idle"
  /\ k \in TestStep /\ (given => k # "cli")
  /\ Becomes(r, "limit", [NoRun EXCEPT !.kind = k, !.body = given,
                                       !.clean = Guarded(k) /\ Clean(surface)])
  /\ shared' = (shared \/ \E q \in Runs : Active(q))
  /\ UNCHANGED <<used, tree, sessions, events>>

\* effective_max, once per run; verify_first is bypassed by an inject
Limit(r) ==
  /\ pc[r] = "limit"
  /\ LET max == Smaller(MaxRetries, Remaining("test_step"))
         entry == run[r].kind = "cli" /\ ~run[r].body /\ ~surface.inject
     IN  Becomes(r, IF max < 1 THEN "halted" ELSE IF entry THEN "verify" ELSE "count",
                 [run[r] EXCEPT !.limit = max])
  /\ UNCHANGED <<used, tree, sessions, shared, events>>

\* unified_counter_increment, under the flock, before the iteration
Count(r) ==
  /\ pc[r] = "count"
  /\ used' = [used EXCEPT !["test_step"] = @ + 1]
  /\ Becomes(r, "consume", [run[r] EXCEPT !.iter = @ + 1])
  /\ UNCHANGED <<tree, sessions, shared, events>>

\* _consume_operator_inject_iter: read, then unlink; an inject in hand goes first
Consume(r) ==
  /\ pc[r] = "consume"
  /\ IF run[r].body \/ ~surface.inject
     THEN GoTo(r, "spawn")
     ELSE Becomes(r, "unlink", [run[r] EXCEPT !.body = TRUE])
  /\ UNCHANGED <<used, tree, sessions, shared, events>>

UnlinkInject(r) ==
  /\ pc[r] = "unlink"
  /\ surface' = [surface EXCEPT !.inject = FALSE]
  /\ GoTo(r, "spawn")
  /\ UNCHANGED <<used, works, head, edits, sessions, shared, events>>

\* spawn_opus_via_sdk takes its snapshot and starts the session
Spawn(r) ==
  /\ pc[r] = "spawn"
  /\ sessions' = sessions + 1
  /\ Becomes(r, "session", [run[r] EXCEPT !.body = FALSE,
                              !.clean = @ /\ surface.graded["plan"] = "ours",
                              !.snap = IF Guarded(run[r].kind) THEN surface ELSE Pristine])
  /\ UNCHANGED <<used, tree, shared, events>>

\* the coder: it mends or breaks the code, edits what grades it, commits
CoderWrites(r) ==
  /\ pc[r] = "session"
  /\ \/ works' = ~works /\ UNCHANGED <<surface, head, edits>>
     \/ /\ edits < MaxEdits /\ edits' = edits + 1
        /\ \E g \in Graded, c \in Content : surface' = [surface EXCEPT !.graded[g] = c]
        /\ UNCHANGED <<works, head>>
     \/ /\ head' = [g \in TrustFiles |-> surface.graded[g]]
        /\ UNCHANGED <<works, surface, edits>>
  /\ UNCHANGED <<used, pc, run, sessions, shared, events>>

\* (wrong) new files are swept, and old ones are not restored
SweepOnly(r) ==
  IF Guarded(run[r].kind)
  THEN [surface EXCEPT !.inject = @ /\ run[r].snap.inject]
  ELSE surface

\* protected by the snapshot: the conftest and ini files it found, and the tests
\* that the plan named then.  An edit of the plan is reported, no more.
Protected(g, snap) ==
  \/ g = "conftest"
  \/ g = "added" /\ snap["added"] = "forged"
  \/ g = "tests" /\ snap["plan"] = "ours"

\* enforce_repair_write_scope: what is protected is restored, and what is new
\* under tests/ or the plan directory is deleted, whoever made it
Enforced(r) ==
  LET snap == run[r].snap
  IN  IF Guarded(run[r].kind)
      THEN [graded |-> [g \in Graded |-> IF Protected(g, snap.graded)
                                         THEN snap.graded[g] ELSE surface.graded[g]],
            inject |-> surface.inject /\ snap.inject]
      ELSE surface

\* (wrong) a session that ends with an error is not swept
SessionEndsWell(r) ==
  /\ pc[r] = "session"
  /\ LET state == [run[r] EXCEPT !.snap = Pristine]
     IN  \/ Becomes(r, "verify", state) /\ surface' = Enforced(r)
         \/ Becomes(r, "halted", state) /\ UNCHANGED surface
  /\ UNCHANGED <<used, works, head, edits, sessions, shared, events>>

\* the session ends, well or with an error; the guard runs in both cases
SessionEnds(r) ==
  /\ pc[r] = "session"
  /\ surface' = Enforced(r)
  /\ \E at \in {"verify", "halted"} : Becomes(r, at, [run[r] EXCEPT !.snap = Pristine])
  /\ UNCHANGED <<used, works, head, edits, sessions, shared, events>>

\* run_verify_subprocess: pytest, which may time out
RunPytest(r) ==
  /\ pc[r] = "verify"
  /\ \/ Green /\ GoTo(r, "trust")
     \/ ~Green /\ Red(r)
     \/ GoTo(r, "halted")
  /\ UNCHANGED <<used, tree, sessions, shared, events>>

\* a green run is trusted when the trust surface is committed
CheckTrust(r) ==
  /\ pc[r] = "trust"
  /\ \/ Trusted /\ GoTo(r, "passed")
     \/ ~Trusted /\ Red(r)
  /\ UNCHANGED <<used, tree, sessions, shared, events>>

\* the reviewer: tampering or a verdict that cannot be used, or another iteration
Review(r) ==
  /\ pc[r] = "review"
  /\ GoTo(r, "halted") \/ NextIteration(r)
  /\ UNCHANGED <<used, tree, sessions, shared, events>>

-----------------------------------------------------------------------------
(* The phase-boundary review *)

\* bin/verify boundary; --fresh resets the counter
StartBoundary(r, fresh) ==
  /\ pc[r] = "idle"
  /\ \/ /\ fresh /\ events < MaxEvents /\ events' = events + 1
        /\ used' = [used EXCEPT !["boundary"] = 0]
     \/ ~fresh /\ UNCHANGED <<used, events>>
  /\ Becomes(r, "b_check", [NoRun EXCEPT !.kind = "boundary", !.iter = 1])
  /\ shared' = (shared \/ \E q \in Runs : Active(q))
  /\ UNCHANGED <<tree, sessions>>

\* (wrong) the counter is looked at before the first review only
CheckOnce(r) ==
  /\ pc[r] = "b_check"
  /\ GoTo(r, IF run[r].iter = 1 /\ Remaining("boundary") < 1 THEN "halted" ELSE "b_review")
  /\ UNCHANGED <<used, tree, sessions, shared, events>>

\* the counter is looked at before every review
Check(r) ==
  /\ pc[r] = "b_check"
  /\ GoTo(r, IF Remaining("boundary") < 1 THEN "halted" ELSE "b_review")
  /\ UNCHANGED <<used, tree, sessions, shared, events>>

\* (wrong) NEEDS_REVISION is not counted
ReviewUncounted(r) ==
  /\ pc[r] = "b_review"
  /\ \E at \in {"passed", "halted", "b_check"} : GoTo(r, at)
  /\ UNCHANGED <<used, tree, sessions, shared, events>>

\* the verdict: READY, HALT or unusable, NEEDS_REVISION
ReviewBoundary(r) ==
  /\ pc[r] = "b_review"
  /\ \E at \in {"passed", "halted", "b_count"} : GoTo(r, at)
  /\ UNCHANGED <<used, tree, sessions, shared, events>>

\* NEEDS_REVISION alone is counted
CountBoundary(r) ==
  /\ pc[r] = "b_count"
  /\ used' = [used EXCEPT !["boundary"] = @ + 1]
  /\ Becomes(r, IF run[r].iter + 1 > Cap THEN "halted" ELSE "b_check",
             [run[r] EXCEPT !.iter = @ + 1])
  /\ UNCHANGED <<tree, sessions, shared, events>>

-----------------------------------------------------------------------------
(* The others: chain-resume --inject, a close; kill -9 *)

PlaceInject ==
  /\ events < MaxEvents /\ ~surface.inject
  /\ events' = events + 1
  /\ surface' = [surface EXCEPT !.inject = TRUE]
  /\ UNCHANGED <<used, works, head, edits, pc, run, sessions, shared>>

Kill(r) ==
  /\ Active(r) /\ events < MaxEvents
  /\ events' = events + 1
  /\ GoTo(r, "halted")
  /\ UNCHANGED <<used, tree, sessions, shared>>

Step(r) ==
  \/ Limit(r) \/ Count(r) \/ Consume(r) \/ UnlinkInject(r) \/ Spawn(r)
  \/ SessionEnds(r) \/ RunPytest(r) \/ CheckTrust(r) \/ Review(r)
  \/ Check(r) \/ ReviewBoundary(r) \/ CountBoundary(r)

Next ==
  \/ \E r \in Runs :
       \/ \E k \in TestStep, given \in BOOLEAN : Start(r, k, given)
       \/ \E fresh \in BOOLEAN : StartBoundary(r, fresh)
       \/ Step(r) \/ CoderWrites(r) \/ Kill(r)
  \/ PlaceInject

Spec == Init /\ [][Next]_vars

\* Every call of a run returns: pytest has a timeout; for a session the code
\* relies on the SDK's own.  Nobody has to start a run.
FairSpec == Spec /\ \A r \in Runs : WF_vars(Step(r))
-----------------------------------------------------------------------------
Busy == {"limit", "count", "consume", "unlink", "spawn", "session", "verify",
         "trust", "review", "b_check", "b_review", "b_count"}

(***************************************************************************)
(* Properties                                                              *)
(***************************************************************************)

(* Every variable keeps its type; no run does more iterations than its     *)
(* limit, which is within the cap.                                         *)
TypeOK ==
  /\ used \in [Counters -> Nat] /\ sessions \in Nat
  /\ works \in BOOLEAN /\ surface \in Surface /\ head \in [TrustFiles -> Content]
  /\ pc \in [Runs -> Busy \cup Ends \cup {"idle"}]
  /\ run \in [Runs -> RunState]
  /\ \A r \in Runs :
       /\ run[r].limit <= Smaller(MaxRetries, Cap)
       /\ run[r].iter <= IF run[r].kind = "boundary" THEN Cap ELSE run[r].limit
  /\ shared \in BOOLEAN /\ edits \in Nat /\ events \in Nat

(* The counter is bumped before the work: a crash loses budget and never   *)
(* gives a session for nothing.  And the budget is kept over the runs of a *)
(* plan, whatever their number, as long as no two of them overlap.         *)
BudgetIsKept ==
  /\ sessions <= used["test_step"]
  /\ ~shared => \A c \in Counters : used[c] <= Cap

(* fixer-must-not-author-tests: when a guarded session ends, also with an  *)
(* error, no test and no conftest or ini file that was there is forged, if *)
(* the run started on a clean surface and the session with its plan        *)
(* unedited.  A conftest or ini file that the session adds outside tests/  *)
(* and the plan directory stays, and so does its edit of the plan.         *)
SessionLeavesNoForgery ==
  [][\A r \in Runs :
       ~shared /\ run[r].clean /\ pc[r] = "session"
         /\ pc'[r] # "session" /\ events' = events
         => \A g \in {"tests", "conftest"} : surface'.graded[g] = "ours"]_vars

(* Such a run passes because the code works, or for one of two reasons the *)
(* loop has no defence against: the plan's list is edited, or a conftest   *)
(* or ini file is there that a session added and committed.  No forged     *)
(* test, no forged conftest and no file that is merely added passes for    *)
(* it.  Two runs in one working tree void this.                            *)
PassIsEarned ==
  [][\A r \in Runs :
       ~shared /\ run[r].clean /\ pc[r] = "trust" /\ pc'[r] = "passed"
         => \/ works \/ surface.graded["plan"] = "forged"
            \/ surface.graded["added"] = "forged" /\ head["added"] = "forged"]_vars

(* Every run that is started ends: no verdict sequence, reset or inject    *)
(* keeps it going.                                                         *)
EveryRunEnds == \A r \in Runs : Active(r) ~> ~Active(r)
=============================================================================
