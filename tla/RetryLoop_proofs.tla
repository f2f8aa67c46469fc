-------------------------- MODULE RetryLoop_proofs --------------------------
(***************************************************************************)
(* Proofs about RetryLoop, for every finite set of runs, every cap and     *)
(* every number of injects, resets and kills; about the gates of           *)
(* tests_enabled, for every plan, junction and world; and about the reader *)
(* of the reviewer's answers, for every answer.                            *)
(***************************************************************************)
EXTENDS MCRetryLoop, FiniteSetTheorems, WellFoundedInduction, TLAPS

(***************************************************************************)
(* The inductive invariant.  TypeOK is not inductive: that no iteration is *)
(* beyond the limit is known from where the run stands (LoopInv).  What a  *)
(* run may still spend fits the budget (BudgetInv), a counted iteration    *)
(* whose session has not begun is owed to it (OweInv), and a run that      *)
(* started clean, each session of which began with the plan unedited, has  *)
(* no forged test or conftest, or is in a session whose snapshot protects  *)
(* them; and a green suite it is about to trust is green for a reason      *)
(* (CleanInv).  The second and the last hold while no two runs have        *)
(* overlapped, so that at most one is active (AloneInv).                   *)
(***************************************************************************)
Counted == {"consume", "unlink", "spawn"}
InLoop == Counted \cup {"count", "session", "verify", "trust", "review"}
InReview == {"b_check", "b_review", "b_count"}

LoopInv == \A r \in Runs :
  /\ pc[r] = "limit" => run[r].kind # "boundary" /\ run[r].iter = 0
  /\ pc[r] \in InLoop => run[r].kind # "boundary" /\ 1 <= run[r].limit
  /\ pc[r] = "count" => run[r].iter < run[r].limit
  /\ pc[r] \in InReview => run[r].kind = "boundary"

AloneInv == ~shared => \A q, r \in Runs : Active(q) /\ Active(r) => q = r

BudgetInv == ~shared =>
  /\ \A c \in Counters : used[c] <= Cap
  /\ \A r \in Runs :
       /\ pc[r] \in InLoop => used["test_step"] + (run[r].limit - run[r].iter) <= Cap
       /\ pc[r] \in {"b_review", "b_count"} => used["boundary"] < Cap

Owing == {r \in Runs : pc[r] \in Counted}
OweInv == sessions + Cardinality(Owing) <= used["test_step"]

Unforged(graded) == \A g \in {"tests", "conftest"} : graded[g] = "ours"

CleanInv == \A r \in Runs :
  run[r].clean =>
    /\ Active(r) /\ Guarded(run[r].kind)
    /\ ~shared => IF pc[r] = "session"
                THEN Unforged(run[r].snap.graded) /\ run[r].snap.graded["plan"] = "ours"
                ELSE Unforged(surface.graded)
    /\ ~shared /\ pc[r] = "trust" =>
         works \/ \E g \in {"plan", "added"} : surface.graded[g] = "forged"

RetryInv == TypeOK /\ LoopInv /\ AloneInv /\ BudgetInv /\ OweInv /\ CleanInv

-----------------------------------------------------------------------------
(* The part of the types that is about the runs, and how a run goes on.    *)
Bounded(state) ==
  /\ state.limit <= Smaller(MaxRetries, Cap)
  /\ state.iter <= IF state.kind = "boundary" THEN Cap ELSE state.limit

RunsTyped ==
  /\ pc \in [Runs -> Busy \cup Ends \cup {"idle"}]
  /\ run \in [Runs -> RunState]
  /\ \A r \in Runs : Bounded(run[r])

LEMMA SurfaceFacts ==
  /\ Pristine \in Surface
  /\ \A s \in Surface, b \in BOOLEAN : [s EXCEPT !.inject = b] \in Surface
  /\ \A s \in Surface, g \in Graded, c \in Content : [s EXCEPT !.graded[g] = c] \in Surface
  /\ \A s \in Surface : s.graded \in [Graded -> Content] /\ s.inject \in BOOLEAN
  /\ \A g \in [Graded -> Content], b \in BOOLEAN : [graded |-> g, inject |-> b] \in Surface
  <1>1. Pristine \in Surface
    BY DEF Pristine, Surface, Content, Graded, TrustFiles
  <1>2. \A s \in Surface, g \in Graded, c \in Content : [s EXCEPT !.graded[g] = c] \in Surface
    BY DEF Surface
  <1>3. QED
    BY <1>1, <1>2 DEF Surface

LEMMA NoRunFacts == NoRun \in RunState /\ Bounded(NoRun)
  BY RetryAssumption, SurfaceFacts DEF NoRun, RunState, Bounded, Kinds, TestStep, Smaller

LEMMA BecomesTyped ==
  ASSUME RunsTyped, NEW r \in Runs, NEW at \in Busy \cup Ends,
         NEW state \in RunState, Bounded(state), Becomes(r, at, state)
  PROVE  RunsTyped'
  <1>1. run' \in [Runs -> RunState]
    BY NoRunFacts DEF RunsTyped, Becomes
  <1>2. ASSUME NEW q \in Runs PROVE Bounded(run'[q])
    BY <1>2, NoRunFacts DEF RunsTyped, Becomes
  <1>3. \A q \in Runs : Bounded(run[q])'
    BY <1>2 DEF Bounded
  <1>4. pc' \in [Runs -> Busy \cup Ends \cup {"idle"}]
    BY DEF RunsTyped, Becomes
  <1>5. QED
    BY <1>1, <1>3, <1>4 DEF RunsTyped

(* An EXCEPT on what a run knows is typed if its new values are.           *)
LEMMA RunStateFacts ==
  ASSUME NEW s \in RunState
  PROVE  /\ \A b \in BOOLEAN : [s EXCEPT !.body = b] \in RunState
         /\ \A f \in Surface : [s EXCEPT !.snap = f] \in RunState
         /\ \A n \in Nat : [s EXCEPT !.limit = n] \in RunState
         /\ \A n \in Nat : [s EXCEPT !.iter = n] \in RunState
         /\ \A k \in Kinds, b, c \in BOOLEAN :
              [s EXCEPT !.kind = k, !.body = b, !.clean = c] \in RunState
         /\ \A k \in Kinds, n \in Nat : [s EXCEPT !.kind = k, !.iter = n] \in RunState
         /\ s.limit \in Nat /\ s.iter \in Nat /\ s.snap \in Surface
         /\ s.body \in BOOLEAN
  BY DEF RunState

(* What is not about the runs.                                             *)
FilesTyped ==
  /\ used \in [Counters -> Nat] /\ sessions \in Nat
  /\ works \in BOOLEAN /\ surface \in Surface /\ head \in [TrustFiles -> Content]
  /\ shared \in BOOLEAN /\ edits \in Nat /\ events \in Nat

LEMMA TypeParts == TypeOK <=> FilesTyped /\ RunsTyped
  BY DEF TypeOK, FilesTyped, RunsTyped, Bounded

(* Every step keeps the types, and the iterations within the limit.        *)
LEMMA TypeStep == TypeOK /\ LoopInv /\ [Next]_vars => TypeOK'
  <1> SUFFICES ASSUME FilesTyped, RunsTyped, LoopInv, [Next]_vars
               PROVE  FilesTyped' /\ RunsTyped'
    BY TypeParts, PTL
  <1> USE RetryAssumption DEF tree, Ends, Busy
  <1>r. ASSUME NEW r \in Runs
        PROVE  run[r] \in RunState /\ Bounded(run[r])
    BY DEF RunsTyped
  <1>1. ASSUME NEW r \in Runs, NEW k \in TestStep, NEW given \in BOOLEAN, Start(r, k, given)
        PROVE FilesTyped' /\ RunsTyped'
    <2> DEFINE state == [NoRun EXCEPT !.kind = k, !.body = given,
                                      !.clean = Guarded(k) /\ Clean(surface)]
    <2>1. state \in RunState
      BY NoRunFacts, RunStateFacts DEF Kinds, Guarded, Clean
    <2>2. Bounded(state)
      BY NoRunFacts DEF Bounded, NoRun, TestStep
    <2>3. Becomes(r, "limit", state)
      BY <1>1 DEF Start
    <2>4. RunsTyped'
      BY <2>1, <2>2, <2>3, BecomesTyped
    <2>5. QED
      BY <2>4, <1>1 DEF Start, FilesTyped
  <1>2. ASSUME NEW r \in Runs, NEW fresh \in BOOLEAN, StartBoundary(r, fresh)
        PROVE FilesTyped' /\ RunsTyped'
    <2> DEFINE state == [NoRun EXCEPT !.kind = "boundary", !.iter = 1]
    <2>1. state \in RunState
      BY NoRunFacts, RunStateFacts DEF Kinds
    <2>2. Bounded(state)
      BY NoRunFacts DEF Bounded, NoRun
    <2>3. Becomes(r, "b_check", state)
      BY <1>2 DEF StartBoundary
    <2>4. RunsTyped'
      BY <2>1, <2>2, <2>3, BecomesTyped
    <2>5. FilesTyped'
      BY <1>2 DEF StartBoundary, FilesTyped, Counters
    <2>6. QED
      BY <2>4, <2>5
  <1>3. ASSUME NEW r \in Runs, Limit(r) PROVE FilesTyped' /\ RunsTyped'
    <2> DEFINE max == Smaller(MaxRetries, Remaining("test_step"))
    <2>1. max \in Nat /\ max <= Smaller(MaxRetries, Cap)
      BY DEF Smaller, Remaining, FilesTyped, Counters
    <2>2. [run[r] EXCEPT !.limit = max] \in RunState
      BY <1>r, <2>1, RunStateFacts
    <2>3. Bounded([run[r] EXCEPT !.limit = max])
      BY <1>3, <1>r, <2>1 DEF Bounded, RunState, LoopInv, Limit
    <2>4. PICK at \in {"halted", "verify", "count"} :
                 Becomes(r, at, [run[r] EXCEPT !.limit = max])
      BY <1>3 DEF Limit
    <2>5. RunsTyped'
      BY <2>2, <2>3, <2>4, BecomesTyped
    <2>6. QED
      BY <2>5, <1>3 DEF Limit, FilesTyped
  <1>4. ASSUME NEW r \in Runs, Count(r) PROVE FilesTyped' /\ RunsTyped'
    <2>1. [run[r] EXCEPT !.iter = @ + 1] \in RunState
      <3>1. run[r].iter + 1 \in Nat
        BY <1>r DEF RunState
      <3>2. QED
        BY <3>1, <1>r, RunStateFacts
    <2>2. Bounded([run[r] EXCEPT !.iter = @ + 1])
      BY <1>4, <1>r DEF Bounded, RunState, LoopInv, Count, InLoop
    <2>3. RunsTyped'
      BY <1>4, <2>1, <2>2, BecomesTyped DEF Count
    <2>4. QED
      BY <2>3, <1>4 DEF Count, FilesTyped, Counters
  <1>5. ASSUME NEW r \in Runs, Consume(r) PROVE FilesTyped' /\ RunsTyped'
    <2>1. /\ [run[r] EXCEPT !.body = TRUE] \in RunState
          /\ Bounded([run[r] EXCEPT !.body = TRUE])
      <3>1. [run[r] EXCEPT !.body = TRUE] \in RunState
        BY <1>r, RunStateFacts
      <3>2. Bounded([run[r] EXCEPT !.body = TRUE])
        BY <1>r DEF Bounded, RunState
      <3>3. QED
        BY <3>1, <3>2
    <2>2. RunsTyped'
      BY <1>5, <1>r, <2>1, BecomesTyped DEF Consume, GoTo
    <2>3. QED
      BY <2>2, <1>5 DEF Consume, FilesTyped
  <1>6. ASSUME NEW r \in Runs, UnlinkInject(r) PROVE FilesTyped' /\ RunsTyped'
    <2>1. RunsTyped'
      BY <1>6, <1>r, BecomesTyped DEF UnlinkInject, GoTo
    <2>2. surface' \in Surface
      BY <1>6, SurfaceFacts DEF UnlinkInject, FilesTyped
    <2>3. QED
      BY <2>1, <2>2, <1>6 DEF UnlinkInject, FilesTyped
  <1>7. ASSUME NEW r \in Runs, Spawn(r) PROVE FilesTyped' /\ RunsTyped'
    <2> DEFINE snap == IF Guarded(run[r].kind) THEN surface ELSE Pristine
    <2> DEFINE state == [run[r] EXCEPT !.body = FALSE,
                           !.clean = @ /\ surface.graded["plan"] = "ours", !.snap = snap]
    <2>1. snap \in Surface
      BY SurfaceFacts DEF FilesTyped
    <2>2. state \in RunState
      BY <2>1, <1>r DEF RunState
    <2>3. Bounded(state)
      BY <1>r DEF Bounded, RunState
    <2>4. Becomes(r, "session", state)
      BY <1>7 DEF Spawn
    <2>5. RunsTyped'
      BY <2>2, <2>3, <2>4, BecomesTyped
    <2>6. QED
      BY <2>5, <1>7 DEF Spawn, FilesTyped
  <1>8. ASSUME NEW r \in Runs, SessionEnds(r) PROVE FilesTyped' /\ RunsTyped'
    <2>1. /\ [run[r] EXCEPT !.snap = Pristine] \in RunState
          /\ Bounded([run[r] EXCEPT !.snap = Pristine])
      <3>1. [run[r] EXCEPT !.snap = Pristine] \in RunState
        BY <1>r, SurfaceFacts, RunStateFacts
      <3>2. Bounded([run[r] EXCEPT !.snap = Pristine])
        BY <1>r DEF Bounded, RunState
      <3>3. QED
        BY <3>1, <3>2
    <2>2. RunsTyped'
      BY <1>8, <2>1, BecomesTyped DEF SessionEnds
    <2>3. run[r].snap \in Surface
      BY <1>r, RunStateFacts
    <2>4. surface' \in Surface
      BY <1>8, <2>3 DEF SessionEnds, Enforced, FilesTyped, Surface
    <2>5. QED
      BY <2>2, <2>4, <1>8 DEF SessionEnds, FilesTyped
  <1>9. ASSUME NEW r \in Runs, NEW at \in Busy \cup Ends, GoTo(r, at),
               UNCHANGED <<used, tree, sessions, shared>>, events' \in Nat
        PROVE FilesTyped' /\ RunsTyped'
    <2>1. RunsTyped'
      BY <1>9, <1>r, BecomesTyped DEF GoTo
    <2>2. QED
      BY <2>1, <1>9 DEF FilesTyped
  <1>10. ASSUME NEW r \in Runs,
                RunPytest(r) \/ CheckTrust(r) \/ Review(r) \/ Check(r) \/ ReviewBoundary(r)
         PROVE FilesTyped' /\ RunsTyped'
    <2>1. \E at \in Busy \cup Ends : GoTo(r, at)
      BY <1>10 DEF RunPytest, Red, CheckTrust, Review, NextIteration, Check, ReviewBoundary
    <2>2. UNCHANGED <<used, tree, sessions, shared>> /\ events' \in Nat
      BY <1>10 DEF RunPytest, CheckTrust, Review, Check, ReviewBoundary, FilesTyped
    <2>3. QED
      BY <2>1, <2>2, <1>9
  <1>11. ASSUME NEW r \in Runs, CountBoundary(r) PROVE FilesTyped' /\ RunsTyped'
    <2> DEFINE state == [run[r] EXCEPT !.iter = @ + 1]
    <2>1. state \in RunState
      <3>1. run[r].iter + 1 \in Nat
        BY <1>r DEF RunState
      <3>2. QED
        BY <3>1, <1>r, RunStateFacts
    <2>2. CASE run[r].iter + 1 > Cap
      <3>1. GoTo(r, "halted")
        BY <1>11, <2>2 DEF CountBoundary, Becomes, GoTo
      <3>2. RunsTyped'
        BY <3>1, <1>r, BecomesTyped DEF GoTo
      <3>3. QED
        BY <3>2, <1>11 DEF CountBoundary, FilesTyped, Counters
    <2>3. CASE run[r].iter + 1 <= Cap
      <3>1. Bounded(state)
        BY <2>3, <1>11, <1>r DEF Bounded, RunState, LoopInv, InReview, CountBoundary
      <3>2. Becomes(r, "b_check", state)
        BY <1>11, <2>3, <1>r DEF CountBoundary, RunState
      <3>3. RunsTyped'
        BY <2>1, <3>1, <3>2, BecomesTyped
      <3>4. QED
        BY <3>3, <1>11 DEF CountBoundary, FilesTyped, Counters
    <2>4. QED
      BY <2>2, <2>3, <1>r DEF RunState
  <1>12. ASSUME NEW r \in Runs, CoderWrites(r) PROVE FilesTyped' /\ RunsTyped'
    <2>1. surface' \in Surface
      BY <1>12, SurfaceFacts DEF CoderWrites, FilesTyped
    <2>2. head' \in [TrustFiles -> Content]
      BY <1>12, SurfaceFacts DEF CoderWrites, FilesTyped, Graded
    <2>3. works' \in BOOLEAN
      BY <1>12 DEF CoderWrites, FilesTyped
    <2>4. edits' \in Nat
      BY <1>12 DEF CoderWrites, FilesTyped
    <2>5. FilesTyped'
      BY <2>1, <2>2, <2>3, <2>4, <1>12 DEF CoderWrites, FilesTyped
    <2>6. QED
      BY <2>5, <1>12 DEF CoderWrites, RunsTyped, Bounded
  <1>13. ASSUME NEW r \in Runs, Kill(r) PROVE FilesTyped' /\ RunsTyped'
    BY <1>13, <1>9 DEF Kill, FilesTyped
  <1>14. ASSUME PlaceInject PROVE FilesTyped' /\ RunsTyped'
    <2>1. surface' \in Surface
      BY <1>14, SurfaceFacts DEF PlaceInject, FilesTyped
    <2>2. QED
      BY <2>1, <1>14 DEF PlaceInject, FilesTyped, RunsTyped, Bounded
  <1>15. ASSUME UNCHANGED vars PROVE FilesTyped' /\ RunsTyped'
    BY <1>15 DEF vars, FilesTyped, RunsTyped, Bounded
  <1>16. QED
    BY <1>1, <1>2, <1>3, <1>4, <1>5, <1>6, <1>7, <1>8, <1>10, <1>11, <1>12, <1>13,
       <1>14, <1>15 DEF Next, Step

(* Every step leads from one place of a loop to the next.                  *)
LEMMA LoopStep == TypeOK /\ LoopInv /\ [Next]_vars => LoopInv'
  <1> SUFFICES ASSUME TypeOK /\ LoopInv, [Next]_vars PROVE LoopInv'
    OBVIOUS
  <1> USE RetryAssumption DEF TypeOK, LoopInv, RunState, NoRun, Busy, InLoop, InReview, Counted, Smaller, tree, Kinds, TestStep, Counters, Ends
  <1>1. ASSUME NEW r \in Runs, NEW k \in TestStep, NEW given \in BOOLEAN, Start(r, k, given) PROVE LoopInv'
    BY <1>1 DEF Start, Becomes
  <1>2. ASSUME NEW r \in Runs, NEW fresh \in BOOLEAN, StartBoundary(r, fresh) PROVE LoopInv'
    BY <1>2 DEF StartBoundary, Becomes
  <1>3. ASSUME NEW r \in Runs, Limit(r) PROVE LoopInv'
    BY <1>3 DEF Limit, Becomes, Remaining, Smaller
  <1>4. ASSUME NEW r \in Runs, Count(r) PROVE LoopInv'
    BY <1>4 DEF Count, Becomes
  <1>5. ASSUME NEW r \in Runs, Consume(r) PROVE LoopInv'
    BY <1>5 DEF Consume, GoTo, Becomes
  <1>6. ASSUME NEW r \in Runs, UnlinkInject(r) PROVE LoopInv'
    BY <1>6 DEF UnlinkInject, GoTo, Becomes
  <1>7. ASSUME NEW r \in Runs, Spawn(r) PROVE LoopInv'
    BY <1>7 DEF Spawn, Becomes
  <1>8. ASSUME NEW r \in Runs, SessionEnds(r) PROVE LoopInv'
    BY <1>8 DEF SessionEnds, Enforced, Becomes
  <1>9. ASSUME NEW r \in Runs, RunPytest(r) PROVE LoopInv'
    BY <1>9 DEF RunPytest, Red, GoTo, Becomes
  <1>10. ASSUME NEW r \in Runs, CheckTrust(r) PROVE LoopInv'
    BY <1>10 DEF CheckTrust, Red, GoTo, Becomes
  <1>11. ASSUME NEW r \in Runs, Review(r) PROVE LoopInv'
    BY <1>11 DEF Review, NextIteration, GoTo, Becomes
  <1>12. ASSUME NEW r \in Runs, Check(r) PROVE LoopInv'
    BY <1>12 DEF Check, Remaining, GoTo, Becomes
  <1>13. ASSUME NEW r \in Runs, ReviewBoundary(r) PROVE LoopInv'
    BY <1>13 DEF ReviewBoundary, GoTo, Becomes
  <1>14. ASSUME NEW r \in Runs, CountBoundary(r) PROVE LoopInv'
    BY <1>14 DEF CountBoundary, Becomes
  <1>15. ASSUME NEW r \in Runs, CoderWrites(r) PROVE LoopInv'
    BY <1>15 DEF CoderWrites
  <1>16. ASSUME NEW r \in Runs, Kill(r) PROVE LoopInv'
    BY <1>16 DEF Kill, GoTo, Becomes
  <1>17. ASSUME PlaceInject PROVE LoopInv'
    BY <1>17 DEF PlaceInject
  <1>18. ASSUME UNCHANGED vars PROVE LoopInv'
    BY <1>18 DEF vars
  <1>19. QED
    BY <1>1, <1>2, <1>3, <1>4, <1>5, <1>6, <1>7, <1>8, <1>9, <1>10, <1>11, <1>12, <1>13, <1>14, <1>15, <1>16, <1>17, <1>18 DEF Next, Step

(* A run that starts beside another is noticed.                            *)
LEMMA AloneStep == TypeOK /\ AloneInv /\ [Next]_vars => AloneInv'
  <1> SUFFICES ASSUME TypeOK /\ AloneInv, [Next]_vars PROVE AloneInv'
    OBVIOUS
  <1> USE DEF TypeOK, AloneInv, Active, Busy, tree, Kinds, TestStep, Counters, Ends
  <1>1. ASSUME NEW r \in Runs, NEW k \in TestStep, NEW given \in BOOLEAN, Start(r, k, given) PROVE AloneInv'
    BY <1>1 DEF Start, Becomes
  <1>2. ASSUME NEW r \in Runs, NEW fresh \in BOOLEAN, StartBoundary(r, fresh) PROVE AloneInv'
    BY <1>2 DEF StartBoundary, Becomes
  <1>3. ASSUME NEW r \in Runs, Limit(r) PROVE AloneInv'
    BY <1>3 DEF Limit, Becomes, Remaining, Smaller
  <1>4. ASSUME NEW r \in Runs, Count(r) PROVE AloneInv'
    BY <1>4 DEF Count, Becomes
  <1>5. ASSUME NEW r \in Runs, Consume(r) PROVE AloneInv'
    BY <1>5 DEF Consume, GoTo, Becomes
  <1>6. ASSUME NEW r \in Runs, UnlinkInject(r) PROVE AloneInv'
    BY <1>6 DEF UnlinkInject, GoTo, Becomes
  <1>7. ASSUME NEW r \in Runs, Spawn(r) PROVE AloneInv'
    BY <1>7 DEF Spawn, Becomes
  <1>8. ASSUME NEW r \in Runs, SessionEnds(r) PROVE AloneInv'
    BY <1>8 DEF SessionEnds, Enforced, Becomes
  <1>9. ASSUME NEW r \in Runs, RunPytest(r) PROVE AloneInv'
    BY <1>9 DEF RunPytest, Red, GoTo, Becomes
  <1>10. ASSUME NEW r \in Runs, CheckTrust(r) PROVE AloneInv'
    BY <1>10 DEF CheckTrust, Red, GoTo, Becomes
  <1>11. ASSUME NEW r \in Runs, Review(r) PROVE AloneInv'
    BY <1>11 DEF Review, NextIteration, GoTo, Becomes
  <1>12. ASSUME NEW r \in Runs, Check(r) PROVE AloneInv'
    BY <1>12 DEF Check, Remaining, GoTo, Becomes
  <1>13. ASSUME NEW r \in Runs, ReviewBoundary(r) PROVE AloneInv'
    BY <1>13 DEF ReviewBoundary, GoTo, Becomes
  <1>14. ASSUME NEW r \in Runs, CountBoundary(r) PROVE AloneInv'
    BY <1>14 DEF CountBoundary, Becomes
  <1>15. ASSUME NEW r \in Runs, CoderWrites(r) PROVE AloneInv'
    BY <1>15 DEF CoderWrites
  <1>16. ASSUME NEW r \in Runs, Kill(r) PROVE AloneInv'
    BY <1>16 DEF Kill, GoTo, Becomes
  <1>17. ASSUME PlaceInject PROVE AloneInv'
    BY <1>17 DEF PlaceInject
  <1>18. ASSUME UNCHANGED vars PROVE AloneInv'
    BY <1>18 DEF vars
  <1>19. QED
    BY <1>1, <1>2, <1>3, <1>4, <1>5, <1>6, <1>7, <1>8, <1>9, <1>10, <1>11, <1>12, <1>13, <1>14, <1>15, <1>16, <1>17, <1>18 DEF Next, Step

(* What an active run may still spend is left of the cap.                  *)
LEMMA BudgetStep == TypeOK /\ LoopInv /\ AloneInv /\ BudgetInv /\ [Next]_vars => BudgetInv'
  <1> SUFFICES ASSUME TypeOK /\ LoopInv /\ AloneInv /\ BudgetInv, [Next]_vars PROVE BudgetInv'
    OBVIOUS
  <1> USE RetryAssumption DEF TypeOK, LoopInv, AloneInv, BudgetInv, Active, RunState, NoRun, Busy, InLoop, InReview, Counted, tree, Kinds, TestStep, Counters, Ends
  <1>1. ASSUME NEW r \in Runs, NEW k \in TestStep, NEW given \in BOOLEAN, Start(r, k, given) PROVE BudgetInv'
    BY <1>1 DEF Start, Becomes
  <1>2. ASSUME NEW r \in Runs, NEW fresh \in BOOLEAN, StartBoundary(r, fresh) PROVE BudgetInv'
    BY <1>2 DEF StartBoundary, Becomes
  <1>3. ASSUME NEW r \in Runs, Limit(r) PROVE BudgetInv'
    BY <1>3 DEF Limit, Becomes, Remaining, Smaller
  <1>4. ASSUME NEW r \in Runs, Count(r) PROVE BudgetInv'
    BY <1>4 DEF Count, Becomes
  <1>5. ASSUME NEW r \in Runs, Consume(r) PROVE BudgetInv'
    <2>1. PICK at \in {"spawn", "unlink"} : pc' = [pc EXCEPT ![r] = at]
      BY <1>5 DEF Consume, GoTo, Becomes
    <2>2. shared' = shared /\ used' = used /\ pc[r] = "consume"
      BY <1>5 DEF Consume
    <2>3. \A q \in Runs : run'[q].limit = run[q].limit /\ run'[q].iter = run[q].iter
      BY <1>5 DEF Consume, GoTo, Becomes
    <2>4. QED
      BY <2>1, <2>2, <2>3
  <1>6. ASSUME NEW r \in Runs, UnlinkInject(r) PROVE BudgetInv'
    BY <1>6 DEF UnlinkInject, GoTo, Becomes
  <1>7. ASSUME NEW r \in Runs, Spawn(r) PROVE BudgetInv'
    BY <1>7 DEF Spawn, Becomes
  <1>8. ASSUME NEW r \in Runs, SessionEnds(r) PROVE BudgetInv'
    BY <1>8 DEF SessionEnds, Enforced, Becomes
  <1>9. ASSUME NEW r \in Runs, RunPytest(r) PROVE BudgetInv'
    BY <1>9 DEF RunPytest, Red, GoTo, Becomes
  <1>10. ASSUME NEW r \in Runs, CheckTrust(r) PROVE BudgetInv'
    BY <1>10 DEF CheckTrust, Red, GoTo, Becomes
  <1>11. ASSUME NEW r \in Runs, Review(r) PROVE BudgetInv'
    BY <1>11 DEF Review, NextIteration, GoTo, Becomes
  <1>12. ASSUME NEW r \in Runs, Check(r) PROVE BudgetInv'
    BY <1>12 DEF Check, Remaining, GoTo, Becomes
  <1>13. ASSUME NEW r \in Runs, ReviewBoundary(r) PROVE BudgetInv'
    BY <1>13 DEF ReviewBoundary, GoTo, Becomes
  <1>14. ASSUME NEW r \in Runs, CountBoundary(r) PROVE BudgetInv'
    BY <1>14 DEF CountBoundary, Becomes
  <1>15. ASSUME NEW r \in Runs, CoderWrites(r) PROVE BudgetInv'
    BY <1>15 DEF CoderWrites
  <1>16. ASSUME NEW r \in Runs, Kill(r) PROVE BudgetInv'
    BY <1>16 DEF Kill, GoTo, Becomes
  <1>17. ASSUME PlaceInject PROVE BudgetInv'
    BY <1>17 DEF PlaceInject
  <1>18. ASSUME UNCHANGED vars PROVE BudgetInv'
    BY <1>18 DEF vars
  <1>19. QED
    BY <1>1, <1>2, <1>3, <1>4, <1>5, <1>6, <1>7, <1>8, <1>9, <1>10, <1>11, <1>12, <1>13, <1>14, <1>15, <1>16, <1>17, <1>18 DEF Next, Step

(* Only a session soils the surface, and the guard of a run restores it.   *)
LEMMA CleanStep == TypeOK /\ LoopInv /\ AloneInv /\ CleanInv /\ [Next]_vars => CleanInv'
  <1> SUFFICES ASSUME TypeOK /\ LoopInv /\ AloneInv /\ CleanInv, [Next]_vars PROVE CleanInv'
    OBVIOUS
  <1> USE DEF TypeOK, LoopInv, AloneInv, CleanInv, Active, Clean, Guarded, Green, Unforged, RunState, NoRun, Surface, Pristine, Graded, TrustFiles, Content, Busy, InLoop, InReview, Counted, tree, Kinds, TestStep, Counters, Ends
  <1>1. ASSUME NEW r \in Runs, NEW k \in TestStep, NEW given \in BOOLEAN, Start(r, k, given) PROVE CleanInv'
    BY <1>1 DEF Start, Becomes
  <1>2. ASSUME NEW r \in Runs, NEW fresh \in BOOLEAN, StartBoundary(r, fresh) PROVE CleanInv'
    BY <1>2 DEF StartBoundary, Becomes
  <1>3. ASSUME NEW r \in Runs, Limit(r) PROVE CleanInv'
    BY <1>3 DEF Limit, Becomes, Remaining, Smaller
  <1>4. ASSUME NEW r \in Runs, Count(r) PROVE CleanInv'
    BY <1>4 DEF Count, Becomes
  <1>5. ASSUME NEW r \in Runs, Consume(r) PROVE CleanInv'
    BY <1>5, SMTT(60) DEF Consume, GoTo, Becomes
  <1>6. ASSUME NEW r \in Runs, UnlinkInject(r) PROVE CleanInv'
    BY <1>6 DEF UnlinkInject, GoTo, Becomes
  <1>7. ASSUME NEW r \in Runs, Spawn(r) PROVE CleanInv'
    BY <1>7 DEF Spawn, Becomes
  <1>8. ASSUME NEW r \in Runs, SessionEnds(r) PROVE CleanInv'
    BY <1>8 DEF SessionEnds, Enforced, Protected, Becomes
  <1>9. ASSUME NEW r \in Runs, RunPytest(r) PROVE CleanInv'
    BY <1>9 DEF RunPytest, Red, GoTo, Becomes
  <1>10. ASSUME NEW r \in Runs, CheckTrust(r) PROVE CleanInv'
    BY <1>10 DEF CheckTrust, Red, GoTo, Becomes
  <1>11. ASSUME NEW r \in Runs, Review(r) PROVE CleanInv'
    <2>1. CASE GoTo(r, "halted")
      BY <2>1, <1>11 DEF Review, GoTo, Becomes
    <2>2. CASE NextIteration(r)
      <3>1. PICK at \in {"count", "halted"} : GoTo(r, at)
        BY <2>2 DEF NextIteration
      <3>2. QED
        BY <3>1, <1>11 DEF Review, GoTo, Becomes
    <2>3. QED
      BY <2>1, <2>2, <1>11 DEF Review
  <1>12. ASSUME NEW r \in Runs, Check(r) PROVE CleanInv'
    BY <1>12 DEF Check, Remaining, GoTo, Becomes
  <1>13. ASSUME NEW r \in Runs, ReviewBoundary(r) PROVE CleanInv'
    BY <1>13 DEF ReviewBoundary, GoTo, Becomes
  <1>14. ASSUME NEW r \in Runs, CountBoundary(r) PROVE CleanInv'
    BY <1>14 DEF CountBoundary, Becomes
  <1>15. ASSUME NEW r \in Runs, CoderWrites(r) PROVE CleanInv'
    BY <1>15 DEF CoderWrites
  <1>16. ASSUME NEW r \in Runs, Kill(r) PROVE CleanInv'
    BY <1>16 DEF Kill, GoTo, Becomes
  <1>17. ASSUME PlaceInject PROVE CleanInv'
    BY <1>17 DEF PlaceInject
  <1>18. ASSUME UNCHANGED vars PROVE CleanInv'
    BY <1>18 DEF vars
  <1>19. QED
    BY <1>1, <1>2, <1>3, <1>4, <1>5, <1>6, <1>7, <1>8, <1>9, <1>10, <1>11, <1>12, <1>13, <1>14, <1>15, <1>16, <1>17, <1>18, SMTT(30) DEF Next, Step

(* The runs that are owed a session: one of them changes place at a time.  *)
LEMMA OwingFacts ==
  /\ IsFiniteSet(Owing) /\ Cardinality(Owing) \in Nat
  /\ \A r \in Runs : IsFiniteSet(Owing \ {r}) /\ Cardinality(Owing \ {r}) \in Nat
  /\ \A r \in Owing : Cardinality(Owing) = Cardinality(Owing \ {r}) + 1
  /\ \A r \in Runs \ Owing : Cardinality(Owing \cup {r}) = Cardinality(Owing) + 1
  <1>1. IsFiniteSet(Owing)
    BY RetryAssumption, FS_Subset DEF Owing
  <1>2. \A r \in Runs : IsFiniteSet(Owing \ {r})
    BY <1>1, FS_Subset
  <1>3. \A r \in Owing : Cardinality(Owing \ {r}) = Cardinality(Owing) - 1
    BY <1>1, FS_RemoveElement
  <1>4. \A r \in Runs \ Owing : Cardinality(Owing \cup {r}) = Cardinality(Owing) + 1
    BY <1>1, FS_AddElement
  <1>5. Cardinality(Owing) \in Nat /\ \A r \in Runs : Cardinality(Owing \ {r}) \in Nat
    BY <1>1, <1>2, FS_CardinalityType
  <1>6. QED
    BY <1>1, <1>2, <1>3, <1>4, <1>5

(* A step that counts nothing and begins no session keeps the debt or      *)
(* drops it.                                                               *)
LEMMA OweLess ==
  ASSUME TypeOK, OweInv, NEW r \in Runs,
         UNCHANGED sessions, used'["test_step"] = used["test_step"],
         Owing' = Owing \/ Owing' = Owing \ {r}
  PROVE  OweInv'
  <1>1. Cardinality(Owing') \in Nat /\ Cardinality(Owing') <= Cardinality(Owing)
    <2>1. CASE Owing' = Owing
      BY <2>1, OwingFacts
    <2>2. CASE Owing' = Owing \ {r}
      <3>1. CASE r \in Owing
        BY <3>1, <2>2, OwingFacts
      <3>2. CASE r \notin Owing
        <4>1. Owing' = Owing
          BY <3>2, <2>2
        <4>2. Cardinality(Owing) <= Cardinality(Owing)
          BY OwingFacts
        <4>3. QED
          BY <4>1, <4>2, OwingFacts
      <3>3. QED
        BY <3>1, <3>2
    <2>3. QED
      BY <2>1, <2>2
  <1>2. /\ sessions \in Nat /\ used["test_step"] \in Nat
        /\ Cardinality(Owing) \in Nat
    BY OwingFacts DEF TypeOK, Counters
  <1>3. sessions + Cardinality(Owing') <= used["test_step"]
    BY <1>1, <1>2 DEF OweInv
  <1>4. QED
    BY <1>3 DEF OweInv

(* A session begins only against an iteration that was counted.            *)
LEMMA OweStep == TypeOK /\ OweInv /\ [Next]_vars => OweInv'
  <1> SUFFICES ASSUME TypeOK, OweInv, [Next]_vars PROVE OweInv'
    OBVIOUS
  <1> USE DEF Ends, Counted
  <1>t. /\ sessions \in Nat /\ used["test_step"] \in Nat
        /\ used \in [Counters -> Nat] /\ pc \in [Runs -> Busy \cup Ends \cup {"idle"}]
        /\ Cardinality(Owing) \in Nat
    BY OwingFacts DEF TypeOK, Counters
  <1>1. ASSUME NEW r \in Runs, NEW at, pc' = [pc EXCEPT ![r] = at],
               at \in Counted => pc[r] \in Counted,
               UNCHANGED sessions, used'["test_step"] = used["test_step"]
        PROVE OweInv'
    <2>1. Owing' = Owing \/ Owing' = Owing \ {r}
      BY <1>1, <1>t DEF Owing
    <2>2. QED
      BY <2>1, <1>1, OweLess
  <1>2. ASSUME NEW r \in Runs, NEW k \in TestStep, NEW given \in BOOLEAN, Start(r, k, given)
        PROVE OweInv'
    BY <1>2, <1>1 DEF Start, Becomes
  <1>3. ASSUME NEW r \in Runs, NEW fresh \in BOOLEAN, StartBoundary(r, fresh)
        PROVE OweInv'
    BY <1>3, <1>1, <1>t DEF StartBoundary, Becomes, Counters
  <1>4. ASSUME NEW r \in Runs, Count(r) PROVE OweInv'
    <2>1. Owing' = Owing \cup {r} /\ r \in Runs \ Owing
      BY <1>4, <1>t DEF Count, Becomes, Owing
    <2>2. Cardinality(Owing') = Cardinality(Owing) + 1
      BY <2>1, OwingFacts
    <2>3. used'["test_step"] = used["test_step"] + 1 /\ sessions' = sessions
      BY <1>4, <1>t DEF Count, Counters
    <2>4. sessions' + Cardinality(Owing') <= used'["test_step"]
      BY <2>2, <2>3, <1>t DEF OweInv
    <2>5. QED
      BY <2>4 DEF OweInv
  <1>5. ASSUME NEW r \in Runs, Spawn(r) PROVE OweInv'
    <2>1. Owing' = Owing \ {r} /\ r \in Owing
      BY <1>5, <1>t DEF Spawn, Becomes, Owing
    <2>2. Cardinality(Owing) = Cardinality(Owing') + 1 /\ Cardinality(Owing') \in Nat
      BY <2>1, OwingFacts
    <2>3. sessions' = sessions + 1 /\ used' = used
      BY <1>5 DEF Spawn
    <2>4. sessions' + Cardinality(Owing') <= used'["test_step"]
      BY <2>2, <2>3, <1>t DEF OweInv
    <2>5. QED
      BY <2>4 DEF OweInv
  <1>6. ASSUME NEW r \in Runs, NEW at, GoTo(r, at),
               at \in Counted => pc[r] \in Counted, UNCHANGED <<sessions, used>>
        PROVE OweInv'
    BY <1>6, <1>1 DEF GoTo, Becomes
  <1>7. ASSUME NEW r \in Runs, Limit(r) PROVE OweInv'
    BY <1>7, <1>1 DEF Limit, Becomes
  <1>8. ASSUME NEW r \in Runs, Consume(r) PROVE OweInv'
    BY <1>8, <1>1 DEF Consume, GoTo, Becomes
  <1>9. ASSUME NEW r \in Runs, UnlinkInject(r) PROVE OweInv'
    BY <1>9, <1>6 DEF UnlinkInject
  <1>10. ASSUME NEW r \in Runs, SessionEnds(r) PROVE OweInv'
    BY <1>10, <1>1 DEF SessionEnds, Becomes
  <1>11. ASSUME NEW r \in Runs, RunPytest(r) PROVE OweInv'
    BY <1>11, <1>6 DEF RunPytest, Red
  <1>12. ASSUME NEW r \in Runs, CheckTrust(r) PROVE OweInv'
    BY <1>12, <1>6 DEF CheckTrust, Red
  <1>13. ASSUME NEW r \in Runs, Review(r) PROVE OweInv'
    BY <1>13, <1>6 DEF Review, NextIteration
  <1>14. ASSUME NEW r \in Runs, Check(r) PROVE OweInv'
    BY <1>14, <1>6 DEF Check
  <1>15. ASSUME NEW r \in Runs, ReviewBoundary(r) PROVE OweInv'
    BY <1>15, <1>6 DEF ReviewBoundary
  <1>16. ASSUME NEW r \in Runs, CountBoundary(r) PROVE OweInv'
    BY <1>16, <1>1, <1>t DEF CountBoundary, Becomes, Counters
  <1>17. ASSUME NEW r \in Runs, Kill(r) PROVE OweInv'
    BY <1>17, <1>6 DEF Kill
  <1>18. ASSUME UNCHANGED <<pc, sessions, used>> PROVE OweInv'
    BY <1>18 DEF OweInv, Owing
  <1>19. QED
    BY <1>2, <1>3, <1>4, <1>5, <1>7, <1>8, <1>9, <1>10, <1>11, <1>12, <1>13, <1>14,
       <1>15, <1>16, <1>17, <1>18 DEF Next, Step, CoderWrites, PlaceInject, vars

-----------------------------------------------------------------------------
(* The theorems                                                            *)

LEMMA RetryInit == Init => RetryInv
  <1> SUFFICES ASSUME Init PROVE RetryInv
    OBVIOUS
  <1>1. TypeOK
    BY SurfaceFacts, NoRunFacts, RetryAssumption DEF Init, TypeOK, Counters, Ends, Content, Bounded
  <1>2. Owing = {}
    BY DEF Init, Owing, Counted
  <1>3. OweInv
    BY <1>2, FS_EmptySet DEF Init, OweInv, Counters
  <1>4. LoopInv /\ AloneInv /\ BudgetInv /\ CleanInv
    BY RetryAssumption DEF Init, LoopInv, AloneInv, BudgetInv, CleanInv, Active, Ends, InLoop,
       InReview, Counted, NoRun, Counters
  <1>5. QED
    BY <1>1, <1>3, <1>4 DEF RetryInv

(* The inductive invariant of the loops, for any number of runs.           *)
THEOREM RetryCorrect == Spec => []RetryInv
  <1>1. RetryInv /\ [Next]_vars => RetryInv'
    BY TypeStep, LoopStep, AloneStep, BudgetStep, OweStep, CleanStep DEF RetryInv
  <1>2. QED
    BY RetryInit, <1>1, PTL DEF Spec

(* Every variable keeps its type, and no run iterates beyond its limit.    *)
THEOREM TypeCorrect == Spec => []TypeOK
  <1>1. RetryInv => TypeOK
    BY DEF RetryInv
  <1>2. QED
    BY RetryCorrect, <1>1, PTL

(* unified_counter_increment comes before the work: no session is for      *)
(* nothing, and runs that follow one another keep the cap.                 *)
THEOREM BudgetKept == Spec => []BudgetIsKept
  <1>1. RetryInv => BudgetIsKept
    <2> SUFFICES ASSUME RetryInv PROVE BudgetIsKept
      OBVIOUS
    <2>1. sessions \in Nat /\ used["test_step"] \in Nat
      BY DEF RetryInv, TypeOK, Counters
    <2>2. sessions <= used["test_step"]
      BY <2>1, OwingFacts DEF RetryInv, OweInv
    <2>3. QED
      BY <2>2 DEF RetryInv, BudgetInv, BudgetIsKept
  <1>2. QED
    BY RetryCorrect, <1>1, PTL

(* Only its own step, or a kill, takes a run from where it stands.         *)
LEMMA OwnStep ==
  ASSUME TypeOK, [Next]_vars, NEW r \in Runs, pc[r] # "idle", pc'[r] # pc[r]
  PROVE  Step(r) \/ Kill(r)
  <1>1. ASSUME NEW q \in Runs, NEW at, NEW state, Becomes(q, at, state)
        PROVE  q = r
    BY <1>1 DEF TypeOK, Becomes
  <1>2. ASSUME NEW q \in Runs, NEW at, GoTo(q, at)
        PROVE  q = r
    BY <1>2, <1>1 DEF GoTo
  <1>3. ASSUME UNCHANGED pc PROVE FALSE
    BY <1>3
  <1>4. ASSUME NEW q \in Runs, Step(q) PROVE q = r
    <2>1. CASE Limit(q) \/ Count(q) \/ Consume(q) \/ Spawn(q) \/ CountBoundary(q) \/ SessionEnds(q)
      BY <2>1, <1>1, <1>2 DEF Limit, Count, Consume, Spawn, CountBoundary, SessionEnds
    <2>2. CASE UnlinkInject(q) \/ RunPytest(q) \/ CheckTrust(q) \/ Review(q)
                 \/ Check(q) \/ ReviewBoundary(q)
      BY <2>2, <1>2 DEF UnlinkInject, RunPytest, CheckTrust, Review, Check,
         ReviewBoundary, Red, NextIteration
    <2>3. QED
      BY <1>4, <2>1, <2>2 DEF Step
  <1>5. ASSUME NEW q \in Runs, Kill(q) PROVE q = r
    BY <1>5, <1>2 DEF Kill
  <1>6. ASSUME NEW q \in Runs, NEW k \in TestStep, NEW given \in BOOLEAN, Start(q, k, given)
        PROVE  FALSE
    BY <1>6, <1>1 DEF Start
  <1>7. ASSUME NEW q \in Runs, NEW fresh \in BOOLEAN, StartBoundary(q, fresh)
        PROVE  FALSE
    BY <1>7, <1>1 DEF StartBoundary
  <1>8. QED
    BY <1>3, <1>4, <1>5, <1>6, <1>7 DEF Next, CoderWrites, PlaceInject, vars

(* enforce_repair_write_scope: a guarded session leaves no forged test and *)
(* no forged conftest or ini file that was there, also when it fails, if   *)
(* the run started clean and the session with its plan unedited.           *)
THEOREM SessionsLeaveNoForgery == Spec => SessionLeavesNoForgery
  <1>1. RetryInv /\ [Next]_vars =>
          \A r \in Runs :
            ~shared /\ run[r].clean /\ pc[r] = "session"
              /\ pc'[r] # "session" /\ events' = events
              => \A g \in {"tests", "conftest"} : surface'.graded[g] = "ours"
    <2> SUFFICES ASSUME RetryInv, [Next]_vars, NEW r \in Runs, ~shared, run[r].clean,
                        pc[r] = "session", pc'[r] # "session", events' = events
                 PROVE  \A g \in {"tests", "conftest"} : surface'.graded[g] = "ours"
      OBVIOUS
    <2>1. pc \in [Runs -> Busy \cup Ends \cup {"idle"}] /\ events \in Nat
      BY DEF RetryInv, TypeOK
    <2>2. SessionEnds(r)
      <3>1. ~Kill(r)
        BY <2>1 DEF Kill
      <3>2. Step(r)
        BY <3>1, OwnStep DEF RetryInv
      <3>3. QED
        BY <3>2 DEF Step, Limit, Count, Consume, UnlinkInject, Spawn, RunPytest, CheckTrust,
           Review, Check, ReviewBoundary, CountBoundary
    <2>3. /\ Unforged(run[r].snap.graded) /\ run[r].snap.graded["plan"] = "ours"
          /\ Guarded(run[r].kind)
      BY DEF RetryInv, CleanInv
    <2>4. QED
      BY <2>2, <2>3 DEF SessionEnds, Enforced, Protected, Unforged, Graded, TrustFiles
  <1>2. QED
    BY RetryCorrect, <1>1, PTL DEF Spec, SessionLeavesNoForgery

(* run_verify_subprocess: a guarded run that started clean passes because  *)
(* the code works, or because a session edited the plan's list, or because *)
(* one added a conftest or ini file and committed it.                      *)
THEOREM PassesAreEarned == Spec => PassIsEarned
  <1>1. RetryInv /\ [Next]_vars =>
          \A r \in Runs :
            ~shared /\ run[r].clean /\ pc[r] = "trust" /\ pc'[r] = "passed"
              => \/ works \/ surface.graded["plan"] = "forged"
                 \/ surface.graded["added"] = "forged" /\ head["added"] = "forged"
    <2> SUFFICES ASSUME RetryInv, [Next]_vars, NEW r \in Runs, ~shared, run[r].clean,
                        pc[r] = "trust", pc'[r] = "passed"
                 PROVE  \/ works \/ surface.graded["plan"] = "forged"
                        \/ surface.graded["added"] = "forged" /\ head["added"] = "forged"
      OBVIOUS
    <2>1. works \/ \E g \in {"plan", "added"} : surface.graded[g] = "forged"
      BY DEF RetryInv, CleanInv
    <2>2. pc \in [Runs -> Busy \cup Ends \cup {"idle"}]
      BY DEF RetryInv, TypeOK
    <2>3. CheckTrust(r)
      <3>1. ~Kill(r)
        BY <2>2 DEF Kill, GoTo, Becomes
      <3>2. Step(r)
        BY <3>1, OwnStep DEF RetryInv
      <3>3. QED
        BY <3>2 DEF Step, Limit, Count, Consume, UnlinkInject, Spawn, RunPytest, SessionEnds,
           Review, Check, ReviewBoundary, CountBoundary
    <2>4. Trusted
      BY <2>2, <2>3 DEF CheckTrust, Red, GoTo, Becomes
    <2>5. QED
      BY <2>1, <2>4 DEF Trusted
  <1>2. QED
    BY RetryCorrect, <1>1, PTL DEF Spec, PassIsEarned
-----------------------------------------------------------------------------
(* The gates of tests_enabled, for every plan, junction and world *)

Forms == {"selector", "typed", "prose", "blank", "directory"}
Tests(Paths) == [form : Forms, path : Paths]
TaskRecords(Ids, Paths) ==
  [id : Ids, tests : Seq(Tests(Paths)), touched : SUBSET Paths, deps : SUBSET Ids,
   test_plan : Seq({"marker", "empty_marker", "near_miss", "prose"})]
PlanRecords(Ids, Paths) == [tasks : Seq(TaskRecords(Ids, Paths))]
JunctionRecords(Ids) ==
  [kind : {"unknown", "test_gate", "review_gate"}, after : Ids, explicit : BOOLEAN,
   covers : SUBSET Ids]

(* A set of places that is not empty has a first one.                      *)
LEMMA FirstPlace ==
  ASSUME NEW T, T \subseteq Nat, T # {}
  PROVE  \E m \in T : \A n \in T : m <= n
  <1> DEFINE R == OpToRel(<, Nat)
  <1>1. \A x, y \in Nat : x < y => <<x, y>> \in R
    BY DEF OpToRel
  <1>2. IsWellFoundedOn(R, Nat)
    BY NatLessThanWellFounded
  <1> HIDE DEF R
  <1>3. PICK m \in T : \A n \in T : ~(<<n, m>> \in R)
    BY <1>2, WFMin
  <1>4. \A n \in T : ~(n < m)
    BY <1>1, <1>3
  <1>5. QED
    BY <1>4

(* Ids that number as many as the tasks are different from task to task.   *)
LEMMA IdsTellTasks ==
  ASSUME NEW Ids, NEW Paths, NEW orch \in PlanRecords(Ids, Paths), UniqueIds(orch),
         NEW i \in DOMAIN orch.tasks, NEW k \in DOMAIN orch.tasks,
         orch.tasks[i].id = orch.tasks[k].id
  PROVE  i = k
  <1> DEFINE n == Len(orch.tasks)
             f == [x \in 1..n |-> orch.tasks[x].id]
  <1>1. /\ n \in Nat /\ DOMAIN orch.tasks = 1..n
        /\ \A x \in 1..n : orch.tasks[x] \in TaskRecords(Ids, Paths)
    BY DEF PlanRecords
  <1>2. IdsOf(orch) = {f[x] : x \in 1..n}
    BY <1>1 DEF IdsOf, TasksOf
  <1>3. f \in Surjection(1..n, IdsOf(orch))
    BY <1>2 DEF Surjection
  <1>4. IsFiniteSet(1..n) /\ Cardinality(1..n) = n
    BY <1>1, FS_Interval
  <1>5. Cardinality(IdsOf(orch)) = n
    BY DEF UniqueIds
  <1> HIDE DEF f
  <1>6. f \in Injection(1..n, IdsOf(orch))
    BY <1>3, <1>4, <1>5, FS_Surjection
  <1>7. f[i] = f[k]
    BY <1>1 DEF f
  <1>8. QED
    BY <1>1, <1>6, <1>7 DEF Injection, IsInjective

(* The first task of an id, which decides what is resolved.                *)
IsFirst(orch, id, m) ==
  /\ m \in DOMAIN orch.tasks /\ orch.tasks[m].id = id
  /\ \A k \in 1..(m - 1) : orch.tasks[k].id # id

LEMMA FirstTask ==
  ASSUME NEW Ids, NEW Paths, NEW orch \in PlanRecords(Ids, Paths), NEW id \in IdsOf(orch)
  PROVE  \E m \in DOMAIN orch.tasks : IsFirst(orch, id, m)
  <1> DEFINE n == Len(orch.tasks)
             T == {i \in DOMAIN orch.tasks : orch.tasks[i].id = id}
  <1>1. n \in Nat /\ DOMAIN orch.tasks = 1..n
    BY DEF PlanRecords
  <1>2. T \subseteq Nat /\ T # {}
    BY <1>1 DEF IdsOf, TasksOf
  <1>3. PICK m \in T : \A k \in T : m <= k
    BY <1>2, FirstPlace
  <1>4. m \in DOMAIN orch.tasks /\ orch.tasks[m].id = id
    OBVIOUS
  <1>5. \A k \in 1..(m - 1) : orch.tasks[k].id # id
    <2> TAKE k \in 1..(m - 1)
    <2>1. k \in 1..n /\ ~ (m <= k)
      BY <1>1, <1>4
    <2>2. QED
      BY <1>1, <1>3, <2>1
  <1>6. QED
    BY <1>4, <1>5 DEF IsFirst

LEMMA FirstIsOne ==
  ASSUME NEW Ids, NEW Paths, NEW orch \in PlanRecords(Ids, Paths), NEW id,
         NEW m, NEW k, IsFirst(orch, id, m), IsFirst(orch, id, k)
  PROVE  m = k
  <1>1. m \in Nat \ {0} /\ k \in Nat \ {0}
    BY DEF IsFirst, PlanRecords
  <1>2. ~(k \in 1..(m - 1)) /\ ~(m \in 1..(k - 1))
    BY DEF IsFirst
  <1>3. QED
    BY <1>1, <1>2

LEMMA ResolvedFirst ==
  ASSUME NEW Ids, NEW Paths, NEW orch \in PlanRecords(Ids, Paths), NEW id,
         NEW m, IsFirst(orch, id, m)
  PROVE  ResolveTests(orch, id) = Declared({orch.tasks[m]})
  <1> DEFINE first == CHOOSE i \in DOMAIN orch.tasks :
                 orch.tasks[i].id = id /\ \A k \in 1..(i - 1) : orch.tasks[k].id # id
  <1>1. IsFirst(orch, id, first)
    BY DEF IsFirst
  <1>2. ResolveTests(orch, id) = Declared({orch.tasks[first]})
    BY DEF ResolveTests
  <1> HIDE DEF first
  <1>3. first = m
    BY <1>1, FirstIsOne
  <1>4. QED
    BY <1>2, <1>3

LEMMA CoveringFirst ==
  ASSUME NEW Ids, NEW Paths, NEW orch \in PlanRecords(Ids, Paths), NEW j \in JunctionRecords(Ids),
         ~j.explicit, NEW m, IsFirst(orch, j.after, m)
  PROVE  CoveringSet(orch, j) = {orch.tasks[i].id : i \in 1..m}
  <1> DEFINE last == CHOOSE i \in DOMAIN orch.tasks :
                     /\ orch.tasks[i].id = j.after
                     /\ \A k \in 1..(i - 1) : orch.tasks[k].id # j.after
  <1>1. IsFirst(orch, j.after, last)
    BY DEF IsFirst
  <1>2. CoveringSet(orch, j) = {orch.tasks[i].id : i \in 1..last}
    BY DEF CoveringSet
  <1> HIDE DEF last
  <1>3. last = m
    BY <1>1, FirstIsOne
  <1>4. QED
    BY <1>2, <1>3

(* A junction covers tasks of the plan.                                    *)
LEMMA CoveringIds ==
  ASSUME NEW Ids, NEW Paths, NEW orch \in PlanRecords(Ids, Paths), NEW j \in JunctionRecords(Ids),
         CoversResolve(orch, j)
  PROVE  CoveringSet(orch, j) \subseteq IdsOf(orch)
  <1>1. CASE j.explicit
    BY <1>1 DEF CoversResolve, CoveringSet
  <1>2. CASE ~j.explicit
    <2>1. PICK after \in IdsOf(orch) : after = j.after
      BY <1>2 DEF CoversResolve
    <2>2. PICK m \in DOMAIN orch.tasks : IsFirst(orch, after, m)
      BY FirstTask
    <2>3. CoveringSet(orch, j) = {orch.tasks[i].id : i \in 1..m}
      BY <1>2, <2>1, <2>2, CoveringFirst
    <2>4. 1..m \subseteq DOMAIN orch.tasks
      BY DEF PlanRecords
    <2>5. QED
      BY <2>3, <2>4 DEF IdsOf, TasksOf
  <1>3. QED
    BY <1>1, <1>2

(* The tests that are resolved for an id are those of a task of that id.   *)
LEMMA ResolvedTask ==
  ASSUME NEW Ids, NEW Paths, NEW orch \in PlanRecords(Ids, Paths), NEW id \in IdsOf(orch)
  PROVE  \E i \in DOMAIN orch.tasks :
           orch.tasks[i].id = id /\ ResolveTests(orch, id) = Declared({orch.tasks[i]})
  <1>1. PICK m \in DOMAIN orch.tasks : IsFirst(orch, id, m)
    BY FirstTask
  <1>2. ResolveTests(orch, id) = Declared({orch.tasks[m]})
    BY <1>1, ResolvedFirst
  <1>3. QED
    BY <1>1, <1>2 DEF IsFirst

(* Of a plan whose ids differ, those of the one task of that id.           *)
LEMMA ResolvedIsDeclared ==
  ASSUME NEW Ids, NEW Paths, NEW orch \in PlanRecords(Ids, Paths), UniqueIds(orch),
         NEW t \in TasksOf(orch)
  PROVE  ResolveTests(orch, t.id) = Declared({t})
  <1>1. PICK k \in DOMAIN orch.tasks : t = orch.tasks[k]
    BY DEF TasksOf
  <1>2. PICK id \in IdsOf(orch) : id = t.id
    BY DEF IdsOf
  <1>3. PICK i \in DOMAIN orch.tasks :
          orch.tasks[i].id = id /\ ResolveTests(orch, id) = Declared({orch.tasks[i]})
    BY ResolvedTask
  <1>4. i = k
    BY <1>1, <1>2, <1>3, IdsTellTasks
  <1>5. QED
    BY <1>1, <1>2, <1>3, <1>4

(* Exit 0 of the graded run: it is trusted, something passes, nothing that *)
(* can run fails.                                                          *)
LEMMA VerifyIsGreen ==
  ASSUME NEW Ids, NEW Paths, NEW orch \in PlanRecords(Ids, Paths),
         NEW world \in [Paths -> Fates], NEW trusted \in BOOLEAN,
         Verify(orch, world, trusted) = 0
  PROVE  /\ trusted
         /\ \E e \in RunnableOf(orch, world) : world[e.path] = "green"
         /\ \A e \in RunnableOf(orch, world) : world[e.path] \in {"green", "empty", "absent"}
  <1> DEFINE runs == RunnableOf(orch, world)
             fates == {world[e.path] : e \in runs}
  <1>1. Pytest(fates) = 0 /\ trusted
    BY DEF Verify, Crash, UntrustedGreen
  <1>2. /\ "green" \in fates
        /\ fates \cap {"phantom", "broken", "red"} = {}
    BY <1>1 DEF Pytest
  <1>3. ASSUME NEW e \in runs
        PROVE  world[e.path] \in Fates
    <2>1. PICK t \in TasksOf(orch) : \E x \in DOMAIN t.tests : e = t.tests[x]
      BY DEF RunnableOf, Declared, Entries
    <2>2. t \in TaskRecords(Ids, Paths)
      BY DEF TasksOf, PlanRecords
    <2>3. t.tests \in Seq(Tests(Paths))
      BY <2>2 DEF TaskRecords
    <2>4. e \in Tests(Paths)
      BY <2>1, <2>3
    <2>5. QED
      BY <2>4 DEF Tests
  <1>4. QED
    BY <1>1, <1>2, <1>3 DEF Fates
(* What is declared, by which task, and where it can be run.               *)
LEMMA DeclaredBy ==
  ASSUME NEW declarers, NEW e \in Declared(declarers)
  PROVE  \E t \in declarers : e \in Entries(t.tests) /\ e \in Declared({t})
  BY DEF Declared

LEMMA DeclaredAll ==
  ASSUME NEW declarers, NEW t \in declarers, NEW e \in Declared({t})
  PROVE  e \in Declared(declarers) /\ e \in Entries(t.tests)
  BY DEF Declared

(* What a junction looks at when its plan keeps the contract.              *)
LEMMA AdvanceClassifies ==
  ASSUME NEW Ids, NEW Paths, NEW orch \in PlanRecords(Ids, Paths), UniqueIds(orch),
         NEW world \in [Paths -> Fates], NEW j \in JunctionRecords(Ids),
         ContractHolds(orch), JunctionExit(orch, j, world) = "advance",
         NEW t \in Covered(orch, j), NEW e \in Declared({t})
  PROVE  e \in RunnableOf(orch, world) /\ world[e.path] \notin {"empty", "phantom", "broken", "absent"}
  <1>1. AdvanceOk(orch, j, world)
    BY DEF JunctionExit
  <1>2. t \in TasksOf(orch) /\ t.id \in CoveringSet(orch, j)
    BY DEF Covered
  <1>3. ResolveTests(orch, t.id) = Declared({t})
    BY <1>2, ResolvedIsDeclared
  <1>4. Classify(world, e) \in {"collectable", "typed"}
    BY <1>1, <1>2, <1>3 DEF AdvanceOk
  <1>5. e.form = "selector"
    BY <1>2, DeclaredAll DEF ContractHolds, EntryKept
  <1>6. Runnable(world, e) /\ Probe(world[e.path]) = "collectable"
    BY <1>4, <1>5 DEF Classify, Probe
  <1>7. e \in Declared(TasksOf(orch))
    BY <1>2, DeclaredAll
  <1>8. QED
    BY <1>6, <1>7 DEF RunnableOf, Runnable, Probe

(* A junction that advances has resolved a test of a task it covers.       *)
LEMMA AdvanceHasATest ==
  ASSUME NEW Ids, NEW Paths, NEW orch \in PlanRecords(Ids, Paths),
         NEW world \in [Paths -> Fates], NEW j \in JunctionRecords(Ids),
         JunctionExit(orch, j, world) = "advance"
  PROVE  \E t \in Covered(orch, j) : Declared({t}) # {}
  <1>1. CoversResolve(orch, j) /\ AdvanceOk(orch, j, world)
    BY DEF JunctionExit
  <1>2. PICK id \in CoveringSet(orch, j) : ResolveTests(orch, id) # {}
    BY <1>1 DEF AdvanceOk
  <1>3. id \in IdsOf(orch)
    BY <1>1, <1>2, CoveringIds
  <1>4. PICK i \in DOMAIN orch.tasks :
          orch.tasks[i].id = id /\ ResolveTests(orch, id) = Declared({orch.tasks[i]})
    BY <1>3, ResolvedTask
  <1>5. orch.tasks[i] \in Covered(orch, j)
    BY <1>2, <1>4 DEF Covered, TasksOf
  <1>6. QED
    BY <1>2, <1>4, <1>5

(* A plan whose ids differ and that keeps the strict contract, a junction  *)
(* that advances and a green run: every test that a covered task declares  *)
(* is there and passes, for any plan, junction and world.                  *)
THEOREM GateEarned ==
  ASSUME NEW Ids, NEW Paths, NEW orch \in PlanRecords(Ids, Paths), UniqueIds(orch),
         NEW world \in [Paths -> Fates], NEW j \in JunctionRecords(Ids), NEW trusted \in BOOLEAN
  PROVE  GateIsEarned(orch, j, world, trusted)
  <1> SUFFICES ASSUME ContractHolds(orch), JunctionExit(orch, j, world) = "advance",
                      Verify(orch, world, trusted) = 0,
                      NEW e \in Declared(Covered(orch, j))
               PROVE  world[e.path] = "green"
    BY DEF GateIsEarned
  <1>1. PICK t \in Covered(orch, j) : e \in Declared({t})
    BY DeclaredBy
  <1>2. e \in RunnableOf(orch, world) /\ world[e.path] \notin {"empty", "phantom", "broken", "absent"}
    BY <1>1, AdvanceClassifies
  <1>3. world[e.path] \in {"green", "empty", "absent"}
    BY <1>2, VerifyIsGreen
  <1>4. QED
    BY <1>2, <1>3

(* No gate opens on nothing, for any plan, junction and world: a green run *)
(* is trusted and has a test that passes, and a junction that advances     *)
(* covers a task that is not exempt.                                       *)
THEOREM GateNotVacuous ==
  ASSUME NEW Ids, NEW Paths, NEW orch \in PlanRecords(Ids, Paths),
         NEW world \in [Paths -> Fates], NEW j \in JunctionRecords(Ids), NEW trusted \in BOOLEAN
  PROVE  NoVacuousGate(orch, j, world, trusted)
  <1>1. ASSUME Verify(orch, world, trusted) = 0
        PROVE  trusted /\ \E e \in Declared(TasksOf(orch)) : Runnable(world, e) /\ world[e.path] = "green"
    BY <1>1, VerifyIsGreen DEF RunnableOf
  <1>2. ASSUME ContractHolds(orch), JunctionExit(orch, j, world) = "advance"
        PROVE  \E t \in Covered(orch, j) : ~Exempt(t)
    <2>1. PICK t \in Covered(orch, j) : Declared({t}) # {}
      BY <1>2, AdvanceHasATest
    <2>2. t \in TasksOf(orch) /\ MarkersCohere(t) /\ t \in TaskRecords(Ids, Paths)
      BY <1>2 DEF Covered, ContractHolds, TasksOf, PlanRecords
    <2>3. t.tests # <<>>
      BY <2>1 DEF Declared, Entries
    <2>4. \A x : CountOf(t.test_plan, x) \in Nat /\ (CountOf(t.test_plan, x) = 0 => x \notin Entries(t.test_plan))
      <3> TAKE x
      <3> DEFINE S == {i \in DOMAIN t.test_plan : t.test_plan[i] = x}
      <3>1. Len(t.test_plan) \in Nat /\ DOMAIN t.test_plan = 1..Len(t.test_plan)
        BY <2>2 DEF TaskRecords
      <3>2. IsFiniteSet(S)
        <4>1. IsFiniteSet(1..Len(t.test_plan))
          BY <3>1, FS_Interval
        <4>2. S \subseteq 1..Len(t.test_plan)
          BY <3>1
        <4>3. QED
          BY <4>1, <4>2, FS_Subset
      <3>3. Cardinality(S) \in Nat /\ (Cardinality(S) = 0 => S = {})
        BY <3>2, FS_CardinalityType, FS_EmptySet
      <3>4. QED
        BY <3>3 DEF CountOf, Entries
    <2>5. CountOf(t.test_plan, "marker") = 0
      BY <2>2, <2>3, <2>4 DEF MarkersCohere
    <2>6. QED
      BY <2>4, <2>5 DEF Exempt
  <1>3. QED
    BY <1>1, <1>2 DEF NoVacuousGate
(* A junction over the whole plan advances only when the pre-flight lets   *)
(* /test begin, and the pre-flight refuses for a reason, for any plan whose*)
(* ids differ, any junction and any world.                                 *)
THEOREM GatesInAgreement ==
  ASSUME NEW Ids, NEW Paths, NEW orch \in PlanRecords(Ids, Paths), UniqueIds(orch),
         NEW world \in [Paths -> Fates], NEW j \in JunctionRecords(Ids)
  PROVE  GatesAgree(orch, j, world)
  <1>1. ASSUME ContractHolds(orch), JunctionExit(orch, j, world) = "advance",
               Covered(orch, j) = TasksOf(orch)
        PROVE  Preflight(orch, world) = "run"
    <2>1. PICK t \in Covered(orch, j) : Declared({t}) # {}
      BY <1>1, AdvanceHasATest
    <2>2. RunnableOf(orch, world) # {}
      BY <1>1, <2>1, AdvanceClassifies
    <2>3. ASSUME NEW e \in RunnableOf(orch, world)
          PROVE  Probe(world[e.path]) # "not_collectable"
      <3>1. PICK u \in TasksOf(orch) : e \in Declared({u})
        BY DeclaredBy DEF RunnableOf
      <3>2. world[e.path] \notin {"empty", "phantom", "broken", "absent"}
        BY <1>1, <3>1, AdvanceClassifies
      <3>3. QED
        BY <3>2 DEF Probe
    <2>4. QED
      BY <2>2, <2>3 DEF Preflight
  <1>2. ASSUME Preflight(orch, world) # "run", Declared(TasksOf(orch)) # {}
        PROVE  \E e \in Declared(TasksOf(orch)) :
                 ~Runnable(world, e) \/ world[e.path] \notin {"red", "green", "broken"}
    <2>1. CASE RunnableOf(orch, world) = {}
      BY <1>2, <2>1 DEF RunnableOf
    <2>2. CASE RunnableOf(orch, world) # {}
      <3>1. PICK e \in RunnableOf(orch, world) : Probe(world[e.path]) = "not_collectable"
        BY <1>2, <2>2 DEF Preflight
      <3>2. world[e.path] \in {"empty", "phantom"}
        BY <3>1 DEF Probe
      <3>3. QED
        BY <3>2 DEF RunnableOf
    <2>3. QED
      BY <2>1, <2>2
  <1>3. QED
    BY <1>1, <1>2 DEF GatesAgree

(* The tests of a task that a junction does not cover neither satisfy the  *)
(* junction nor block it, for any plan, junction and world.                *)
THEOREM OthersCountNot ==
  ASSUME NEW Ids, NEW Paths, NEW orch \in PlanRecords(Ids, Paths),
         NEW world \in [Paths -> Fates], NEW j \in JunctionRecords(Ids)
  PROVE  OthersDoNotCount(orch, j, world)
  <1> DEFINE covering == CoveringSet(orch, j)
             without == [orch EXCEPT !.tasks =
               [i \in DOMAIN orch.tasks |->
                  IF orch.tasks[i].id \in CoveringSet(orch, j) THEN orch.tasks[i]
                  ELSE [orch.tasks[i] EXCEPT !.tests = <<>>]]]
  <1> SUFFICES ASSUME j.kind = "test_gate", CoversResolve(orch, j)
               PROVE  JunctionExit(without, j, world) = JunctionExit(orch, j, world)
    BY DEF OthersDoNotCount
  <1>1. /\ Len(orch.tasks) \in Nat /\ DOMAIN orch.tasks = 1..Len(orch.tasks)
        /\ \A i \in DOMAIN orch.tasks : orch.tasks[i] \in TaskRecords(Ids, Paths)
    BY DEF PlanRecords
  <1>2. \A i \in DOMAIN orch.tasks : [orch.tasks[i] EXCEPT !.tests = <<>>] \in TaskRecords(Ids, Paths)
    <2> TAKE i \in DOMAIN orch.tasks
    <2>1. <<>> \in Seq(Tests(Paths))
      OBVIOUS
    <2>2. orch.tasks[i] \in TaskRecords(Ids, Paths)
      BY <1>1
    <2>3. \A t \in TaskRecords(Ids, Paths), l \in Seq(Tests(Paths)) :
            [t EXCEPT !.tests = l] \in TaskRecords(Ids, Paths)
      BY DEF TaskRecords
    <2>4. QED
      BY <2>1, <2>2, <2>3
  <1>3. without \in PlanRecords(Ids, Paths)
    <2>1. [i \in 1..Len(orch.tasks) |->
                  IF orch.tasks[i].id \in CoveringSet(orch, j) THEN orch.tasks[i]
                  ELSE [orch.tasks[i] EXCEPT !.tests = <<>>]] \in Seq(TaskRecords(Ids, Paths))
      BY <1>1, <1>2
    <2>2. QED
      BY <1>1, <2>1 DEF PlanRecords
  <1>4. /\ DOMAIN without.tasks = DOMAIN orch.tasks
        /\ \A i \in DOMAIN orch.tasks :
             /\ without.tasks[i].id = orch.tasks[i].id
             /\ orch.tasks[i].id \in covering => without.tasks[i] = orch.tasks[i]
    BY <1>1 DEF PlanRecords, TaskRecords
  <1> HIDE DEF without
  <1>5. \A id, m : IsFirst(without, id, m) <=> IsFirst(orch, id, m)
    <2>1. \A m \in DOMAIN orch.tasks : 1..(m - 1) \subseteq DOMAIN orch.tasks
      BY <1>1
    <2>2. QED
      BY <1>4, <2>1 DEF IsFirst
  <1>6. IdsOf(without) = IdsOf(orch)
    BY <1>4 DEF IdsOf, TasksOf
  <1>7. CoversResolve(without, j)
    BY <1>6 DEF CoversResolve
  <1>8. CoveringSet(without, j) = covering
    <2>1. CASE j.explicit
      BY <2>1 DEF CoveringSet
    <2>2. CASE ~j.explicit
      <3>1. PICK after \in IdsOf(orch) : after = j.after
        BY <2>2 DEF CoversResolve
      <3>2. PICK m \in DOMAIN orch.tasks : IsFirst(orch, after, m)
        BY FirstTask
      <3>3. covering = {orch.tasks[i].id : i \in 1..m}
        BY <2>2, <3>1, <3>2, CoveringFirst
      <3>4. CoveringSet(without, j) = {without.tasks[i].id : i \in 1..m}
        BY <1>3, <1>5, <2>2, <3>1, <3>2, CoveringFirst
      <3>5. \A i \in 1..m : without.tasks[i].id = orch.tasks[i].id
        BY <1>1, <1>4
      <3>6. QED
        BY <3>3, <3>4, <3>5
    <2>3. QED
      BY <2>1, <2>2
  <1>9. \A id \in covering : ResolveTests(without, id) = ResolveTests(orch, id)
    <2> TAKE id \in covering
    <2>1. id \in IdsOf(orch)
      BY CoveringIds
    <2>2. PICK m \in DOMAIN orch.tasks : IsFirst(orch, id, m)
      BY <2>1, FirstTask
    <2>3. ResolveTests(orch, id) = Declared({orch.tasks[m]})
      BY <2>2, ResolvedFirst
    <2>4. ResolveTests(without, id) = Declared({without.tasks[m]})
      BY <1>3, <1>5, <2>2, ResolvedFirst
    <2>5. without.tasks[m] = orch.tasks[m]
      BY <1>4, <2>2 DEF IsFirst
    <2>6. QED
      BY <2>3, <2>4, <2>5
  <1>10. AdvanceOk(without, j, world) <=> AdvanceOk(orch, j, world)
    <2>1. UNION {ResolveTests(without, id) : id \in covering} = UNION {ResolveTests(orch, id) : id \in covering}
      BY <1>9
    <2>2. QED
      BY <1>8, <2>1 DEF AdvanceOk
  <1>11. QED
    BY <1>7, <1>10 DEF JunctionExit
-----------------------------------------------------------------------------
(* The answers of the reviewer, every one of them *)

Pieces(Rubs) == [form : {"object", "prose", "braces", "open"}, rubric : Rubs]
AnswerRecords(Subtypes, Rubs) ==
  Answers(Subtypes, BOOLEAN, Seq(Rubs), Seq(Pieces(Rubs)))

(* The one object among prose is what the reader of a text finds.          *)
LEMMA OneObjectIsRead ==
  ASSUME NEW Rubs, NEW text \in Seq(Pieces(Rubs)), NEW i \in DOMAIN text,
         text[i].form = "object", \A k \in DOMAIN text \ {i} : text[k].form = "prose"
  PROVE  TryExtractJson(text) = <<text[i].rubric>>
  <1> DEFINE I == {k \in 1..Len(text) : text[k].form # "prose"}
             first == SelectInSeq(text, LAMBDA piece : piece.form # "prose")
  <1>1. I = {i} /\ i \in Nat \ {0}
    OBVIOUS
  <1>2. Min(I) = i
    BY <1>1 DEF Min
  <1>3. first = i
    BY <1>1, <1>2 DEF SelectInSeq
  <1>4. TryExtractJson(text) = IF first # 0 /\ text[first].form = "object" THEN <<text[first].rubric>> ELSE <<>>
    BY DEF TryExtractJson
  <1> HIDE DEF first
  <1>5. QED
    BY <1>1, <1>3, <1>4

(* A clear answer is the rubric that is in it.                             *)
LEMMA ClearIsRead ==
  ASSUME NEW Subtypes, NEW Rubs, NEW a \in AnswerRecords(Subtypes, Rubs), NEW rubric, Clear(a, rubric)
  PROVE  SpawnReviewer(a) = [raises |-> "nothing", rubric |-> rubric]
  <1>1. ExtractRubric(a) = <<rubric>>
    <2>1. CASE a.structured = <<rubric>>
      BY <2>1 DEF ExtractRubric
    <2>2. CASE a.structured = <<>>
      <3>1. PICK i \in DOMAIN a.text :
              /\ a.text[i] = Piece("object", rubric)
              /\ \A k \in DOMAIN a.text \ {i} : a.text[k].form = "prose"
        BY <2>2 DEF Clear
      <3>2. TryExtractJson(a.text) = <<a.text[i].rubric>>
        BY <3>1, OneObjectIsRead DEF AnswerRecords, Answers, Piece
      <3>3. QED
        BY <2>2, <3>1, <3>2 DEF ExtractRubric, Piece
    <2>3. QED
      BY <2>1, <2>2 DEF Clear
  <1>2. a.subtype = "success" /\ ~a.is_error
    BY DEF Clear
  <1>3. QED
    BY <1>1, <1>2 DEF SpawnReviewer, NoMessage, Exhausted, ExhaustedName

(* What an answer can become.                                              *)
LEMMA SpawnedParts ==
  ASSUME NEW a
  PROVE  \/ SpawnReviewer(a).raises \in {"error", "exhausted"}
         \/ /\ SpawnReviewer(a).raises = "nothing"
            /\ SpawnReviewer(a).rubric = Head(ExtractRubric(a))
            /\ a.subtype # NoMessage /\ ~a.is_error /\ ExtractRubric(a) # <<>>
  BY DEF SpawnReviewer

(* Schema and reader agree: any clear answer that keeps to the schema of   *)
(* its session is a verdict, and a flag in it halts.                       *)
THEOREM ClearIsAVerdict ==
  ASSUME NEW Subtypes, NEW Rubs, NEW a \in AnswerRecords(Subtypes, Rubs)
  PROVE  ClearAnswersAreVerdicts(a)
  <1> SUFFICES ASSUME NEW kind \in RubricKinds, NEW rubric \in ResolveSchema(kind), Clear(a, rubric)
               PROVE  IF kind = "test_step"
                      THEN IterationVerdict(a) = (IF rubric.r4 = "yes-flagged" THEN "tampering" ELSE "retry")
                      ELSE BoundaryVerdict(a) = rubric.shape
    BY DEF ClearAnswersAreVerdicts
  <1>1. SpawnReviewer(a) = [raises |-> "nothing", rubric |-> rubric]
    BY ClearIsRead
  <1>2. CASE kind = "test_step"
    <2>1. rubric.version = "1"
      BY <1>2 DEF ResolveSchema, Rubric
    <2>2. QED
      BY <1>1, <1>2, <2>1 DEF IterationVerdict, IsSupported, IsTamperingFlagged
  <1>3. CASE kind # "test_step"
    <2>1. rubric.version = "1" /\ rubric.shape \in TerminalShapes
      BY <1>3 DEF ResolveSchema, Rubric
    <2>2. QED
      BY <1>1, <1>3, <2>1 DEF BoundaryVerdict, IsSupported
  <1>4. QED
    BY <1>2, <1>3

(* An error or an answer that cannot be read opens no gate and blocks no   *)
(* stage, whatever the answer is.                                          *)
THEOREM NoReadingNoGate ==
  ASSUME NEW Subtypes, NEW Rubs, NEW a \in AnswerRecords(Subtypes, Rubs)
  PROVE  NoVerdictNoGate(a)
  <1> SUFFICES ASSUME NEW last \in BOOLEAN, NEW written \in BOOLEAN
               PROVE  LET exit  == BoundaryExit(BoundaryVerdict(a), last, written)
                          other == TestStepExit(IterationVerdict(a), last, written)
                          read  == ~a.is_error /\ a.subtype # NoMessage /\ ExtractRubric(a) # <<>>
                      IN  /\ exit = 0 => read /\ Head(ExtractRubric(a)).shape = "READY"
                          /\ \A e \in {exit, other} : StageAfter(e) = "blocked" => read
                          /\ \A rubric \in ResolveSchema("test_step") : Clear(a, rubric) => exit = 2
    BY DEF NoVerdictNoGate
  <1> DEFINE exit  == BoundaryExit(BoundaryVerdict(a), last, written)
             other == TestStepExit(IterationVerdict(a), last, written)
             read  == ~a.is_error /\ a.subtype # NoMessage /\ ExtractRubric(a) # <<>>
  <1>1. /\ SpawnReviewer(a).raises = "nothing" => read /\ SpawnReviewer(a).rubric = Head(ExtractRubric(a))
        /\ SpawnReviewer(a).raises # "nothing" => SpawnReviewer(a).raises \in {"error", "exhausted"}
    BY SpawnedParts
  <1>2. BoundaryVerdict(a) \in TerminalShapes => read /\ Head(ExtractRubric(a)).shape = BoundaryVerdict(a)
    BY <1>1 DEF BoundaryVerdict, TerminalShapes
  <1>3. IterationVerdict(a) \in {"tampering", "retry"} => read
    BY <1>1 DEF IterationVerdict
  <1>4. BoundaryVerdict(a) \notin TerminalShapes =>
          BoundaryVerdict(a) \in {"error", "exhausted", "unsupported"}
    BY <1>1 DEF BoundaryVerdict
  <1>5. BoundaryVerdict(a) \notin TerminalShapes => exit \in {2, 5, 16}
    BY <1>4 DEF BoundaryExit, ErrorExit, TerminalShapes
  <1>6. exit = 0 => BoundaryVerdict(a) = "READY"
    BY <1>5 DEF BoundaryExit, TerminalShapes, Continues
  <1>7. StageAfter(exit) = "blocked" => BoundaryVerdict(a) \in TerminalShapes
    BY <1>5 DEF StageAfter
  <1>8. StageAfter(other) = "blocked" => IterationVerdict(a) \in {"tampering", "retry"}
    BY DEF TestStepExit, ErrorExit, StageAfter
  <1>9. ASSUME NEW rubric \in ResolveSchema("test_step"), Clear(a, rubric)
        PROVE  exit = 2
    <2>1. SpawnReviewer(a) = [raises |-> "nothing", rubric |-> rubric]
      BY <1>9, ClearIsRead
    <2>2. rubric.shape = "absent" /\ rubric.version = "1"
      BY DEF ResolveSchema, Rubric
    <2>3. BoundaryVerdict(a) = "error"
      BY <2>1, <2>2 DEF BoundaryVerdict, IsSupported, TerminalShapes
    <2>4. QED
      BY <2>3 DEF BoundaryExit, ErrorExit
  <1> HIDE DEF exit, other, read
  <1>10. QED
    BY <1>2, <1>3, <1>6, <1>7, <1>8, <1>9 DEF TerminalShapes, exit, other, read

(* The chain and the command line go on together and halt together,        *)
(* whatever the answer is.                                                 *)
THEOREM CallersInAgreement ==
  ASSUME NEW Subtypes, NEW Rubs, NEW a \in AnswerRecords(Subtypes, Rubs)
  PROVE  CallersAgree(a)
  <1>1. IterationVerdict(a) \in {"error", "exhausted", "unsupported", "tampering", "retry"}
    BY SpawnedParts DEF IterationVerdict
  <1>2. \A verdict \in {"error", "exhausted", "unsupported", "tampering", "retry"} :
        \A last, written \in BOOLEAN :
          LET cli   == TestStepExit(verdict, last, written)
              chain == PhaseExit(verdict, last)
          IN  /\ cli = Continues <=> chain = Continues
              /\ cli # chain => (verdict = "unsupported" \/ ~written) /\ chain # 0
    BY DEF TestStepExit, PhaseExit, ErrorExit, Continues
  <1>3. QED
    BY <1>1, <1>2 DEF CallersAgree
-----------------------------------------------------------------------------
(* The instance that the run checks, as a consequence *)

Named == {"T1", "T2", "T9"}
Files == {"p1", "p2"}

LEMMA TestListsTyped == testLists \subseteq Seq(Tests(Files))
  <1>1. others \subseteq Tests(Files) /\ entry1 \in Tests(Files) /\ entry2 \in Tests(Files)
    BY DEF others, entry1, entry2, Tests, Forms, Files
  <1>2. \A e \in Tests(Files) : <<e>> \in Seq(Tests(Files)) /\ <<entry1, e>> \in Seq(Tests(Files))
    BY <1>1
  <1>3. <<>> \in Seq(Tests(Files))
    OBVIOUS
  <1>4. QED
    BY <1>1, <1>2, <1>3 DEF testLists

LEMMA PlansTyped ==
  ASSUME NEW orch \in plans
  PROVE  orch \in PlanRecords(Named, Files) /\ UniqueIds(orch)
  <1> DEFINE two == orch.tasks
  <1>1. /\ orch \in [tasks : tasks("T1", {{"p1"}, {"p1", "p2"}}, {<<>>})
                               \X tasks("T2", {{}}, {<<>>, <<"marker">>})]
    BY DEF plans
  <1>2. \A l \in testLists : l \in Seq(Tests(Files))
    BY TestListsTyped
  <1>3. <<>> \in Seq({"marker", "empty_marker", "near_miss", "prose"})
        /\ <<"marker">> \in Seq({"marker", "empty_marker", "near_miss", "prose"})
    OBVIOUS
  <1>4. /\ \A t \in tasks("T1", {{"p1"}, {"p1", "p2"}}, {<<>>}) :
             t \in TaskRecords(Named, Files) /\ t.id = "T1"
        /\ \A t \in tasks("T2", {{}}, {<<>>, <<"marker">>}) :
             t \in TaskRecords(Named, Files) /\ t.id = "T2"
    BY <1>2, <1>3 DEF tasks, TaskRecords, Named, Files
  <1>5. /\ two \in Seq(TaskRecords(Named, Files)) /\ Len(two) = 2
        /\ DOMAIN two = {1, 2} /\ two[1].id = "T1" /\ two[2].id = "T2"
    <2>1. PICK t \in tasks("T1", {{"p1"}, {"p1", "p2"}}, {<<>>}),
               u \in tasks("T2", {{}}, {<<>>, <<"marker">>}) : two = <<t, u>>
      BY <1>1
    <2>2. QED
      BY <1>4, <2>1
  <1>6. orch = [tasks |-> two]
    BY <1>1
  <1> HIDE DEF two
  <1>7. orch \in PlanRecords(Named, Files)
    BY <1>5, <1>6 DEF PlanRecords
  <1>8. IdsOf(orch) = {"T1", "T2"}
    BY <1>5, <1>6 DEF IdsOf, TasksOf
  <1>9. Cardinality({"T1", "T2"}) = 2
    <2>1. IsFiniteSet({"T1"}) /\ Cardinality({"T1"}) = 1
      BY FS_Singleton
    <2>2. "T2" \notin {"T1"}
      OBVIOUS
    <2>3. Cardinality({"T1"} \cup {"T2"}) = Cardinality({"T1"}) + 1
      BY <2>1, <2>2, FS_AddElement
    <2>4. {"T1"} \cup {"T2"} = {"T1", "T2"}
      OBVIOUS
    <2>5. QED
      BY <2>1, <2>3, <2>4
  <1>10. QED
    BY <1>5, <1>6, <1>7, <1>8, <1>9 DEF UniqueIds

LEMMA GatesHoldHere == GatesHold
  <1>1. \A j \in junctions : j \in JunctionRecords(Named)
    BY DEF junctions, JunctionRecords, Named
  <1>2. worlds = [Files -> Fates]
    BY DEF worlds, Files
  <1>3. QED
    BY <1>1, <1>2, PlansTyped, GateEarned, GateNotVacuous, GatesInAgreement, OthersCountNot DEF GatesHold

LEMMA PiecesTyped == \A p \in pieces : p \in Pieces(rubrics)
  <1>1. Rubric("absent", "absent", "absent") \in rubrics
    BY DEF rubrics
  <1> HIDE DEF rubrics
  <1>2. QED
    BY <1>1 DEF pieces, Piece, Pieces

LEMMA ReviewsHoldHere == ReviewsHold
  <1> DEFINE Subtypes == {NoMessage, "success", ExhaustedName, "error_structured_output_failed",
                          "error_max_retries", "error_during_execution"}
  <1>1. \A n \in 0..2 : \A text \in [1..n -> pieces] : text \in Seq(Pieces(rubrics))
    BY PiecesTyped
  <1>2. texts \subseteq Seq(Pieces(rubrics))
    BY <1>1 DEF texts
  <1>3. {<<>>} \cup [1..1 -> pieces] \subseteq Seq(Pieces(rubrics))
    <2>1. <<>> \in Seq(Pieces(rubrics))
      OBVIOUS
    <2>2. \A text \in [1..1 -> pieces] : text \in Seq(Pieces(rubrics))
      BY <1>1
    <2>3. QED
      BY <2>1, <2>2
  <1>4. {<<>>} \cup {<<r>> : r \in rubrics} \subseteq Seq(rubrics)
    <2>1. <<>> \in Seq(rubrics) /\ \A r \in rubrics : <<r>> \in Seq(rubrics)
      OBVIOUS
    <2>2. QED
      BY <2>1
  <1>5. \A a \in answers : a \in AnswerRecords(Subtypes, rubrics)
    BY <1>2, <1>3, <1>4 DEF answers, AnswerRecords, Answers
  <1>6. QED
    BY <1>5, ClearIsAVerdict, NoReadingNoGate, CallersInAgreement DEF ReviewsHold

(* The gates hold in every state of the loop: those of the instance, as of *)
(* every other, and what the loop calls a green suite on a trusted surface *)
(* is what the gates' run of pytest returns for a plan whose files are     *)
(* there.                                                                  *)
THEOREM GatesAreKept == Spec => []GatesInv
  <1> DEFINE both  == [id |-> "T1", tests |-> <<entry1, entry2>>, touched |-> {"p1", "p2"},
                       deps |-> {}, test_plan |-> <<>>]
             orch  == [tasks |-> <<both>>]
  <1>1. TasksOf(orch) = {both}
    <2> HIDE DEF both
    <2>1. orch.tasks = <<both>> /\ DOMAIN <<both>> = {1} /\ <<both>>[1] = both
      OBVIOUS
    <2> HIDE DEF orch
    <2>2. QED
      BY <2>1 DEF TasksOf
  <1>2. Declared({both}) = {entry1, entry2}
    <2>1. Entries(both.tests) = {entry1, entry2}
      BY DEF Entries
    <2>2. QED
      BY <2>1 DEF Declared, entry1, entry2
  <1> HIDE DEF orch, both
  <1>3. ASSUME NEW color \in {"green", "red"}
        PROVE  LET world == [p \in {"p1", "p2"} |-> color]
                   runs  == RunnableOf(orch, world)
               IN  /\ runs # {}
                   /\ Pytest({world[e.path] : e \in runs}) = IF color = "green" THEN 0 ELSE 1
    <2> DEFINE world == [p \in {"p1", "p2"} |-> color]
               runs  == RunnableOf(orch, world)
               fates == {world[e.path] : e \in runs}
    <2>1. runs = {entry1, entry2}
      BY <1>1, <1>2 DEF RunnableOf, Runnable, entry1, entry2
    <2>2. fates = {color}
      <3>1. \A e \in runs : world[e.path] = color
        BY <2>1 DEF entry1, entry2
      <3>2. runs # {}
        BY <2>1
      <3> HIDE DEF runs, world
      <3>3. QED
        BY <3>1, <3>2
    <2>3. Pytest(fates) = IF color = "green" THEN 0 ELSE 1
      BY <2>2 DEF Pytest
    <2>4. QED
      BY <2>1, <2>3
  <1>4. LET color == IF Green THEN "green" ELSE "red"
            world == [p \in {"p1", "p2"} |-> color]
            code  == Verify(orch, world, Trusted)
        IN  /\ code = 0 <=> Green /\ Trusted
            /\ code = UntrustedGreen <=> Green /\ ~Trusted
    <2> DEFINE color == IF Green THEN "green" ELSE "red"
               world == [p \in {"p1", "p2"} |-> color]
               runs  == RunnableOf(orch, world)
               tests == Pytest({world[e.path] : e \in runs})
               code  == Verify(orch, world, Trusted)
    <2>1. color \in {"green", "red"} /\ (color = "green" <=> Green)
      OBVIOUS
    <2> HIDE DEF color
    <2>2. runs # {} /\ tests = IF color = "green" THEN 0 ELSE 1
      BY <1>3, <2>1
    <2>3. Declared(TasksOf(orch)) # {}
      BY <1>1, <1>2
    <2>4. code = IF tests = 0 /\ ~Trusted THEN UntrustedGreen ELSE tests
      BY <2>2, <2>3 DEF Verify
    <2> HIDE DEF code, tests
    <2>5. /\ code = 0 <=> Green /\ Trusted
          /\ code = UntrustedGreen <=> Green /\ ~Trusted
      BY <2>1, <2>2, <2>4 DEF UntrustedGreen
    <2>6. QED
      BY <2>5 DEF code, color
  <1>5. GatesInv
    BY <1>4, GatesHoldHere, ReviewsHoldHere DEF GatesInv, orch, both
  <1>6. QED
    BY <1>5, PTL
====
