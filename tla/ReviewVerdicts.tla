--------------------------- MODULE ReviewVerdicts ---------------------------
(***************************************************************************)
(* From the answer of the reviewer's SDK session to what its callers do:   *)
(* the retry loop of the chain's /code and /test, bin/verify test-step and *)
(* bin/verify boundary.  RetryLoop's Review and ReviewBoundary choose      *)
(* among the verdicts; here they are read.                                 *)
(***************************************************************************)
EXTENDS Integers, Sequences, SequencesExt

\* the output schema that a session is bound to, and the fields that decide
RubricKinds == {"test_step", "plan_to_implplan", "implplan_to_code"}
R4Values == {"no", "yes-flagged", "unclear"}
TerminalShapes == {"READY", "NEEDS_REVISION", "HALT"}
Rubric(version, r4, shape) == [version |-> version, r4 |-> r4, shape |-> shape]

\* what a session that keeps to its schema can emit; the code validates nothing
ResolveSchema(kind) ==
  IF kind = "test_step" THEN {Rubric("1", r4, "absent") : r4 \in R4Values}
  ELSE {Rubric("1", "absent", shape) : shape \in TerminalShapes}

\* A text is a sequence of pieces: prose without a brace, a pair of braces that
\* is no JSON object, a brace that is never closed, or an object.
Piece(form, rubric) == [form |-> form, rubric |-> rubric]

\* The last ResultMessage of the stream.  The name of an exhausted budget is
\* not known: one fixed name, or an error that speaks of output or of retries.
NoMessage == "none"
ExhaustedName == "error_max_structured_output_retries"
Answers(subtypes, is_errors, structured, texts) ==
  [subtype : subtypes, is_error : is_errors, structured : structured, text : texts]
Exhausted(a) ==
  \/ a.subtype = ExhaustedName
  \/ a.is_error /\ a.subtype \in {"error_structured_output_failed", "error_max_retries"}

-----------------------------------------------------------------------------
(* Reading the answer: a sequence of at most one rubric *)

\* the first brace decides, whatever follows
TryExtractJson(text) ==
  LET first == SelectInSeq(text, LAMBDA piece : piece.form # "prose")
  IN  IF first # 0 /\ text[first].form = "object" THEN <<text[first].rubric>> ELSE <<>>

ExtractRubric(a) == IF a.structured # <<>> THEN a.structured ELSE TryExtractJson(a.text)

\* a rubric, or the exception that is raised
SpawnReviewer(a) ==
  IF a.subtype = NoMessage THEN [raises |-> "error"]
  ELSE IF Exhausted(a) THEN [raises |-> "exhausted"]
  ELSE IF a.is_error \/ ExtractRubric(a) = <<>> THEN [raises |-> "error"]
  ELSE [raises |-> "nothing", rubric |-> Head(ExtractRubric(a))]

\* a rubric without a version is taken for version 1
IsSupported(rubric) == rubric.version \in {"absent", "1"}
IsTamperingFlagged(rubric) == rubric.r4 = "yes-flagged"

\* what becomes of a red iteration; a missing or an unclear R4 goes on
IterationVerdict(a) ==
  LET spawned == SpawnReviewer(a)
  IN  IF spawned.raises # "nothing" THEN spawned.raises
      ELSE IF ~IsSupported(spawned.rubric) THEN "unsupported"
      ELSE IF IsTamperingFlagged(spawned.rubric) THEN "tampering" ELSE "retry"

\* a terminal shape that is missing or unknown raises
BoundaryVerdict(a) ==
  LET spawned == SpawnReviewer(a)
  IN  IF spawned.raises # "nothing" THEN spawned.raises
      ELSE IF ~IsSupported(spawned.rubric) THEN "unsupported"
      ELSE IF spawned.rubric.shape \in TerminalShapes THEN spawned.rubric.shape ELSE "error"

-----------------------------------------------------------------------------
(* What the callers exit with.  last: no iteration is left *)

Continues == -1
ErrorExit(verdict) ==
  CASE verdict = "exhausted" -> 16 [] verdict = "unsupported" -> 5 [] OTHER -> 2

\* bin/verify test-step; a halt has its entry written, or exits 7
TestStepExit(verdict, last, written) ==
  IF verdict \notin {"tampering", "retry"} THEN ErrorExit(verdict)
  ELSE IF verdict = "retry" /\ ~last THEN Continues
  ELSE IF written THEN 17 ELSE 7

\* The chain's phase: it catches the exhausted budget alone, and any other
\* exception ends the driver.
PhaseExit(verdict, last) ==
  CASE verdict = "exhausted" -> 16
    [] verdict = "tampering" -> 17
    [] verdict = "retry" -> IF last THEN 17 ELSE Continues
    [] OTHER -> 2

\* bin/verify boundary; here an entry that cannot be written is an error
BoundaryExit(verdict, last, written) ==
  CASE verdict = "READY" -> 0
    [] verdict = "HALT" -> IF written THEN 10 ELSE 2
    [] verdict = "NEEDS_REVISION" ->
         IF ~last THEN Continues ELSE IF written THEN 17 ELSE 2
    [] OTHER -> ErrorExit(verdict)

\* the fleet's stage after the exit of bin/verify
StageAfter(exit) ==
  CASE exit = 0 -> "finished" [] exit \in {10, 17} -> "blocked" [] OTHER -> "event"

-----------------------------------------------------------------------------
(***************************************************************************)
(* Properties                                                              *)
(***************************************************************************)

\* answers that a reader of the text would call clear: no error, and one rubric
Clear(a, rubric) ==
  /\ a.subtype = "success" /\ ~a.is_error
  /\ \/ a.structured = <<rubric>>
     \/ /\ a.structured = <<>>
        /\ \E i \in DOMAIN a.text :
             /\ a.text[i] = Piece("object", rubric)
             /\ \A k \in DOMAIN a.text \ {i} : a.text[k].form = "prose"

(* The schema a session is bound to and the reader of its answer agree, on *)
(* each of the three kinds: a clear answer that keeps to the schema is     *)
(* always a verdict, and a flag in it always halts, whichever of the two   *)
(* places it comes in and whatever prose is around it.                     *)
ClearAnswersAreVerdicts(a) ==
  \A kind \in RubricKinds : \A rubric \in ResolveSchema(kind) :
    Clear(a, rubric) =>
      IF kind = "test_step"
      THEN IterationVerdict(a) = (IF rubric.r4 = "yes-flagged" THEN "tampering" ELSE "retry")
      ELSE BoundaryVerdict(a) = rubric.shape

(* An answer to the wrong question, an error or an answer that cannot be   *)
(* read opens no gate and blocks no stage: exit 0 takes a READY that was   *)
(* read from a session without an error, and a blocked stage a verdict.    *)
NoVerdictNoGate(a) ==
  \A last, written \in BOOLEAN :
    LET exit  == BoundaryExit(BoundaryVerdict(a), last, written)
        other == TestStepExit(IterationVerdict(a), last, written)
        read  == ~a.is_error /\ a.subtype # NoMessage /\ ExtractRubric(a) # <<>>
    IN  /\ exit = 0 => read /\ Head(ExtractRubric(a)).shape = "READY"
        /\ \A e \in {exit, other} : StageAfter(e) = "blocked" => read
        /\ \A rubric \in ResolveSchema("test_step") : Clear(a, rubric) => exit = 2

(* The chain and the command line read one answer alike: they go on        *)
(* together and halt together, for the same reason unless the version is   *)
(* not supported or the halt entry is not written.                         *)
CallersAgree(a) ==
  \A last, written \in BOOLEAN :
    LET verdict == IterationVerdict(a)
        cli     == TestStepExit(verdict, last, written)
        chain   == PhaseExit(verdict, last)
    IN  /\ cli = Continues <=> chain = Continues
        /\ cli # chain => (verdict = "unsupported" \/ ~written) /\ chain # 0
=============================================================================
