---------------------------- MODULE MCRetryLoop ----------------------------
(* Two runs of one plan, in turn or at once, of any kind; and the gates of    *)
(* tests_enabled over every small plan, junction and world; and the reader of *)
(* the reviewer over every small answer.                                      *)
EXTENDS RetryLoop, TestGates, ReviewVerdicts

entry1 == [form |-> "selector", path |-> "p1"]
entry2 == [form |-> "selector", path |-> "p2"]
others == {[form |-> f, path |-> "p2"] : f \in {"typed", "prose", "blank", "directory"}}

testLists == {<<>>, <<entry1>>, <<entry1, entry2>>} \cup {<<entry1, e>> : e \in others}
               \cup {<<e>> : e \in others}
tasks(id, touched, test_plans) ==
  [id : {id}, tests : testLists, touched : touched, deps : {{}}, test_plan : test_plans]

\* T1 authors both files, or one of them; T2 has tests or is exempt
plans ==
  [tasks : tasks("T1", {{"p1"}, {"p1", "p2"}}, {<<>>}) \X tasks("T2", {{}}, {<<>>, <<"marker">>})]
junctions ==
  [kind : {"unknown", "test_gate", "review_gate"}, after : {"T1", "T2", "T9"},
   explicit : {FALSE}, covers : {{}}]
  \cup [kind : {"test_gate"}, after : {"T1"},
        explicit : {TRUE}, covers : {{}, {"T1"}, {"T2"}, {"T1", "T2"}, {"T9"}}]
worlds == [{"p1", "p2"} -> Fates]

GatesHold ==
  \A orch \in plans, j \in junctions, world \in worlds :
    /\ \A trusted \in BOOLEAN :
         GateIsEarned(orch, j, world, trusted) /\ NoVacuousGate(orch, j, world, trusted)
    /\ GatesAgree(orch, j, world)
    /\ OthersDoNotCount(orch, j, world)

\* rubrics that keep to a schema, and some that keep to none
rubrics ==
  (UNION {ResolveSchema(kind) : kind \in RubricKinds})
  \cup {Rubric("absent", "absent", "absent"), Rubric("2", "yes-flagged", "READY"),
        Rubric("absent", "yes-flagged", "READY"), Rubric("1", "no", "other")}
pieces == {Piece("object", r) : r \in rubrics}
            \cup {Piece(f, Rubric("absent", "absent", "absent")) : f \in {"prose", "braces", "open"}}
texts == UNION {[1..n -> pieces] : n \in 0..2}
answers ==
  Answers({"success"}, {FALSE}, {<<>>}, texts)
  \cup Answers({NoMessage, "success", ExhaustedName, "error_structured_output_failed",
               "error_max_retries", "error_during_execution"},
              BOOLEAN, {<<>>} \cup {<<r>> : r \in rubrics}, {<<>>} \cup [1..1 -> pieces])

ReviewsHold ==
  \A a \in answers : ClearAnswersAreVerdicts(a) /\ NoVerdictNoGate(a) /\ CallersAgree(a)

(* The gates keep their properties for every plan, junction and world here;   *)
(* the reviewer's answers are read as they should be;                         *)
(* and what the loop calls a green suite on a trusted surface is, for a plan  *)
(* whose files are there, what the gates' pytest run returns.                 *)
GatesInv ==
  /\ GatesHold /\ ReviewsHold
  /\ LET both  == [id |-> "T1", tests |-> <<entry1, entry2>>, touched |-> {"p1", "p2"},
                   deps |-> {}, test_plan |-> <<>>]
         orch  == [tasks |-> <<both>>]
         world == [p \in {"p1", "p2"} |-> IF Green THEN "green" ELSE "red"]
         code  == Verify(orch, world, Trusted)
     IN  /\ code = 0 <=> Green /\ Trusted
         /\ code = UntrustedGreen <=> Green /\ ~Trusted
=============================================================================
