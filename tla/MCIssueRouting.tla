--------------------------- MODULE MCIssueRouting ---------------------------
(***************************************************************************)
(* Two processes that route issues, write markers and lessons.             *)
(***************************************************************************)
EXTENDS IssueRouting

CONSTANTS i, j

MCProcs == {i, j}
MCPrefixIds == {"ANC", "INV"}
MCSlugs == {"one", "two"}

Fit == [prefix |-> "ANC", title |-> "other", trigger |-> "edit", data |-> "given"]
MCRequests == {Fit, [Fit EXCEPT !.prefix = "INV"], [Fit EXCEPT !.trigger = "open"],
               [Fit EXCEPT !.title = "unfit"]}

Clean == [staged |-> 1, outside |-> FALSE, verticals |-> {"etl"}, ddl |-> 0, override |-> FALSE,
          flags |-> {}]
MCContexts == {Clean, [Clean EXCEPT !.verticals = {"etl", "web"}]}

Symmetric == Permutations(MCProcs)
=============================================================================
