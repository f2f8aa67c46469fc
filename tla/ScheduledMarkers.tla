-------------------------- MODULE ScheduledMarkers --------------------------
(***************************************************************************)
(* Scheduled markers: work put off until an edit, a date or a condition.   *)
(*                                                                         *)
(* list.md holds the rows, active ones first; every row names a detail     *)
(* file; prefix_registry.md says which prefixes may be used.  create and   *)
(* close hold the flock of the list, register-prefix that of the registry. *)
(* create gives the next number of its prefix, writes the detail file,     *)
(* then the row, then a row of the event log.                              *)
(***************************************************************************)
EXTENDS Naturals, Sequences, FiniteSets, SequencesExt

CONSTANTS
    Procs,          \* processes; each runs one command at a time
    PrefixIds,       \* the prefixes a command may name
    Requests,       \* what create may be asked for, see Request
    MaxCommands,    \* how many commands run
    MaxFaults,      \* how many writes fail or processes are killed
    Nobody, Nothing

VARIABLES
    cmd,        \* what each process is doing
    locks,      \* the holder of each flock
    list,       \* list.md: the rows, active and closed
    headed,     \* list.md is there with its two sections
    details,    \* the detail files
    registry,   \* the rows of prefix_registry.md
    told,       \* the rows of the event log
    left,       \* the commands that may still be started
    faults,     \* the writes that failed and the processes killed
    handed      \* ghost: the ids create has put in the list

pages == <<list, headed, details, registry, handed>>
markers == <<pages, told>>
bounds == <<left, faults>>

(* What a create asks for: `trigger` is the shape of --trigger, `data` is  *)
(* --data-needed; "unfit" stands for what only the schema refuses.         *)
Request == [prefix : PrefixIds, title : {"plain", "other", "question", "speculative", "unfit"},
            trigger : {"edit", "date", "condition", "missing", "prose", "open"},
            data : {"given", "na", "na_allowed"}]

ASSUME MarkerAssumption ==
    /\ MaxCommands \in Nat /\ MaxFaults \in Nat
    /\ Requests \subseteq Request /\ Nobody \notin Procs /\ IsFiniteSet(Procs)

Target == [edit |-> "closure_trigger", date |-> "date", condition |-> "condition"]

(* The refusal table, in the order it is gone through.                     *)
Refusal(r) ==
    IF r.title = "question" THEN "R-TITLE-QUESTION"
    ELSE IF r.title = "speculative" THEN "R-TITLE-SPECULATIVE"
    ELSE IF r.data = "na" THEN "R-DATA-NA-UNAUTHORIZED"
    ELSE IF r.trigger = "missing" THEN "R-TRIG-MISSING"
    ELSE IF r.trigger = "open" THEN "R-TRIG-OPEN-DATE"
    ELSE IF r.trigger = "prose" THEN "R-TRIG-PROSE"
    ELSE "none"

(* A command: where it is, what it was asked (a request, an id, a prefix), *)
(* the number create took and the page close read.                         *)
Asks(at, what) == [at |-> at, of |-> what, n |-> 0, page |-> Nothing]
Idle == Asks("idle", Nothing)
At(i, at) == cmd[i].at = at
Goto(i, at) == cmd' = [cmd EXCEPT ![i].at = at]
Starts(i, c) == /\ At(i, "idle") /\ left > 0 /\ left' = left - 1
                /\ cmd' = [cmd EXCEPT ![i] = c] /\ UNCHANGED <<faults, locks>>

(* (wrong) The flock is granted whoever holds it.                          *)
GrantedAlways(f, i) == locks' = [locks EXCEPT ![f] = i]

Granted(f, i) == locks[f] = Nobody /\ locks' = [locks EXCEPT ![f] = i]
Release(i) == locks' = [f \in DOMAIN locks |-> IF locks[f] = i THEN Nobody ELSE locks[f]]

(* One of the writes fails; the exception releases what is held.           *)
Fault == faults < MaxFaults /\ faults' = faults + 1
Leave(i) == Release(i) /\ cmd' = [cmd EXCEPT ![i] = Idle] /\ UNCHANGED left
Done(i) == Leave(i) /\ UNCHANGED faults
Fails(i) == Fault /\ Leave(i)

(* What the next row of the log says.                                      *)
Created(id) == <<"created", id>>
Tells(what) == told' = told \cup {what} /\ UNCHANGED pages

(***************************************************************************)
(* Rows, files and prefixes                                                *)
(***************************************************************************)
Rows == ToSet(list.active) \cup ToSet(list.closed)
IdOf(row) == <<row.prefix, row.n>>
NumbersOf(p) == {row.n : row \in {r \in Rows : r.prefix = p}}

(* (wrong) Only the active rows are looked at.                             *)
NextNumberOfActive(p) ==
    Max({0} \cup {row.n : row \in {r \in ToSet(list.active) : r.prefix = p}}) + 1

NextNumber(p) == Max({0} \cup NumbersOf(p)) + 1
IsActive(id) == \E row \in ToSet(list.active) : IdOf(row) = id

(* A file is named by the id and the title; a second write replaces it.    *)
FileOf(row) == <<row.prefix, row.n, row.title>>
Filed(row) == {d \in details : FileOf(d) = FileOf(row)}
Replaced(row) == (details \ Filed(row)) \cup {row}

Registered(p) == \E r \in ToSet(registry) : r.prefix = p
MayBeUsed(p) == \E r \in ToSet(registry) : r.prefix = p /\ ~r.retired

(* What validate reports of a row: an unknown prefix, a detail file that   *)
(* is missing or whose trigger is of another kind.                         *)
Violations(row) ==
    {code \in {12, 14, 15} :
        \/ code = 12 /\ Filed(row) = {}
        \/ code = 14 /\ ~Registered(row.prefix)
        \/ code = 15 /\ \E d \in Filed(row) : d.target # row.target}

(***************************************************************************)
(* create                                                                  *)
(***************************************************************************)
Row(i) == [prefix |-> cmd[i].of.prefix, n |-> cmd[i].n,
           title |-> cmd[i].of.title, target |-> Target[cmd[i].of.trigger]]

Asked(r) == Asks(IF Refusal(r) = "none" THEN "prefix" ELSE "refused", r)

CreateStarts(i, r) == Starts(i, Asked(r)) /\ UNCHANGED markers

PrefixIsChecked(i) ==
    /\ At(i, "prefix")
    /\ Goto(i, IF MayBeUsed(cmd[i].of.prefix) THEN "create" ELSE "refused")
    /\ UNCHANGED <<locks, markers, bounds>>

TellsRefused(i) ==
    /\ At(i, "refused")
    /\ Tells(<<"refused", cmd[i].of>>) /\ Done(i)

CreateLocks(i) ==
    /\ At(i, "create") /\ cmd[i].of.title # "unfit" /\ Granted("list", i)
    /\ LET of == cmd[i].of
       IN cmd' = [cmd EXCEPT ![i] = [Asks("detail", of) EXCEPT !.n = NextNumber(of.prefix)]]
    /\ UNCHANGED <<markers, bounds>>

SchemaRefuses(i) ==
    /\ At(i, "create") /\ cmd[i].of.title = "unfit" /\ locks["list"] = Nobody
    /\ Done(i) /\ UNCHANGED markers

WritesDetail(i) ==
    /\ At(i, "detail") /\ details' = Replaced(Row(i)) /\ Goto(i, "row")
    /\ UNCHANGED <<locks, list, headed, registry, told, handed, bounds>>

(* A list without its headings is only found out here.                     *)
NoHeadings(i) == At(i, "row") /\ ~headed /\ Done(i) /\ UNCHANGED markers

WritesRow(i) ==
    /\ At(i, "row") /\ headed
    /\ list' = [list EXCEPT !.active = Append(@, Row(i))]
    /\ handed' = handed \cup {IdOf(Row(i))}
    /\ Goto(i, "tell_created")
    /\ UNCHANGED <<locks, headed, details, registry, told, bounds>>

TellsCreated(i) ==
    /\ At(i, "tell_created")
    /\ Tells(Created(IdOf(Row(i)))) /\ Done(i)

(***************************************************************************)
(* close                                                                   *)
(***************************************************************************)
CloseStarts(i, id) ==
    /\ Starts(i, IF IsActive(id) THEN Asks("close", id) ELSE Idle)
    /\ UNCHANGED markers

StillActive(id) == IsActive(id)

CloseLocks(i) ==
    /\ At(i, "close") /\ StillActive(cmd[i].of) /\ Granted("list", i)
    /\ cmd' = [cmd EXCEPT ![i] = [Asks("move", cmd[i].of) EXCEPT !.page = list]]
    /\ UNCHANGED <<markers, bounds>>

ClosedMeanwhile(i) ==
    /\ At(i, "close") /\ ~StillActive(cmd[i].of) /\ locks["list"] = Nobody
    /\ Done(i) /\ UNCHANGED markers

(* The first entry of that id leaves the active section.                   *)
MovesRow(i) ==
    /\ At(i, "move")
    /\ LET page == cmd[i].page
           here == {k \in DOMAIN page.active : IdOf(page.active[k]) = cmd[i].of}
           k == Min(here)
       IN /\ here # {}
          /\ list' = [active |-> RemoveAt(page.active, k),
                      closed |-> Append(page.closed, page.active[k])]
    /\ Goto(i, "tell_closed")
    /\ UNCHANGED <<locks, headed, details, registry, told, handed, bounds>>

TellsClosed(i) ==
    /\ At(i, "tell_closed")
    /\ Tells(<<"closed", cmd[i].of>>) /\ Done(i)

(***************************************************************************)
(* register-prefix, and the operator's edits of the registry               *)
(***************************************************************************)
RegisterStarts(i, p) ==
    /\ Starts(i, IF Registered(p) THEN Idle ELSE Asks("register", p))
    /\ UNCHANGED markers

RegisterLocks(i) ==
    /\ At(i, "register") /\ ~Registered(cmd[i].of) /\ Granted("registry", i)
    /\ Goto(i, "add")
    /\ UNCHANGED <<markers, bounds>>

RegisteredMeanwhile(i) ==
    /\ At(i, "register") /\ Registered(cmd[i].of) /\ locks["registry"] = Nobody
    /\ Done(i) /\ UNCHANGED markers

AddsPrefix(i) ==
    /\ At(i, "add")
    /\ registry' = Append(registry, [prefix |-> cmd[i].of, retired |-> FALSE])
    /\ Goto(i, "tell_registered")
    /\ UNCHANGED <<locks, list, headed, details, told, handed, bounds>>

TellsRegistered(i) ==
    /\ At(i, "tell_registered")
    /\ Tells(<<"registered", cmd[i].of>>) /\ Done(i)

RetiresByHand(p) ==
    /\ left > 0 /\ left' = left - 1 /\ MayBeUsed(p)
    /\ registry' = [k \in DOMAIN registry |->
           IF registry[k].prefix = p THEN [registry[k] EXCEPT !.retired = TRUE] ELSE registry[k]]
    /\ UNCHANGED <<cmd, locks, faults, list, headed, details, told, handed>>

(***************************************************************************)
(* Failures                                                                *)
(***************************************************************************)
MarkerWrites == {"refused", "detail", "row", "tell_created", "move", "tell_closed", "add",
                 "tell_registered"}

(* The file or the log cannot be written.  (A log row that cannot be       *)
(* written fails a command whose effect is already there.)                 *)
MarkerWriteFails(i) == cmd[i].at \in MarkerWrites /\ Fails(i) /\ UNCHANGED markers

(* The process is killed; the kernel drops its flocks.                     *)
Killed(i) ==
    /\ cmd[i].at # "idle" /\ Fails(i) /\ UNCHANGED markers

MarkerInit ==
    /\ headed \in BOOLEAN
    /\ \E p \in PrefixIds :
          LET row(n) == [prefix |-> p, n |-> n, title |-> "plain", target |-> "date"]
              kept == IF headed THEN <<row(1), row(2)>> ELSE <<>>
          IN /\ registry = <<[prefix |-> p, retired |-> FALSE]>>
             /\ list = [active |-> kept, closed |-> <<>>]
             /\ details = ToSet(kept)
             /\ handed = {IdOf(r) : r \in ToSet(kept)}
             /\ told = {Created(IdOf(r)) : r \in ToSet(kept)}
    /\ cmd = [i \in Procs |-> Idle] /\ locks = [f \in {"list", "registry"} |-> Nobody]
    /\ left = MaxCommands /\ faults = 0

MarkerStep(i) ==
    \/ PrefixIsChecked(i) \/ TellsRefused(i) \/ CreateLocks(i) \/ SchemaRefuses(i)
    \/ WritesDetail(i) \/ NoHeadings(i) \/ WritesRow(i) \/ TellsCreated(i)
    \/ CloseLocks(i) \/ ClosedMeanwhile(i) \/ MovesRow(i) \/ TellsClosed(i)
    \/ RegisterLocks(i) \/ RegisteredMeanwhile(i) \/ AddsPrefix(i) \/ TellsRegistered(i)
    \/ MarkerWriteFails(i) \/ Killed(i)

MarkerStarts(i) ==
    \/ \E r \in Requests : CreateStarts(i, r)
    \/ \E row \in Rows : CloseStarts(i, IdOf(row))
    \/ \E p \in PrefixIds : RegisterStarts(i, p)

(***************************************************************************)
(* Properties                                                              *)
(***************************************************************************)
AtMarker(at) == {i \in Procs : cmd[i].at = at}

(* No two rows of the list have one number, whatever was closed, crashed   *)
(* or refused in between, and a prefix is registered once.                 *)
NumbersAreBurned ==
    /\ \A s, t \in {"active", "closed"} : \A a \in DOMAIN list[s], b \in DOMAIN list[t] :
          IdOf(list[s][a]) = IdOf(list[t][b]) => s = t /\ a = b
    /\ \A a, b \in DOMAIN registry : registry[a].prefix = registry[b].prefix => a = b

(* A row create has put in the list stays in it, active or closed.         *)
RowsAreKept == handed = {IdOf(row) : row \in Rows}

(* validate has nothing to say of a row the commands wrote, at any moment: *)
(* the detail file comes first, and a retired prefix is still known.       *)
RowsValidate == \A row \in Rows : Violations(row) = {}

(* A detail file without a row, or a row the log does not tell of, is the  *)
(* trace of a failure, or of a list without headings.                      *)
TracesCostAFault ==
    LET orphans == {d \in details : \A row \in Rows : FileOf(row) # FileOf(d)}
        untold == {row \in Rows : Created(IdOf(row)) \notin told}
    IN headed => /\ Cardinality(orphans) <= faults + Cardinality(AtMarker("row"))
                 /\ Cardinality(untold) <= faults + Cardinality(AtMarker("tell_created"))

(* A closed marker is final: its row is never changed or taken out.        *)
ClosedIsFinal == [][IsPrefix(list.closed, list'.closed)]_list
=============================================================================
