------------------------- MODULE IssueRouting_proofs -------------------------
(***************************************************************************)
(* Proofs about ScheduledMarkers and IssueRouting, for any finite set of   *)
(* processes, any prefixes, requests, plans and caps, and any number of    *)
(* commands, faults and lines.                                             *)
(***************************************************************************)
EXTENDS IssueRouting, FiniteSetTheorems, WellFoundedInduction, TLAPS

(***************************************************************************)
(* Numbers and sequences                                                   *)
(***************************************************************************)
(* A set of numbers that is not empty has a least one.                     *)
LEMMA LeastOne ==
  ASSUME NEW T, T \subseteq Nat, T # {}
  PROVE  \E m \in T : \A n \in T : m <= n
  <1> DEFINE R == OpToRel(<, Nat)
  <1>1. \A x, y \in Nat : x < y => <<x, y>> \in R
    BY DEF OpToRel
  <1>2. IsWellFoundedOn(R, Nat)
    BY NatLessThanWellFounded
  <1> HIDE DEF R
  <1>3. PICK m \in T : \A n \in T : ~(<<n, m>> \in R)
    BY <1>2, WFMin
  <1>4. \A n \in T : ~(n < m)
    BY <1>1, <1>3
  <1>5. QED
    BY <1>4

LEMMA MinOfThem ==
  ASSUME NEW T, T \subseteq Nat, T # {}
  PROVE  Min(T) \in T
  <1>1. PICK m \in T : \A n \in T : m <= n
    BY LeastOne
  <1>2. QED
    BY <1>1 DEF Min

(* The greatest of a set of numbers that has a bound.                      *)
LEMMA MaxOfThem ==
  ASSUME NEW T, T \subseteq Nat, T # {}, NEW b \in Nat, \A x \in T : x <= b
  PROVE  Max(T) \in T /\ \A x \in T : x <= Max(T)
  <1> DEFINE U == {u \in Nat : \A x \in T : x <= u}
  <1>1. PICK u \in U : \A v \in U : u <= v
    <2>1. U \subseteq Nat /\ U # {}
      OBVIOUS
    <2>2. QED
      BY <2>1, LeastOne
  <1>2. u \in T
    <2>1. SUFFICES ASSUME u \notin T
                   PROVE  FALSE
      OBVIOUS
    <2>2. \A x \in T : x \in Nat /\ x < u
      BY <2>1
    <2>3. PICK y \in T : TRUE
      OBVIOUS
    <2>4. y \in Nat /\ y < u /\ u \in Nat
      BY <2>2
    <2>5. u - 1 \in Nat
      BY <2>4
    <2>6. \A x \in T : x <= u - 1
      BY <2>2
    <2>7. u - 1 \in U
      BY <2>5, <2>6
    <2>8. QED
      BY <1>1, <2>7
  <1>3. \A x \in T : u >= x
    BY <1>1
  <1>4. QED
    BY <1>2, <1>3 DEF Max

(* The elements of two sequences, one after the other.                     *)
LEMMA OneAfterTheOther ==
  ASSUME NEW T, NEW a \in Seq(T), NEW b \in Seq(T), NEW x \in 1..(Len(a) + Len(b))
  PROVE  (a \o b)[x] = IF x <= Len(a) THEN a[x] ELSE b[x - Len(a)]
  OBVIOUS

(* What is left of a sequence when an element is taken out.                *)
LEMMA RemovedAt ==
  ASSUME NEW T, NEW s \in Seq(T), NEW k \in DOMAIN s
  PROVE  /\ RemoveAt(s, k) \in Seq(T) /\ Len(RemoveAt(s, k)) = Len(s) - 1
         /\ \A x \in 1..(Len(s) - 1) : RemoveAt(s, k)[x] = IF x < k THEN s[x] ELSE s[x + 1]
  <1>1. k \in 1..Len(s) /\ Len(s) \in Nat
    OBVIOUS
  <1> DEFINE a == SubSeq(s, 1, k - 1)  b == SubSeq(s, k + 1, Len(s))
  <1>2. a \in Seq(T) /\ Len(a) = k - 1 /\ \A x \in 1..(k - 1) : a[x] = s[x]
    BY <1>1
  <1>3. b \in Seq(T) /\ Len(b) = Len(s) - k /\ \A x \in 1..(Len(s) - k) : b[x] = s[k + x]
    BY <1>1
  <1> HIDE DEF a, b
  <1>4. a \o b \in Seq(T) /\ Len(a \o b) = Len(s) - 1
    BY <1>1, <1>2, <1>3
  <1>5. ASSUME NEW x \in 1..(Len(s) - 1)
        PROVE  (a \o b)[x] = IF x < k THEN s[x] ELSE s[x + 1]
    <2>1. CASE x < k
      BY <1>1, <1>2, <1>3, <2>1
    <2>2. CASE ~(x < k)
      <3>1. x \in 1..(Len(a) + Len(b)) /\ ~(x <= Len(a)) /\ x - Len(a) = x - (k - 1)
        BY <1>1, <1>2, <1>3, <2>2
      <3>2. (a \o b)[x] = b[x - Len(a)]
        BY <1>2, <1>3, <3>1, OneAfterTheOther
      <3>3. x - (k - 1) \in 1..(Len(s) - k) /\ k + (x - (k - 1)) = x + 1
        BY <1>1, <2>2
      <3>4. QED
        BY <1>3, <2>2, <3>1, <3>2, <3>3
    <2>3. QED
      BY <2>1, <2>2
  <1>6. RemoveAt(s, k) = a \o b
    BY DEF RemoveAt, a, b
  <1>7. QED
    BY <1>4, <1>5, <1>6

LEMMA AppendedTo ==
  ASSUME NEW T, NEW s \in Seq(T), NEW e \in T
  PROVE  /\ Append(s, e) \in Seq(T) /\ Len(Append(s, e)) = Len(s) + 1
         /\ DOMAIN s = 1..Len(s) /\ DOMAIN Append(s, e) = 1..(Len(s) + 1)
         /\ \A x \in 1..Len(s) : Append(s, e)[x] = s[x]
         /\ Append(s, e)[Len(s) + 1] = e /\ Len(s) \in Nat
  OBVIOUS

LEMMA ElementOf ==
  ASSUME NEW T, NEW s \in Seq(T), NEW k \in DOMAIN s
  PROVE  s[k] \in T
  OBVIOUS

(* A sequence is a prefix of what is appended to it.                       *)
LEMMA PrefixOfMore ==
  ASSUME NEW T, NEW s \in Seq(T), NEW e
  PROVE  IsPrefix(s, s) /\ IsPrefix(s, Append(s, e))
  BY DEF IsPrefix

(* The image of a finite set is no larger than the set.                    *)
LEMMA NoMoreImages ==
  ASSUME NEW S, IsFiniteSet(S), NEW f, DOMAIN f = S, NEW R, \A r \in R : \E x \in S : r = f[x]
  PROVE  IsFiniteSet(R) /\ Cardinality(R) <= Cardinality(S)
  <1> DEFINE I == {f[x] : x \in S}
             g == [x \in S |-> f[x]]
  <1>1. g \in Surjection(S, I)
    BY DEF Surjection
  <1>2. IsFiniteSet(I) /\ Cardinality(I) <= Cardinality(S)
    BY <1>1, FS_Surjection
  <1>3. R \in SUBSET I
    OBVIOUS
  <1>4. IsFiniteSet(R) /\ Cardinality(R) <= Cardinality(I)
    BY <1>2, <1>3, FS_Subset
  <1>5. Cardinality(R) \in Nat /\ Cardinality(I) \in Nat /\ Cardinality(S) \in Nat
    BY <1>2, <1>4, FS_CardinalityType
  <1>6. QED
    BY <1>2, <1>4, <1>5

(* One more element counts one more at most.                               *)
LEMMA OneMore ==
  ASSUME NEW S, IsFiniteSet(S), NEW e, NEW R, R \subseteq S \cup {e}
  PROVE  /\ IsFiniteSet(R) /\ Cardinality(R) <= Cardinality(S) + 1
         /\ Cardinality(R) \in Nat /\ Cardinality(S) \in Nat
  <1>1. IsFiniteSet(S \cup {e}) /\ Cardinality(S \cup {e}) <= Cardinality(S) + 1
    <2>1. Cardinality(S) \in Nat
      BY FS_CardinalityType
    <2>2. CASE e \in S
      <3>1. S \cup {e} = S
        BY <2>2
      <3>2. QED
        BY <2>1, <3>1
    <2>3. CASE e \notin S
      <3>1. IsFiniteSet(S \cup {e}) /\ Cardinality(S \cup {e}) = Cardinality(S) + 1
        BY <2>3, FS_AddElement
      <3>2. QED
        BY <2>1, <3>1
    <2>4. QED
      BY <2>2, <2>3
  <1>2. R \in SUBSET (S \cup {e})
    OBVIOUS
  <1>3. IsFiniteSet(R) /\ Cardinality(R) <= Cardinality(S \cup {e})
    BY <1>1, <1>2, FS_Subset
  <1>4. /\ Cardinality(R) \in Nat /\ Cardinality(S) \in Nat
        /\ Cardinality(S \cup {e}) \in Nat
    BY <1>1, <1>3, FS_CardinalityType
  <1>5. QED
    BY <1>1, <1>3, <1>4

LEMMA NoMore ==
  ASSUME NEW S, IsFiniteSet(S), NEW R, R \subseteq S
  PROVE  /\ IsFiniteSet(R) /\ Cardinality(R) <= Cardinality(S)
         /\ Cardinality(R) \in Nat /\ Cardinality(S) \in Nat
  <1>1. R \in SUBSET S
    OBVIOUS
  <1>2. IsFiniteSet(R) /\ Cardinality(R) <= Cardinality(S)
    BY <1>1, FS_Subset
  <1>3. QED
    BY <1>2, FS_CardinalityType

LEMMA CountTogether ==
  ASSUME NEW S, IsFiniteSet(S), NEW T, IsFiniteSet(T), NEW R, R \subseteq S \cup T
  PROVE  /\ IsFiniteSet(R) /\ Cardinality(R) <= Cardinality(S) + Cardinality(T)
         /\ {Cardinality(R), Cardinality(S), Cardinality(T)} \subseteq Nat
  <1>1. /\ IsFiniteSet(S \cup T) /\ IsFiniteSet(S \cap T)
        /\ Cardinality(S \cup T) = Cardinality(S) + Cardinality(T) - Cardinality(S \cap T)
    BY FS_Union, FS_Intersection
  <1>2. R \in SUBSET (S \cup T)
    OBVIOUS
  <1>3. IsFiniteSet(R) /\ Cardinality(R) <= Cardinality(S \cup T)
    BY <1>1, <1>2, FS_Subset
  <1>4. /\ Cardinality(R) \in Nat /\ Cardinality(S) \in Nat /\ Cardinality(T) \in Nat
        /\ Cardinality(S \cup T) \in Nat /\ Cardinality(S \cap T) \in Nat
    BY <1>1, <1>3, FS_CardinalityType
  <1>5. QED
    BY <1>1, <1>3, <1>4

(***************************************************************************)
(* The markers.  A command that works on the list or on the registry holds *)
(* its flock; what it read there still stands when it writes.              *)
(***************************************************************************)
IsJob(c) == c = [at |-> c.at, of |-> c.of, n |-> c.n, page |-> c.page]
Commands == cmd = [i \in Procs |-> cmd[i]] /\ \A i \in Procs : IsJob(cmd[i])

ListSteps == {"detail", "row", "tell_created", "move", "tell_closed"}
RegistrySteps == {"add", "tell_registered"}

Entry == [prefix : PrefixIds, n : Nat,
          title : {"plain", "other", "question", "speculative", "unfit"},
          target : {"closure_trigger", "date", "condition"}]

Files ==
  /\ list = [active |-> list.active, closed |-> list.closed]
  /\ list.active \in Seq(Entry) /\ list.closed \in Seq(Entry)
  /\ registry \in Seq([prefix : PrefixIds, retired : BOOLEAN])
  /\ details \subseteq Entry /\ IsFiniteSet(details)
  /\ locks \in [{"list", "registry"} -> Procs \cup {Nobody}]
  /\ left \in 0..MaxCommands /\ faults \in 0..MaxFaults

Asking(i) ==
  /\ cmd[i].at \in {"prefix", "create", "detail", "row", "tell_created"}
       => cmd[i].of \in Requests /\ Refusal(cmd[i].of) = "none"
  /\ cmd[i].at \in {"register", "add"} => cmd[i].of \in PrefixIds

Holding(i) ==
  /\ cmd[i].at \in ListSteps => locks["list"] = i
  /\ cmd[i].at \in RegistrySteps => locks["registry"] = i

(* A number that is greater than all of its prefix, a detail file that is  *)
(* the request's, a marker that is still active, a prefix still unknown.   *)
Creating(i) ==
  /\ cmd[i].at \in {"create", "detail", "row"} => Registered(cmd[i].of.prefix)
  /\ cmd[i].at \in {"detail", "row"} =>
       /\ cmd[i].n \in Nat
       /\ \A row \in Rows : row.prefix = cmd[i].of.prefix => row.n < cmd[i].n
  /\ cmd[i].at = "row" => Filed(Row(i)) = {Row(i)}
ClosingOne(i) ==
  cmd[i].at = "move" =>
    /\ cmd[i].page = list
    /\ \E k \in DOMAIN list.active : IdOf(list.active[k]) = cmd[i].of
Registering(i) == cmd[i].at = "add" => ~Registered(cmd[i].of)

OnTrack(i) == Asking(i) /\ Holding(i) /\ Creating(i) /\ ClosingOne(i) /\ Registering(i)
AtWork == \A i \in Procs : OnTrack(i)

Bounded == \E b \in Nat : \A row \in Rows : row.n <= b

(* What no command on its way will mend.                                   *)
StuckDetails ==
  {d \in details : /\ \A row \in Rows : FileOf(row) # FileOf(d)
                   /\ \A i \in Procs : cmd[i].at = "row" => d # Row(i)}
StuckRows ==
  {row \in Rows : /\ Created(IdOf(row)) \notin told
                  /\ \A i \in Procs : cmd[i].at = "tell_created" => row # Row(i)}
Traces == headed => Cardinality(StuckDetails) <= faults /\ Cardinality(StuckRows) <= faults

MarkersIInv ==
  /\ Commands /\ Files /\ AtWork /\ NumbersAreBurned /\ Bounded /\ RowsAreKept /\ RowsValidate
  /\ Traces

(* One command changes, the others do not.                                 *)
LEMMA JobIs ==
  ASSUME Commands, NEW i \in Procs, NEW job, IsJob(job), cmd' = [cmd EXCEPT ![i] = job]
  PROVE  /\ Commands' /\ cmd'[i] = job
         /\ \A k \in Procs : k # i => cmd'[k] = cmd[k]
  <1>1. cmd'[i] = job /\ \A k \in Procs : k # i => cmd'[k] = cmd[k]
    BY DEF Commands
  <1>2. cmd' = [k \in Procs |-> cmd'[k]]
    BY DEF Commands
  <1>3. \A k \in Procs : IsJob(cmd'[k])
    BY <1>1 DEF Commands
  <1>4. QED
    BY <1>1, <1>2, <1>3 DEF Commands

(* Another place in the code, and nothing else of the command.             *)
LEMMA GotoIs ==
  ASSUME Commands, NEW i \in Procs, NEW at, Goto(i, at)
  PROVE  /\ Commands'
         /\ cmd'[i].at = at /\ cmd'[i].of = cmd[i].of /\ cmd'[i].n = cmd[i].n
         /\ cmd'[i].page = cmd[i].page
         /\ \A k \in Procs : k # i => cmd'[k] = cmd[k]
  <1> DEFINE job == [at |-> at, of |-> cmd[i].of, n |-> cmd[i].n, page |-> cmd[i].page]
  <1>1. IsJob(cmd[i])
    BY DEF Commands
  <1>2. [cmd[i] EXCEPT !.at = at] = job
    BY <1>1 DEF IsJob
  <1>3. cmd' = [cmd EXCEPT ![i] = [cmd[i] EXCEPT !.at = at]]
    BY DEF Goto
  <1>4. cmd' = [cmd EXCEPT ![i] = job]
    BY <1>2, <1>3
  <1>5. /\ IsJob(job) /\ job.at = at /\ job.of = cmd[i].of /\ job.n = cmd[i].n
        /\ job.page = cmd[i].page
    BY DEF IsJob
  <1> HIDE DEF job
  <1>6. Commands' /\ cmd'[i] = job /\ \A k \in Procs : k # i => cmd'[k] = cmd[k]
    BY <1>4, <1>5, JobIs
  <1>7. QED
    BY <1>5, <1>6

LEMMA IdleIs ==
  /\ IsJob(Idle) /\ Idle.at = "idle"
  /\ \A at, what : /\ IsJob(Asks(at, what)) /\ Asks(at, what).at = at
                   /\ Asks(at, what).of = what
  BY DEF IsJob, Idle, Asks

(* A granted flock was nobody's; a release takes none from another.        *)
LEMMA GrantedIs ==
  ASSUME locks \in [{"list", "registry"} -> Procs \cup {Nobody}], NEW i \in Procs,
         NEW f \in {"list", "registry"}, Granted(f, i)
  PROVE  /\ locks' \in [{"list", "registry"} -> Procs \cup {Nobody}]
         /\ locks'[f] = i /\ \A k \in Procs : locks[f] # k
         /\ \A g \in {"list", "registry"}, k \in Procs : locks[g] = k => locks'[g] = k
  BY MarkerAssumption DEF Granted

LEMMA ReleaseIs ==
  ASSUME locks \in [{"list", "registry"} -> Procs \cup {Nobody}], NEW i \in Procs, Release(i)
  PROVE  /\ locks' \in [{"list", "registry"} -> Procs \cup {Nobody}]
         /\ \A g \in {"list", "registry"}, k \in Procs \ {i} : locks[g] = k => locks'[g] = k
  <1>1. DOMAIN locks = {"list", "registry"}
    OBVIOUS
  <1>2. QED
    BY <1>1 DEF Release

(* A command that does not move stays on its track while it holds what it  *)
(* holds and nobody else writes there.                                     *)
LEMMA StaysOnTrack ==
  ASSUME NEW k \in Procs, OnTrack(k), cmd'[k] = cmd[k],
         cmd[k].at \in ListSteps =>
           locks'["list"] = k /\ list' = list /\ details' = details,
         cmd[k].at \in RegistrySteps => locks'["registry"] = k /\ registry' = registry,
         \A p : Registered(p) => Registered(p)'
  PROVE  OnTrack(k)'
  <1>1. Asking(k)'
    BY DEF OnTrack, Asking
  <1>2. Holding(k)'
    BY DEF OnTrack, Holding
  <1>3. Row(k)' = Row(k)
    BY DEF Row
  <1>4. ASSUME list' = list
        PROVE  Rows' = Rows
    BY <1>4 DEF Rows
  <1>5. ASSUME details' = details
        PROVE  Filed(Row(k))' = Filed(Row(k))
    BY <1>3, <1>5 DEF Filed, FileOf
  <1>6. Creating(k)'
    <2>1. cmd[k].at \in {"create", "detail", "row"} => Registered(cmd[k].of.prefix)'
      BY DEF OnTrack, Creating
    <2>2. CASE cmd[k].at \in {"detail", "row"}
      <3>1. list' = list /\ details' = details
        BY <2>2 DEF ListSteps
      <3>2. QED
        BY <1>3, <1>4, <1>5, <2>1, <3>1 DEF OnTrack, Creating
    <2>3. CASE cmd[k].at \notin {"detail", "row"}
      BY <2>1, <2>3 DEF Creating
    <2>4. QED
      BY <2>2, <2>3
  <1>7. ClosingOne(k)'
    <2>1. CASE cmd[k].at = "move"
      <3>1. list' = list
        BY <2>1 DEF ListSteps
      <3>2. QED
        BY <3>1 DEF OnTrack, ClosingOne, IdOf
    <2>2. CASE cmd[k].at # "move"
      BY <2>2 DEF ClosingOne
    <2>3. QED
      BY <2>1, <2>2
  <1>8. Registering(k)'
    <2>1. CASE cmd[k].at = "add"
      <3>1. registry' = registry
        BY <2>1 DEF RegistrySteps
      <3>2. QED
        BY <3>1 DEF OnTrack, Registering, Registered
    <2>2. CASE cmd[k].at # "add"
      BY <2>2 DEF Registering
    <2>3. QED
      BY <2>1, <2>2
  <1>9. QED
    BY <1>1, <1>2, <1>6, <1>7, <1>8 DEF OnTrack

(* The traces that are left grow by one for each fault.                    *)
LEMMA TracesGrow ==
  ASSUME Traces, NEW d, NEW r, headed' = headed,
         IsFiniteSet(StuckDetails), IsFiniteSet(StuckRows),
         faults \in Nat, faults' \in Nat,
         headed => /\ \/ StuckDetails' \subseteq StuckDetails /\ faults <= faults'
                      \/ StuckDetails' \subseteq StuckDetails \cup {d} /\ faults' = faults + 1
                   /\ \/ StuckRows' \subseteq StuckRows /\ faults <= faults'
                      \/ StuckRows' \subseteq StuckRows \cup {r} /\ faults' = faults + 1
  PROVE  Traces'
  <1> SUFFICES ASSUME headed
               PROVE  Cardinality(StuckDetails)' <= faults' /\ Cardinality(StuckRows)' <= faults'
    BY DEF Traces
  <1>1. Cardinality(StuckDetails) <= faults /\ Cardinality(StuckRows) <= faults
    BY DEF Traces
  <1> HIDE DEF StuckDetails, StuckRows
  <1>2. Cardinality(StuckDetails)' <= faults'
    <2>1. CASE StuckDetails' \subseteq StuckDetails /\ faults <= faults'
      <3>1. /\ Cardinality(StuckDetails') <= Cardinality(StuckDetails)
            /\ Cardinality(StuckDetails') \in Nat /\ Cardinality(StuckDetails) \in Nat
        BY <2>1, NoMore
      <3>2. QED
        BY <1>1, <2>1, <3>1
    <2>2. CASE StuckDetails' \subseteq StuckDetails \cup {d} /\ faults' = faults + 1
      <3>1. /\ Cardinality(StuckDetails') <= Cardinality(StuckDetails) + 1
            /\ Cardinality(StuckDetails') \in Nat /\ Cardinality(StuckDetails) \in Nat
        BY <2>2, OneMore
      <3>2. QED
        BY <1>1, <2>2, <3>1
    <2>3. QED
      BY <2>1, <2>2
  <1>3. Cardinality(StuckRows)' <= faults'
    <2>1. CASE StuckRows' \subseteq StuckRows /\ faults <= faults'
      <3>1. /\ Cardinality(StuckRows') <= Cardinality(StuckRows)
            /\ Cardinality(StuckRows') \in Nat /\ Cardinality(StuckRows) \in Nat
        BY <2>1, NoMore
      <3>2. QED
        BY <1>1, <2>1, <3>1
    <2>2. CASE StuckRows' \subseteq StuckRows \cup {r} /\ faults' = faults + 1
      <3>1. /\ Cardinality(StuckRows') <= Cardinality(StuckRows) + 1
            /\ Cardinality(StuckRows') \in Nat /\ Cardinality(StuckRows) \in Nat
        BY <2>2, OneMore
      <3>2. QED
        BY <1>1, <2>2, <3>1
    <2>3. QED
      BY <2>1, <2>2
  <1>4. QED
    BY <1>2, <1>3

(* There are finitely many rows and files.                                 *)
LEMMA FewRows ==
  ASSUME Files
  PROVE  /\ IsFiniteSet(Rows) /\ Rows \subseteq Entry
         /\ IsFiniteSet(StuckDetails) /\ IsFiniteSet(StuckRows)
  <1>1. ASSUME NEW s \in Seq(Entry)
        PROVE  IsFiniteSet(ToSet(s)) /\ ToSet(s) \subseteq Entry
    <2>1. DOMAIN s = 1..Len(s) /\ Len(s) \in Nat
      OBVIOUS
    <2>2. IsFiniteSet(1..Len(s))
      BY <2>1, FS_Interval
    <2>3. \A r \in ToSet(s) : \E x \in 1..Len(s) : r = s[x]
      BY <2>1 DEF ToSet
    <2>4. IsFiniteSet(ToSet(s))
      BY <2>1, <2>2, <2>3, NoMoreImages
    <2>5. ToSet(s) \subseteq Entry
      BY <2>1 DEF ToSet
    <2>6. QED
      BY <2>4, <2>5
  <1>2. list.active \in Seq(Entry) /\ list.closed \in Seq(Entry) /\ IsFiniteSet(details)
    BY DEF Files
  <1>3. IsFiniteSet(Rows) /\ Rows \subseteq Entry
    BY <1>1, <1>2, FS_Union DEF Rows
  <1>4. StuckDetails \subseteq details /\ StuckRows \subseteq Rows
    BY DEF StuckDetails, StuckRows
  <1>5. QED
    BY <1>2, <1>3, <1>4, NoMore

(* The two sections of the list have no id twice, alone or together.       *)
Apart(a, c) ==
  /\ \A x, y \in DOMAIN a : IdOf(a[x]) = IdOf(a[y]) => x = y
  /\ \A x, y \in DOMAIN c : IdOf(c[x]) = IdOf(c[y]) => x = y
  /\ \A x \in DOMAIN a, y \in DOMAIN c : IdOf(a[x]) # IdOf(c[y])
RegisteredOnce ==
  \A a, b \in DOMAIN registry : registry[a].prefix = registry[b].prefix => a = b

LEMMA BurnedMeans ==
  ASSUME NumbersAreBurned
  PROVE  Apart(list.active, list.closed) /\ RegisteredOnce
  <1>1. RegisteredOnce
    BY DEF NumbersAreBurned, RegisteredOnce
  <1>2. \A s, t \in {"active", "closed"} : \A a \in DOMAIN list[s], b \in DOMAIN list[t] :
          IdOf(list[s][a]) = IdOf(list[t][b]) => s = t /\ a = b
    BY DEF NumbersAreBurned
  <1>3. \A a, b \in DOMAIN list.active :
          IdOf(list.active[a]) = IdOf(list.active[b]) => a = b
    BY <1>2
  <1>4. \A a, b \in DOMAIN list.closed :
          IdOf(list.closed[a]) = IdOf(list.closed[b]) => a = b
    BY <1>2
  <1>5. \A a \in DOMAIN list.active, b \in DOMAIN list.closed :
          IdOf(list.active[a]) # IdOf(list.closed[b])
    BY <1>2
  <1>6. QED
    BY <1>1, <1>3, <1>4, <1>5 DEF Apart

LEMMA ApartBurns ==
  ASSUME Apart(list.active, list.closed), RegisteredOnce
  PROVE  NumbersAreBurned
  <1>1. ASSUME NEW s \in {"active", "closed"}, NEW t \in {"active", "closed"},
               NEW a \in DOMAIN list[s], NEW b \in DOMAIN list[t],
               IdOf(list[s][a]) = IdOf(list[t][b])
        PROVE  s = t /\ a = b
    <2>1. CASE s = "active" /\ t = "active"
      BY <1>1, <2>1 DEF Apart
    <2>2. CASE s = "closed" /\ t = "closed"
      BY <1>1, <2>2 DEF Apart
    <2>3. CASE s = "active" /\ t = "closed"
      BY <1>1, <2>3 DEF Apart
    <2>4. CASE s = "closed" /\ t = "active"
      BY <1>1, <2>4 DEF Apart
    <2>5. QED
      BY <2>1, <2>2, <2>3, <2>4
  <1>2. QED
    BY <1>1 DEF NumbersAreBurned, RegisteredOnce

LEMMA ApartBurnsNext ==
  ASSUME Apart(list.active, list.closed)', RegisteredOnce'
  PROVE  NumbersAreBurned'
  <1>1. ASSUME NEW s \in {"active", "closed"}, NEW t \in {"active", "closed"},
               NEW a \in DOMAIN list'[s], NEW b \in DOMAIN list'[t],
               IdOf(list'[s][a]) = IdOf(list'[t][b])
        PROVE  s = t /\ a = b
    <2>1. CASE s = "active" /\ t = "active"
      BY <1>1, <2>1 DEF Apart
    <2>2. CASE s = "closed" /\ t = "closed"
      BY <1>1, <2>2 DEF Apart
    <2>3. CASE s = "active" /\ t = "closed"
      BY <1>1, <2>3 DEF Apart
    <2>4. CASE s = "closed" /\ t = "active"
      BY <1>1, <2>4 DEF Apart
    <2>5. QED
      BY <2>1, <2>2, <2>3, <2>4
  <1>2. QED
    BY <1>1 DEF NumbersAreBurned, RegisteredOnce

(* A row with a new id at the end of the active section.                   *)
LEMMA ApartWithOneMore ==
  ASSUME NEW a \in Seq(Entry), NEW c \in Seq(Entry), Apart(a, c), NEW r \in Entry,
         \A row \in ToSet(a) \cup ToSet(c) : IdOf(row) # IdOf(r)
  PROVE  Apart(Append(a, r), c) /\ ToSet(Append(a, r)) = ToSet(a) \cup {r}
  <1> DEFINE b == Append(a, r)
  <1>1. /\ Len(a) \in Nat /\ DOMAIN a = 1..Len(a) /\ DOMAIN b = 1..(Len(a) + 1)
        /\ (\A x \in 1..Len(a) : b[x] = a[x]) /\ b[Len(a) + 1] = r
    BY AppendedTo
  <1> HIDE DEF b
  <1>2. ASSUME NEW x \in DOMAIN b, x \notin DOMAIN a
        PROVE  x = Len(a) + 1 /\ b[x] = r
    BY <1>1, <1>2
  <1>3. /\ \A x \in DOMAIN a : x \in DOMAIN b /\ b[x] = a[x] /\ IdOf(a[x]) # IdOf(r)
        /\ \A y \in DOMAIN c : IdOf(c[y]) # IdOf(r)
    BY <1>1 DEF ToSet
  <1>4. ASSUME NEW x \in DOMAIN b, NEW y \in DOMAIN b, IdOf(b[x]) = IdOf(b[y])
        PROVE  x = y
    BY <1>2, <1>3, <1>4 DEF Apart
  <1>5. ASSUME NEW x \in DOMAIN b, NEW y \in DOMAIN c
        PROVE  IdOf(b[x]) # IdOf(c[y])
    BY <1>2, <1>3 DEF Apart
  <1>6. Apart(b, c)
    BY <1>4, <1>5 DEF Apart
  <1>7. ToSet(b) = ToSet(a) \cup {r}
    <2>1. ToSet(b) \subseteq ToSet(a) \cup {r}
      BY <1>2, <1>3 DEF ToSet
    <2>2. ToSet(a) \cup {r} \subseteq ToSet(b)
      BY <1>1, <1>3 DEF ToSet
    <2>3. QED
      BY <2>1, <2>2
  <1>8. QED
    BY <1>6, <1>7 DEF b

(* A row that goes from the active section to the end of the closed one.   *)
LEMMA ApartWhenMoved ==
  ASSUME NEW a \in Seq(Entry), NEW c \in Seq(Entry), Apart(a, c), NEW k \in DOMAIN a
  PROVE  /\ Apart(RemoveAt(a, k), Append(c, a[k]))
         /\ RemoveAt(a, k) \in Seq(Entry) /\ Append(c, a[k]) \in Seq(Entry)
         /\ ToSet(RemoveAt(a, k)) \cup ToSet(Append(c, a[k])) = ToSet(a) \cup ToSet(c)
  <1> DEFINE b == RemoveAt(a, k)  d == Append(c, a[k])
             old(x) == IF x < k THEN x ELSE x + 1
  <1>1. DOMAIN a = 1..Len(a) /\ Len(a) \in Nat /\ k \in 1..Len(a) /\ a[k] \in Entry
    OBVIOUS
  <1>2. /\ b \in Seq(Entry) /\ Len(b) = Len(a) - 1
        /\ \A x \in 1..(Len(a) - 1) : b[x] = IF x < k THEN a[x] ELSE a[x + 1]
    BY RemovedAt
  <1>3. /\ d \in Seq(Entry) /\ Len(c) \in Nat /\ DOMAIN c = 1..Len(c)
        /\ DOMAIN d = 1..(Len(c) + 1) /\ (\A x \in 1..Len(c) : d[x] = c[x])
        /\ d[Len(c) + 1] = a[k]
    BY <1>1, AppendedTo
  <1> HIDE DEF b, d
  <1>4. DOMAIN b = 1..(Len(a) - 1)
    BY <1>1, <1>2
  <1>5. ASSUME NEW x \in DOMAIN b
        PROVE  old(x) \in DOMAIN a /\ old(x) # k /\ b[x] = a[old(x)]
    BY <1>1, <1>2, <1>4
  <1>6. ASSUME NEW x \in DOMAIN b, NEW y \in DOMAIN b, old(x) = old(y)
        PROVE  x = y
    BY <1>1, <1>4, <1>6
  <1>7. ASSUME NEW z \in DOMAIN a, z # k
        PROVE  \E x \in DOMAIN b : b[x] = a[z]
    <2>1. CASE z < k
      <3>1. z \in 1..(Len(a) - 1)
        BY <1>1, <2>1
      <3>2. QED
        BY <1>2, <1>4, <2>1, <3>1
    <2>2. CASE ~(z < k)
      <3>1. z - 1 \in 1..(Len(a) - 1) /\ ~(z - 1 < k) /\ (z - 1) + 1 = z
        BY <1>1, <1>7, <2>2
      <3>2. QED
        BY <1>2, <1>4, <3>1
    <2>3. QED
      BY <2>1, <2>2
  <1> HIDE DEF old
  <1>8. ASSUME NEW y \in DOMAIN d
        PROVE  (y \in DOMAIN c /\ d[y] = c[y]) \/ (y = Len(c) + 1 /\ d[y] = a[k])
    BY <1>3
  <1>9. \A x, y \in DOMAIN b : IdOf(b[x]) = IdOf(b[y]) => x = y
    BY <1>5, <1>6 DEF Apart
  <1>10. \A x, y \in DOMAIN d : IdOf(d[x]) = IdOf(d[y]) => x = y
    BY <1>8 DEF Apart
  <1>11. \A x \in DOMAIN b, y \in DOMAIN d : IdOf(b[x]) # IdOf(d[y])
    BY <1>5, <1>8 DEF Apart
  <1>12. Apart(b, d)
    BY <1>9, <1>10, <1>11 DEF Apart
  <1>13. ToSet(b) \cup ToSet(d) = ToSet(a) \cup ToSet(c)
    <2>1. ToSet(b) \cup ToSet(d) \subseteq ToSet(a) \cup ToSet(c)
      BY <1>5, <1>8 DEF ToSet
    <2>2. ToSet(c) \subseteq ToSet(d)
      BY <1>3 DEF ToSet
    <2>3. a[k] \in ToSet(d)
      BY <1>3 DEF ToSet
    <2>4. ToSet(a) \subseteq ToSet(b) \cup ToSet(d)
      BY <1>7, <2>3 DEF ToSet
    <2>5. QED
      BY <2>1, <2>2, <2>4
  <1>14. QED
    BY <1>2, <1>3, <1>12, <1>13 DEF b, d

(* The log now tells of the row the command has put in the list.           *)
TellsOf(i) == Created(IdOf(Row(i))) \in told'

(* A step that writes none of the markers' files: one command moves on or  *)
(* ends.  A command that ends where it leaves a trace has met a fault, or  *)
(* has told what it did.                                                   *)
LEMMA MovesOn ==
  ASSUME MarkersIInv, NEW i \in Procs, NEW job, IsJob(job), cmd' = [cmd EXCEPT ![i] = job],
         UNCHANGED pages, told \subseteq told', left' \in 0..MaxCommands,
         faults' \in 0..MaxFaults, faults <= faults',
         locks' \in [{"list", "registry"} -> Procs \cup {Nobody}],
         \A f \in {"list", "registry"}, k \in Procs \ {i} : locks[f] = k => locks'[f] = k,
         cmd[i].at = "row" /\ headed => faults' = faults + 1,
         cmd[i].at = "tell_created" =>
           faults' = faults + 1 \/ TellsOf(i),
         OnTrack(i)'
  PROVE  MarkersIInv'
  <1>1. /\ Commands' /\ cmd'[i] = job
        /\ \A k \in Procs : k # i => cmd'[k] = cmd[k]
    BY JobIs DEF MarkersIInv
  <1>2. /\ list' = list /\ headed' = headed /\ details' = details /\ registry' = registry
        /\ handed' = handed
    BY DEF pages
  <1>3. Files'
    BY <1>2 DEF MarkersIInv, Files
  <1>4. \A p : Registered(p)' = Registered(p)
    BY <1>2 DEF Registered
  <1>5. ASSUME NEW k \in Procs, k # i
        PROVE  OnTrack(k)'
    <2>1. OnTrack(k) /\ cmd'[k] = cmd[k]
      BY <1>1, <1>5 DEF MarkersIInv, AtWork
    <2>2. cmd[k].at \in ListSteps => locks'["list"] = k
      BY <1>5, <2>1 DEF OnTrack, Holding
    <2>3. cmd[k].at \in RegistrySteps => locks'["registry"] = k
      BY <1>5, <2>1 DEF OnTrack, Holding
    <2>4. QED
      BY <1>2, <1>4, <2>1, <2>2, <2>3, StaysOnTrack
  <1>6. AtWork'
    BY <1>5 DEF AtWork
  <1>7. Rows' = Rows
    BY <1>2 DEF Rows
  <1>8. NumbersAreBurned' /\ Bounded' /\ RowsAreKept'
    <2>1. NumbersAreBurned /\ Bounded /\ RowsAreKept
      BY DEF MarkersIInv
    <2>2. NumbersAreBurned'
      BY <1>2, <2>1 DEF NumbersAreBurned, IdOf
    <2>3. Bounded'
      BY <1>7, <2>1 DEF Bounded
    <2>4. RowsAreKept'
      BY <1>2, <1>7, <2>1 DEF RowsAreKept, IdOf
    <2>5. QED
      BY <2>2, <2>3, <2>4
  <1>9. RowsValidate'
    BY <1>2, <1>7 DEF MarkersIInv, RowsValidate, Violations, Filed, FileOf, Registered
  <1>10. ASSUME NEW k \in Procs, k # i
         PROVE  Row(k)' = Row(k) /\ cmd'[k].at = cmd[k].at
    BY <1>1, <1>10 DEF Row
  <1>11. Traces'
    <2>1. /\ IsFiniteSet(StuckDetails) /\ IsFiniteSet(StuckRows)
          /\ faults \in Nat /\ faults' \in Nat
      <3>1. Files
        BY DEF MarkersIInv
      <3>2. IsFiniteSet(StuckDetails) /\ IsFiniteSet(StuckRows)
        BY <3>1, FewRows
      <3>3. faults \in Nat /\ faults' \in Nat
        BY <3>1, MarkerAssumption DEF Files
      <3>4. QED
        BY <3>2, <3>3
    <2>2. StuckDetails' \subseteq StuckDetails \cup {Row(i)}
      BY <1>2, <1>7, <1>10 DEF StuckDetails, FileOf
    <2>3. cmd[i].at # "row" => StuckDetails' \subseteq StuckDetails
      BY <1>2, <1>7, <1>10 DEF StuckDetails, FileOf
    <2>4. StuckRows' \subseteq StuckRows \cup {Row(i)}
      BY <1>7, <1>10 DEF StuckRows, IdOf
    <2>5. cmd[i].at # "tell_created" => StuckRows' \subseteq StuckRows
      BY <1>7, <1>10 DEF StuckRows, IdOf
    <2>6. TellsOf(i) => StuckRows' \subseteq StuckRows
      BY <1>7, <1>10 DEF StuckRows, IdOf, TellsOf
    <2>7. headed =>
             /\ \/ StuckDetails' \subseteq StuckDetails /\ faults <= faults'
                \/ StuckDetails' \subseteq StuckDetails \cup {Row(i)} /\ faults' = faults + 1
             /\ \/ StuckRows' \subseteq StuckRows /\ faults <= faults'
                \/ StuckRows' \subseteq StuckRows \cup {Row(i)} /\ faults' = faults + 1
      BY <2>2, <2>3, <2>4, <2>5, <2>6
    <2> HIDE DEF StuckDetails, StuckRows
    <2>8. Traces
      BY DEF MarkersIInv
    <2>9. QED
      BY <1>2, <2>1, <2>7, <2>8, TracesGrow
  <1>12. QED
    BY <1>1, <1>3, <1>6, <1>8, <1>9, <1>11 DEF MarkersIInv

LEMMA IdleOnTrack ==
  ASSUME NEW i \in Procs, cmd'[i].at = "idle"
  PROVE  OnTrack(i)'
  BY DEF OnTrack, Asking, Holding, Creating, ClosingOne, Registering, ListSteps, RegistrySteps

(* A command that ends.                                                    *)
LEMMA EndsOne ==
  ASSUME MarkersIInv, NEW i \in Procs, Leave(i),
         UNCHANGED pages, told \subseteq told',
         faults' \in 0..MaxFaults, faults <= faults',
         cmd[i].at = "row" /\ headed => faults' = faults + 1,
         cmd[i].at = "tell_created" =>
           faults' = faults + 1 \/ TellsOf(i)
  PROVE  MarkersIInv'
  <1>1. IsJob(Idle) /\ cmd' = [cmd EXCEPT ![i] = Idle]
    BY IdleIs DEF Leave
  <1>2. locks \in [{"list", "registry"} -> Procs \cup {Nobody}] /\ Release(i)
    BY DEF MarkersIInv, Files, Leave
  <1>3. cmd'[i].at = "idle"
    BY <1>1, IdleIs, JobIs DEF MarkersIInv
  <1>4. OnTrack(i)'
    BY <1>3, IdleOnTrack
  <1>5. left' \in 0..MaxCommands
    BY DEF MarkersIInv, Files, Leave
  <1>6. QED
    BY <1>1, <1>2, <1>4, <1>5, ReleaseIs, MovesOn

LEMMA FaultsIs ==
  ASSUME MarkersIInv
  PROVE  /\ faults \in Nat /\ faults \in 0..MaxFaults
         /\ Fault => faults' = faults + 1 /\ faults' \in 0..MaxFaults /\ faults <= faults'
  BY MarkerAssumption DEF MarkersIInv, Files, Fault

(* A command that has held no trace back and ends, with or without a word. *)
LEMMA EndsClean ==
  ASSUME MarkersIInv, NEW i \in Procs, Done(i), UNCHANGED pages, told \subseteq told',
         ~(cmd[i].at = "row" /\ headed),
         cmd[i].at = "tell_created" => TellsOf(i)
  PROVE  MarkersIInv'
  <1>1. Leave(i) /\ faults' = faults
    BY DEF Done
  <1>2. faults \in Nat /\ faults \in 0..MaxFaults
    BY FaultsIs
  <1>3. faults' \in 0..MaxFaults /\ faults <= faults'
    BY <1>1, <1>2
  <1>4. QED
    BY <1>1, <1>3, EndsOne

LEMMA EndsInFault ==
  ASSUME MarkersIInv, NEW i \in Procs, Fails(i), UNCHANGED markers
  PROVE  MarkersIInv'
  <1>1. Leave(i) /\ Fault
    BY DEF Fails
  <1>2. faults' = faults + 1 /\ faults' \in 0..MaxFaults /\ faults <= faults'
    BY <1>1, FaultsIs
  <1>3. UNCHANGED pages /\ told \subseteq told'
    BY DEF markers
  <1>4. QED
    BY <1>1, <1>2, <1>3, EndsOne

(* What the commands that write no file of the markers do.                 *)
LEMMA SomeEnd ==
  ASSUME MarkersIInv, NEW i \in Procs,
         \/ TellsRefused(i) \/ SchemaRefuses(i) \/ NoHeadings(i) \/ TellsCreated(i)
         \/ ClosedMeanwhile(i) \/ TellsClosed(i) \/ RegisteredMeanwhile(i)
         \/ TellsRegistered(i) \/ MarkerWriteFails(i) \/ Killed(i)
  PROVE  MarkersIInv'
  <1>1. CASE MarkerWriteFails(i) \/ Killed(i)
    BY <1>1, EndsInFault DEF MarkerWriteFails, Killed
  <1>2. CASE TellsCreated(i)
    <2>1. /\ cmd[i].at = "tell_created" /\ Done(i)
          /\ UNCHANGED pages /\ told' = told \cup {Created(IdOf(Row(i)))}
      BY <1>2 DEF TellsCreated, Tells, At
    <2>2. TellsOf(i) /\ told \subseteq told'
      BY <2>1 DEF TellsOf
    <2>3. QED
      BY <2>1, <2>2, EndsClean
  <1>3. CASE TellsRefused(i) \/ TellsClosed(i) \/ TellsRegistered(i)
    <2>1. /\ cmd[i].at \notin {"row", "tell_created"} /\ Done(i)
          /\ UNCHANGED pages /\ told \subseteq told'
      BY <1>3 DEF TellsRefused, TellsClosed, TellsRegistered, Tells, At
    <2>2. QED
      BY <2>1, EndsClean
  <1>4. CASE SchemaRefuses(i) \/ ClosedMeanwhile(i) \/ RegisteredMeanwhile(i)
    <2>1. /\ cmd[i].at \notin {"row", "tell_created"} /\ Done(i)
          /\ UNCHANGED pages /\ told \subseteq told'
      BY <1>4 DEF SchemaRefuses, ClosedMeanwhile, RegisteredMeanwhile, At, markers
    <2>2. QED
      BY <2>1, EndsClean
  <1>5. CASE NoHeadings(i)
    <2>1. /\ cmd[i].at = "row" /\ ~headed /\ Done(i)
          /\ UNCHANGED pages /\ told \subseteq told'
      BY <1>5 DEF NoHeadings, At, markers
    <2>2. QED
      BY <2>1, EndsClean
  <1>6. QED
    BY <1>1, <1>2, <1>3, <1>4, <1>5

(* Files that stay, locks that are granted or stay.                        *)
LEMMA LocksAre ==
  ASSUME MarkersIInv
  PROVE  /\ Commands /\ Files /\ AtWork /\ left \in 0..MaxCommands /\ faults \in 0..MaxFaults
         /\ locks \in [{"list", "registry"} -> Procs \cup {Nobody}]
         /\ faults \in Nat /\ left \in Nat
  BY MarkerAssumption DEF MarkersIInv, Files

(* A command moves on, or starts, without a fault.                         *)
LEMMA GoesOn ==
  ASSUME MarkersIInv, NEW i \in Procs, NEW job, IsJob(job), cmd' = [cmd EXCEPT ![i] = job],
         UNCHANGED markers, left' \in 0..MaxCommands, faults' = faults,
         \/ UNCHANGED locks
         \/ \E f \in {"list", "registry"} : Granted(f, i),
         cmd[i].at \notin {"row", "tell_created"}, OnTrack(i)'
  PROVE  MarkersIInv'
  <1>1. locks \in [{"list", "registry"} -> Procs \cup {Nobody}]
    BY LocksAre
  <1>2. /\ locks' \in [{"list", "registry"} -> Procs \cup {Nobody}]
        /\ \A f \in {"list", "registry"}, k \in Procs \ {i} : locks[f] = k => locks'[f] = k
    <2>1. CASE UNCHANGED locks
      BY <1>1, <2>1
    <2>2. CASE \E f \in {"list", "registry"} : Granted(f, i)
      <3>1. PICK f \in {"list", "registry"} : Granted(f, i)
        BY <2>2
      <3>2. QED
        BY <1>1, <3>1, GrantedIs
    <2>3. QED
      BY <2>1, <2>2
  <1>3. UNCHANGED pages /\ told \subseteq told'
    BY DEF markers
  <1>4. faults' \in 0..MaxFaults /\ faults <= faults'
    <2>1. faults \in Nat /\ faults \in 0..MaxFaults
      BY LocksAre
    <2>2. QED
      BY <2>1
  <1>5. QED
    BY <1>2, <1>3, <1>4, MovesOn

(* The places where nothing is held and nothing was found out.             *)
LEMMA OutsideOnTrack ==
  ASSUME NEW i \in Procs,
         \/ cmd'[i].at \in {"idle", "refused", "close"}
         \/ cmd'[i].at = "register" /\ cmd'[i].of \in PrefixIds
         \/ cmd'[i].at = "prefix" /\ cmd'[i].of \in Requests /\ Refusal(cmd'[i].of) = "none"
  PROVE  OnTrack(i)'
  BY DEF OnTrack, Asking, Holding, Creating, ClosingOne, Registering, ListSteps, RegistrySteps

LEMMA StartsOne ==
  ASSUME MarkersIInv, NEW i \in Procs, NEW c, IsJob(c), Starts(i, c), UNCHANGED markers,
         \/ c.at \in {"idle", "refused", "close"}
         \/ c.at = "register" /\ c.of \in PrefixIds
         \/ c.at = "prefix" /\ c.of \in Requests /\ Refusal(c.of) = "none"
  PROVE  MarkersIInv'
  <1>1. /\ cmd[i].at = "idle" /\ left > 0 /\ left' = left - 1
        /\ cmd' = [cmd EXCEPT ![i] = c] /\ faults' = faults /\ locks' = locks
    BY DEF Starts, At
  <1>2. cmd'[i] = c
    BY <1>1, JobIs, LocksAre
  <1>3. OnTrack(i)'
    BY <1>2, OutsideOnTrack
  <1>4. left' \in 0..MaxCommands
    <2>1. left \in 0..MaxCommands /\ MaxCommands \in Nat
      BY LocksAre, MarkerAssumption
    <2>2. QED
      BY <1>1, <2>1
  <1>5. QED
    BY <1>1, <1>3, <1>4, GoesOn

LEMMA CreateIsStarted ==
  ASSUME MarkersIInv, NEW i \in Procs, NEW r \in Requests, CreateStarts(i, r)
  PROVE  MarkersIInv'
  <1>1. /\ IsJob(Asked(r)) /\ Asked(r).of = r
        /\ Asked(r).at = IF Refusal(r) = "none" THEN "prefix" ELSE "refused"
    BY IdleIs DEF Asked
  <1>2. Starts(i, Asked(r)) /\ UNCHANGED markers
    BY DEF CreateStarts
  <1> DEFINE c == Asked(r)
  <1>3. c.at = "refused" \/ (c.at = "prefix" /\ c.of \in Requests /\ Refusal(c.of) = "none")
    BY <1>1
  <1> HIDE DEF c
  <1>4. QED
    BY <1>1, <1>2, <1>3, StartsOne DEF c

LEMMA MarkersAreStarted ==
  ASSUME MarkersIInv, NEW i \in Procs, MarkerStarts(i)
  PROVE  MarkersIInv'
  <1>1. ASSUME NEW r \in Requests, CreateStarts(i, r)
        PROVE  MarkersIInv'
    BY <1>1, CreateIsStarted
  <1>2. ASSUME NEW id, CloseStarts(i, id)
        PROVE  MarkersIInv'
    <2>1. CASE IsActive(id)
      <3>1. Starts(i, Asks("close", id)) /\ UNCHANGED markers
        BY <1>2, <2>1 DEF CloseStarts
      <3>2. QED
        BY <3>1, IdleIs, StartsOne
    <2>2. CASE ~IsActive(id)
      <3>1. Starts(i, Idle) /\ UNCHANGED markers
        BY <1>2, <2>2 DEF CloseStarts
      <3>2. QED
        BY <3>1, IdleIs, StartsOne
    <2>3. QED
      BY <2>1, <2>2
  <1>3. ASSUME NEW p \in PrefixIds, RegisterStarts(i, p)
        PROVE  MarkersIInv'
    <2>1. CASE ~Registered(p)
      <3>1. Starts(i, Asks("register", p)) /\ UNCHANGED markers
        BY <1>3, <2>1 DEF RegisterStarts
      <3>2. QED
        BY <3>1, IdleIs, StartsOne
    <2>2. CASE Registered(p)
      <3>1. Starts(i, Idle) /\ UNCHANGED markers
        BY <1>3, <2>2 DEF RegisterStarts
      <3>2. QED
        BY <3>1, IdleIs, StartsOne
    <2>3. QED
      BY <2>1, <2>2
  <1>4. QED
    BY <1>1, <1>2, <1>3 DEF MarkerStarts

(* A command that only changes its place.                                  *)
LEMMA PlaceChanges ==
  ASSUME MarkersIInv, NEW i \in Procs, NEW at, Goto(i, at),
         UNCHANGED markers, UNCHANGED bounds,
         \/ UNCHANGED locks
         \/ \E f \in {"list", "registry"} : Granted(f, i),
         cmd[i].at \notin {"row", "tell_created"}, OnTrack(i)'
  PROVE  MarkersIInv'
  <1> DEFINE job == cmd'[i]
  <1>1. Commands' /\ Commands /\ \A k \in Procs : k # i => cmd'[k] = cmd[k]
    BY GotoIs, LocksAre
  <1>2. IsJob(job)
    BY <1>1 DEF Commands
  <1>3. cmd' = [cmd EXCEPT ![i] = job]
    BY <1>1 DEF Commands
  <1>4. left' \in 0..MaxCommands /\ faults' = faults
    BY LocksAre DEF bounds
  <1> HIDE DEF job
  <1>5. QED
    BY <1>2, <1>3, <1>4, GoesOn

LEMMA PrefixOk ==
  ASSUME MarkersIInv, NEW i \in Procs, PrefixIsChecked(i)
  PROVE  MarkersIInv'
  <1> DEFINE p == cmd[i].of.prefix
             at == IF MayBeUsed(p) THEN "create" ELSE "refused"
  <1>1. cmd[i].at = "prefix" /\ Goto(i, at) /\ UNCHANGED <<locks, markers, bounds>>
    BY DEF PrefixIsChecked, At
  <1>2. /\ cmd'[i].at = at /\ cmd'[i].of = cmd[i].of
    BY <1>1, GotoIs, LocksAre
  <1>3. cmd[i].of \in Requests /\ Refusal(cmd[i].of) = "none"
    BY <1>1, LocksAre DEF AtWork, OnTrack, Asking
  <1>4. registry' = registry
    BY <1>1 DEF markers, pages
  <1>5. OnTrack(i)'
    <2>1. CASE MayBeUsed(p)
      <3>1. Registered(p)'
        BY <1>2, <1>4, <2>1 DEF MayBeUsed, Registered
      <3>2. cmd'[i].at = "create" /\ cmd'[i].of.prefix = p
        BY <1>2, <2>1
      <3>3. QED
        BY <1>2, <1>3, <3>1, <3>2 DEF OnTrack, Asking, Holding, Creating, ClosingOne, Registering,
             ListSteps, RegistrySteps
    <2>2. CASE ~MayBeUsed(p)
      BY <1>2, <2>2, OutsideOnTrack
    <2>3. QED
      BY <2>1, <2>2
  <1> HIDE DEF at
  <1>6. QED
    BY <1>1, <1>5, PlaceChanges

(* The number create takes is greater than all of its prefix.              *)
LEMMA NextIsNew ==
  ASSUME Bounded, Rows \subseteq Entry, NEW p
  PROVE  NextNumber(p) \in Nat /\ \A row \in Rows : row.prefix = p => row.n < NextNumber(p)
  <1> DEFINE T == {0} \cup NumbersOf(p)
  <1>1. PICK b \in Nat : \A row \in Rows : row.n <= b
    BY DEF Bounded
  <1>2. \A row \in Rows : row.n \in Nat
    BY DEF Entry
  <1>3. T \subseteq Nat /\ T # {} /\ \A x \in T : x <= b
    BY <1>1, <1>2 DEF NumbersOf
  <1>4. \A row \in Rows : row.prefix = p => row.n \in T
    BY DEF NumbersOf
  <1> HIDE DEF T
  <1>5. Max(T) \in T /\ \A x \in T : x <= Max(T)
    BY <1>3, MaxOfThem
  <1>6. NextNumber(p) = Max(T) + 1
    BY DEF NextNumber, T
  <1>7. Max(T) \in Nat
    BY <1>3, <1>5
  <1>8. ASSUME NEW row \in Rows, row.prefix = p
        PROVE  row.n < NextNumber(p)
    <2>1. row.n <= Max(T) /\ row.n \in Nat
      BY <1>2, <1>4, <1>5, <1>8
    <2>2. QED
      BY <1>6, <1>7, <2>1
  <1>9. QED
    BY <1>6, <1>7, <1>8

LEMMA ListIsLocked ==
  ASSUME MarkersIInv, NEW i \in Procs, CreateLocks(i)
  PROVE  MarkersIInv'
  <1> DEFINE next == NextNumber(cmd[i].of.prefix)
             job == [Asks("detail", cmd[i].of) EXCEPT !.n = next]
  <1>1. /\ cmd[i].at = "create" /\ Granted("list", i) /\ UNCHANGED markers /\ UNCHANGED bounds
        /\ cmd' = [cmd EXCEPT ![i] = job]
    BY DEF CreateLocks, At
  <1>2. Commands /\ IsJob(cmd[i]) /\ OnTrack(i)
    BY LocksAre DEF Commands, AtWork
  <1>3. next \in Nat /\ \A row \in Rows : row.prefix = cmd[i].of.prefix => row.n < next
    BY LocksAre, FewRows, NextIsNew DEF MarkersIInv
  <1> HIDE DEF next
  <1>4. job = [at |-> "detail", of |-> cmd[i].of, n |-> next, page |-> Nothing]
    BY DEF Asks
  <1> HIDE DEF job
  <1>5. IsJob(job) /\ job.at = "detail" /\ job.of = cmd[i].of /\ job.n = next
    BY <1>4 DEF IsJob
  <1>6. cmd'[i] = job
    BY <1>1, <1>2, <1>5, JobIs
  <1>7. cmd'[i].at = "detail" /\ cmd'[i].of = cmd[i].of /\ cmd'[i].n = next
    BY <1>5, <1>6
  <1>8. locks'["list"] = i
    BY <1>1, LocksAre, GrantedIs
  <1>9. list' = list /\ registry' = registry
    BY <1>1 DEF markers, pages
  <1>10. Rows' = Rows /\ \A p : Registered(p)' = Registered(p)
    BY <1>9 DEF Rows, Registered
  <1>11. Asking(i)'
    BY <1>1, <1>2, <1>7 DEF OnTrack, Asking
  <1>12. Holding(i)'
    BY <1>7, <1>8 DEF Holding, RegistrySteps
  <1>13. Creating(i)'
    <2>1. Registered(cmd[i].of.prefix)
      BY <1>1, <1>2 DEF OnTrack, Creating
    <2>2. QED
      BY <1>3, <1>7, <1>10, <2>1 DEF Creating
  <1>14. ClosingOne(i)' /\ Registering(i)'
    BY <1>7 DEF ClosingOne, Registering
  <1>15. OnTrack(i)'
    BY <1>11, <1>12, <1>13, <1>14 DEF OnTrack
  <1>16. left' \in 0..MaxCommands /\ faults' = faults
    BY <1>1, LocksAre DEF bounds
  <1>17. QED
    BY <1>1, <1>5, <1>15, <1>16, GoesOn

LEMMA CloseIsLocked ==
  ASSUME MarkersIInv, NEW i \in Procs, CloseLocks(i)
  PROVE  MarkersIInv'
  <1> DEFINE job == [Asks("move", cmd[i].of) EXCEPT !.page = list]
  <1>1. /\ cmd[i].at = "close" /\ IsActive(cmd[i].of) /\ Granted("list", i)
        /\ UNCHANGED markers /\ UNCHANGED bounds
        /\ cmd' = [cmd EXCEPT ![i] = job]
    BY DEF CloseLocks, At, StillActive
  <1>2. Commands /\ IsJob(cmd[i]) /\ OnTrack(i)
    BY LocksAre DEF Commands, AtWork
  <1>3. job = [at |-> "move", of |-> cmd[i].of, n |-> 0, page |-> list]
    BY DEF Asks
  <1> HIDE DEF job
  <1>4. IsJob(job) /\ job.at = "move" /\ job.of = cmd[i].of /\ job.page = list
    BY <1>3 DEF IsJob
  <1>5. cmd'[i] = job
    BY <1>1, <1>2, <1>4, JobIs
  <1>7. cmd'[i].at = "move" /\ cmd'[i].of = cmd[i].of /\ cmd'[i].page = list
    BY <1>4, <1>5
  <1>8. locks'["list"] = i
    BY <1>1, LocksAre, GrantedIs
  <1>9. list' = list
    BY <1>1 DEF markers, pages
  <1>10. \E k \in DOMAIN list.active : IdOf(list.active[k]) = cmd[i].of
    BY <1>1 DEF IsActive, ToSet
  <1>11. Asking(i)' /\ Holding(i)' /\ Creating(i)' /\ Registering(i)'
    BY <1>7, <1>8 DEF Asking, Holding, Creating, Registering, RegistrySteps
  <1>12. ClosingOne(i)'
    BY <1>7, <1>9, <1>10 DEF ClosingOne, IdOf
  <1>13. OnTrack(i)'
    BY <1>11, <1>12 DEF OnTrack
  <1>14. left' \in 0..MaxCommands /\ faults' = faults
    BY <1>1, LocksAre DEF bounds
  <1>15. QED
    BY <1>1, <1>4, <1>13, <1>14, GoesOn

LEMMA RegistryIsLocked ==
  ASSUME MarkersIInv, NEW i \in Procs, RegisterLocks(i)
  PROVE  MarkersIInv'
  <1>1. /\ cmd[i].at = "register" /\ ~Registered(cmd[i].of) /\ Granted("registry", i)
        /\ UNCHANGED markers /\ UNCHANGED bounds /\ Goto(i, "add")
    BY DEF RegisterLocks, At
  <1>2. cmd'[i].at = "add" /\ cmd'[i].of = cmd[i].of
    BY <1>1, GotoIs, LocksAre
  <1>3. locks'["registry"] = i
    BY <1>1, LocksAre, GrantedIs
  <1>4. registry' = registry
    BY <1>1 DEF markers, pages
  <1>5. cmd[i].of \in PrefixIds
    BY <1>1, LocksAre DEF AtWork, OnTrack, Asking
  <1>6. ~Registered(cmd[i].of)'
    BY <1>1, <1>2, <1>4 DEF Registered
  <1>7. OnTrack(i)'
    BY <1>2, <1>3, <1>5, <1>6 DEF OnTrack, Asking, Holding, Creating, ClosingOne, Registering,
       ListSteps
  <1>8. QED
    BY <1>1, <1>7, PlaceChanges

(* One command at a time works on the list, and one on the registry.       *)
LEMMA OneAtATime ==
  ASSUME MarkersIInv, NEW i \in Procs, NEW k \in Procs, k # i
  PROVE  /\ cmd[i].at \in ListSteps => cmd[k].at \notin ListSteps
         /\ cmd[i].at \in RegistrySteps => cmd[k].at \notin RegistrySteps
  BY LocksAre DEF AtWork, OnTrack, Holding

(* What a create on its way has: its row is a proper one, with a number    *)
(* that no row of its prefix has.                                          *)
LEMMA RowIsNew ==
  ASSUME MarkersIInv, NEW i \in Procs, cmd[i].at \in {"detail", "row"}
  PROVE  /\ Row(i) \in Entry /\ Row(i).n \in Nat
         /\ \A row \in Rows : IdOf(row) # IdOf(Row(i)) /\ FileOf(row) # FileOf(Row(i))
         /\ Registered(Row(i).prefix) /\ locks["list"] = i
  <1>1. OnTrack(i)
    BY LocksAre DEF AtWork
  <1>2. cmd[i].of \in Request /\ Refusal(cmd[i].of) = "none" /\ cmd[i].n \in Nat
    BY <1>1, MarkerAssumption DEF OnTrack, Asking, Creating
  <1>3. cmd[i].of.trigger \in {"edit", "date", "condition"}
    BY <1>2 DEF Refusal, Request
  <1>4. Target[cmd[i].of.trigger] \in {"closure_trigger", "date", "condition"}
    BY <1>3 DEF Target
  <1>5. /\ Row(i).prefix = cmd[i].of.prefix /\ Row(i).n = cmd[i].n
        /\ Row(i) \in Entry
    BY <1>2, <1>4 DEF Row, Request, Entry
  <1>6. \A row \in Rows : row.n \in Nat /\ (row.prefix = Row(i).prefix => row.n < Row(i).n)
    BY <1>1, <1>5, LocksAre, FewRows DEF OnTrack, Creating, Entry
  <1>7. \A row \in Rows : IdOf(row) # IdOf(Row(i)) /\ FileOf(row) # FileOf(Row(i))
    BY <1>2, <1>5, <1>6 DEF IdOf, FileOf
  <1>8. Registered(Row(i).prefix) /\ locks["list"] = i
    BY <1>1, <1>5 DEF OnTrack, Creating, Holding, ListSteps
  <1>9. QED
    BY <1>2, <1>5, <1>7, <1>8

LEMMA DetailIsWritten ==
  ASSUME MarkersIInv, NEW i \in Procs, WritesDetail(i)
  PROVE  MarkersIInv'
  <1>1. /\ cmd[i].at = "detail" /\ details' = Replaced(Row(i)) /\ Goto(i, "row")
        /\ locks' = locks /\ list' = list /\ headed' = headed /\ registry' = registry
        /\ told' = told /\ handed' = handed /\ left' = left /\ faults' = faults
    BY DEF WritesDetail, At, bounds
  <1>2. /\ Commands' /\ cmd'[i].at = "row" /\ cmd'[i].of = cmd[i].of /\ cmd'[i].n = cmd[i].n
        /\ \A k \in Procs : k # i => cmd'[k] = cmd[k]
    BY <1>1, GotoIs, LocksAre
  <1>3. /\ Commands /\ Files /\ AtWork /\ OnTrack(i)
        /\ NumbersAreBurned /\ Bounded /\ RowsAreKept /\ RowsValidate /\ Traces
    BY DEF MarkersIInv, AtWork
  <1>4. /\ Row(i) \in Entry /\ Registered(Row(i).prefix)
        /\ \A row \in Rows : FileOf(row) # FileOf(Row(i))
    BY <1>1, RowIsNew
  <1>5. Row(i)' = Row(i) /\ \A k \in Procs : k # i => Row(k)' = Row(k)
    BY <1>2 DEF Row
  <1>6. Rows' = Rows /\ \A p : Registered(p)' = Registered(p)
    BY <1>1 DEF Rows, Registered
  <1>7. details' = {d \in details : FileOf(d) # FileOf(Row(i))} \cup {Row(i)}
    BY <1>1 DEF Replaced, Filed
  <1>8. Files'
    <2>1. IsFiniteSet(details')
      <3>1. IsFiniteSet(details) /\ details' \subseteq details \cup {Row(i)}
        BY <1>3, <1>7 DEF Files
      <3>2. QED
        BY <3>1, OneMore
    <2>2. details' \subseteq Entry
      BY <1>3, <1>4, <1>7 DEF Files
    <2>3. QED
      BY <1>1, <1>3, <2>1, <2>2 DEF Files
  <1>9. ASSUME NEW k \in Procs, k # i
        PROVE  OnTrack(k)'
    <2>1. OnTrack(k) /\ cmd'[k] = cmd[k] /\ cmd[k].at \notin ListSteps
      BY <1>1, <1>2, <1>3, <1>9, OneAtATime DEF AtWork, ListSteps
    <2>2. cmd[k].at \in RegistrySteps => locks'["registry"] = k
      BY <1>1, <2>1 DEF OnTrack, Holding
    <2>3. QED
      BY <1>1, <1>6, <2>1, <2>2, StaysOnTrack
  <1>10. OnTrack(i)'
    <2>1. Asking(i)'
      BY <1>1, <1>2, <1>3 DEF OnTrack, Asking
    <2>2. Holding(i)'
      BY <1>1, <1>2, <1>3 DEF OnTrack, Holding, ListSteps, RegistrySteps
    <2>3. {d \in details' : FileOf(d) = FileOf(Row(i))} = {Row(i)}
      BY <1>7
    <2>4. Filed(Row(i))' = {Row(i)'}
      BY <1>5, <2>3 DEF Filed, FileOf
    <2>5. Creating(i)'
      BY <1>1, <1>2, <1>3, <1>6, <2>4 DEF OnTrack, Creating
    <2>6. ClosingOne(i)' /\ Registering(i)'
      BY <1>2 DEF ClosingOne, Registering
    <2>7. QED
      BY <2>1, <2>2, <2>5, <2>6 DEF OnTrack
  <1>11. NumbersAreBurned' /\ Bounded' /\ RowsAreKept'
    <2>1. NumbersAreBurned'
      BY <1>1, <1>3 DEF NumbersAreBurned, IdOf
    <2>2. Bounded'
      BY <1>3, <1>6 DEF Bounded
    <2>3. RowsAreKept'
      BY <1>1, <1>3, <1>6 DEF RowsAreKept, IdOf
    <2>4. QED
      BY <2>1, <2>2, <2>3
  <1>12. RowsValidate'
    <2>1. ASSUME NEW row \in Rows
          PROVE  Violations(row)' = Violations(row)
      <3>1. {d \in details' : FileOf(d) = FileOf(row)} = {d \in details : FileOf(d) = FileOf(row)}
        BY <1>4, <1>7
      <3>2. Filed(row)' = Filed(row)
        BY <3>1 DEF Filed, FileOf
      <3>3. QED
        BY <1>6, <3>2 DEF Violations
    <2>2. QED
      BY <1>3, <1>6, <2>1 DEF RowsValidate
  <1>13. Traces'
    <2>1. StuckDetails' \subseteq StuckDetails
      BY <1>1, <1>2, <1>5, <1>6, <1>7 DEF StuckDetails, FileOf
    <2>2. StuckRows' \subseteq StuckRows
      BY <1>1, <1>2, <1>5, <1>6 DEF StuckRows, IdOf
    <2>3. IsFiniteSet(StuckDetails) /\ IsFiniteSet(StuckRows) /\ faults \in Nat /\ faults' \in Nat
      BY <1>1, <1>3, FewRows, LocksAre
    <2> HIDE DEF StuckDetails, StuckRows
    <2>4. faults <= faults'
      BY <1>1, <2>3
    <2>5. QED
      BY <1>1, <1>3, <2>1, <2>2, <2>3, <2>4, TracesGrow
  <1>14. QED
    BY <1>2, <1>8, <1>9, <1>10, <1>11, <1>12, <1>13 DEF MarkersIInv, AtWork

LEMMA RowIsWritten ==
  ASSUME MarkersIInv, NEW i \in Procs, WritesRow(i)
  PROVE  MarkersIInv'
  <1>1. /\ cmd[i].at = "row" /\ headed /\ Goto(i, "tell_created")
        /\ list' = [list EXCEPT !.active = Append(@, Row(i))]
        /\ handed' = handed \cup {IdOf(Row(i))}
        /\ locks' = locks /\ headed' = headed /\ details' = details /\ registry' = registry
        /\ told' = told /\ left' = left /\ faults' = faults
    BY DEF WritesRow, At, bounds
  <1>2. /\ Commands' /\ cmd'[i].at = "tell_created" /\ cmd'[i].of = cmd[i].of
        /\ cmd'[i].n = cmd[i].n
        /\ \A k \in Procs : k # i => cmd'[k] = cmd[k]
    BY <1>1, GotoIs, LocksAre
  <1>3. /\ Commands /\ Files /\ AtWork /\ OnTrack(i)
        /\ NumbersAreBurned /\ Bounded /\ RowsAreKept /\ RowsValidate /\ Traces
    BY DEF MarkersIInv, AtWork
  <1>4. /\ Row(i) \in Entry /\ Registered(Row(i).prefix) /\ Row(i).n \in Nat
        /\ \A row \in Rows : IdOf(row) # IdOf(Row(i)) /\ FileOf(row) # FileOf(Row(i))
    BY <1>1, RowIsNew
  <1>5. Row(i)' = Row(i) /\ \A k \in Procs : k # i => Row(k)' = Row(k)
    BY <1>2 DEF Row
  <1>6. \A p : Registered(p)' = Registered(p)
    BY <1>1 DEF Registered
  <1>7. /\ list.active \in Seq(Entry) /\ list.closed \in Seq(Entry)
        /\ list = [active |-> list.active, closed |-> list.closed]
    BY <1>3 DEF Files
  <1>8. list'.active = Append(list.active, Row(i)) /\ list'.closed = list.closed
    BY <1>1, <1>7
  <1>9. list' = [active |-> list'.active, closed |-> list'.closed]
    BY <1>1, <1>7
  <1>10. Apart(list.active, list.closed) /\ RegisteredOnce
    BY <1>3, BurnedMeans
  <1>11. \A row \in ToSet(list.active) \cup ToSet(list.closed) : IdOf(row) # IdOf(Row(i))
    BY <1>4 DEF Rows
  <1>12. /\ Apart(Append(list.active, Row(i)), list.closed)
         /\ ToSet(Append(list.active, Row(i))) = ToSet(list.active) \cup {Row(i)}
    BY <1>4, <1>7, <1>10, <1>11, ApartWithOneMore
  <1>13. Rows' = Rows \cup {Row(i)}
    BY <1>8, <1>12 DEF Rows
  <1>14. Files'
    <2>1. list'.active \in Seq(Entry) /\ list'.closed \in Seq(Entry)
      BY <1>4, <1>7, <1>8, AppendedTo
    <2>2. QED
      BY <1>1, <1>3, <1>9, <2>1 DEF Files
  <1>15. NumbersAreBurned'
    <2>1. Apart(list.active, list.closed)'
      BY <1>8, <1>12 DEF Apart, IdOf
    <2>2. RegisteredOnce'
      BY <1>1, <1>10 DEF RegisteredOnce
    <2>3. QED
      BY <2>1, <2>2, ApartBurnsNext
  <1>16. Bounded'
    <2>1. PICK b \in Nat : \A row \in Rows : row.n <= b
      BY <1>3 DEF Bounded
    <2>2. \A row \in Rows : row.n \in Nat
      BY <1>3, FewRows DEF Entry
    <2>3. PICK c \in Nat : b <= c /\ Row(i).n <= c
      <3>1. CASE b <= Row(i).n
        BY <1>4, <3>1
      <3>2. CASE ~(b <= Row(i).n)
        BY <1>4, <3>2
      <3>3. QED
        BY <3>1, <3>2
    <2>4. \A row \in Rows' : row.n <= c
      BY <1>4, <1>13, <2>1, <2>2, <2>3
    <2>5. QED
      BY <2>4 DEF Bounded
  <1>17. RowsAreKept'
    <2>1. handed = {IdOf(row) : row \in Rows}
      BY <1>3 DEF RowsAreKept
    <2>2. handed' = {IdOf(row) : row \in Rows'}
      BY <1>1, <1>13, <2>1
    <2>3. QED
      BY <2>2 DEF RowsAreKept, IdOf
  <1>18. RowsValidate'
    <2>1. \A row : Filed(row)' = Filed(row)
      BY <1>1 DEF Filed, FileOf
    <2>2. ASSUME NEW row
          PROVE  Violations(row)' = Violations(row)
      BY <1>6, <2>1 DEF Violations
    <2>3. Filed(Row(i)) = {Row(i)}
      BY <1>1, <1>3 DEF OnTrack, Creating
    <2>4. Violations(Row(i)) = {}
      BY <1>4, <2>3 DEF Violations
    <2>5. \A row \in Rows' : Violations(row) = {}
      BY <1>3, <1>13, <2>4 DEF RowsValidate
    <2>6. QED
      BY <2>2, <2>5 DEF RowsValidate
  <1>19. ASSUME NEW k \in Procs, k # i
         PROVE  OnTrack(k)'
    <2>1. OnTrack(k) /\ cmd'[k] = cmd[k] /\ cmd[k].at \notin ListSteps
      BY <1>1, <1>2, <1>3, <1>19, OneAtATime DEF AtWork, ListSteps
    <2>2. cmd[k].at \in RegistrySteps => locks'["registry"] = k
      BY <1>1, <2>1 DEF OnTrack, Holding
    <2>3. QED
      BY <1>1, <1>6, <2>1, <2>2, StaysOnTrack
  <1>20. OnTrack(i)'
    <2>1. Asking(i)'
      BY <1>1, <1>2, <1>3 DEF OnTrack, Asking
    <2>2. Holding(i)'
      BY <1>1, <1>2, <1>3 DEF OnTrack, Holding, ListSteps, RegistrySteps
    <2>3. Creating(i)' /\ ClosingOne(i)' /\ Registering(i)'
      BY <1>2 DEF Creating, ClosingOne, Registering
    <2>4. QED
      BY <2>1, <2>2, <2>3 DEF OnTrack
  <1>21. Traces'
    <2>1. StuckDetails' \subseteq StuckDetails
      BY <1>1, <1>2, <1>5, <1>13 DEF StuckDetails, FileOf
    <2>2. StuckRows' \subseteq StuckRows
      BY <1>1, <1>2, <1>5, <1>13 DEF StuckRows, IdOf
    <2>3. IsFiniteSet(StuckDetails) /\ IsFiniteSet(StuckRows) /\ faults \in Nat /\ faults' \in Nat
      BY <1>1, <1>3, FewRows, LocksAre
    <2> HIDE DEF StuckDetails, StuckRows
    <2>4. faults <= faults'
      BY <1>1, <2>3
    <2>5. QED
      BY <1>1, <1>3, <2>1, <2>2, <2>3, <2>4, TracesGrow
  <1>22. QED
    BY <1>2, <1>14, <1>15, <1>16, <1>17, <1>18, <1>19, <1>20, <1>21 DEF MarkersIInv, AtWork


LEMMA RowIsMoved ==
  ASSUME MarkersIInv, NEW i \in Procs, MovesRow(i)
  PROVE  MarkersIInv' /\ IsPrefix(list.closed, list'.closed)
  <1> DEFINE here == {k \in DOMAIN list.active : IdOf(list.active[k]) = cmd[i].of}
             first == Min(here)
  <1>1. /\ Commands /\ Files /\ AtWork /\ OnTrack(i)
        /\ NumbersAreBurned /\ Bounded /\ RowsAreKept /\ RowsValidate /\ Traces
    BY DEF MarkersIInv, AtWork
  <1>2. cmd[i].at = "move"
    BY DEF MovesRow, At
  <1>3. cmd[i].page = list
    BY <1>1, <1>2 DEF OnTrack, ClosingOne
  <1>4. /\ here # {} /\ Goto(i, "tell_closed")
        /\ list' = [active |-> RemoveAt(list.active, first),
                    closed |-> Append(list.closed, list.active[first])]
        /\ locks' = locks /\ headed' = headed /\ details' = details /\ registry' = registry
        /\ told' = told /\ handed' = handed /\ left' = left /\ faults' = faults
    BY <1>3 DEF MovesRow, bounds
  <1>5. /\ list.active \in Seq(Entry) /\ list.closed \in Seq(Entry)
    BY <1>1 DEF Files
  <1>6. first \in DOMAIN list.active
    <2>1. here \subseteq DOMAIN list.active /\ DOMAIN list.active \subseteq Nat
      BY <1>5
    <2> HIDE DEF here
    <2>2. first \in here
      BY <1>4, <2>1, MinOfThem
    <2>3. QED
      BY <2>1, <2>2
  <1> HIDE DEF here, first
  <1>7. /\ Commands' /\ cmd'[i].at = "tell_closed" /\ cmd'[i].of = cmd[i].of
        /\ \A k \in Procs : k # i => cmd'[k] = cmd[k]
    BY <1>1, <1>4, GotoIs
  <1>8. Apart(list.active, list.closed) /\ RegisteredOnce
    BY <1>1, BurnedMeans
  <1>9. /\ Apart(list'.active, list'.closed)
        /\ list'.active \in Seq(Entry) /\ list'.closed \in Seq(Entry)
        /\ ToSet(list'.active) \cup ToSet(list'.closed)
             = ToSet(list.active) \cup ToSet(list.closed)
    <2>1. /\ list'.active = RemoveAt(list.active, first)
          /\ list'.closed = Append(list.closed, list.active[first])
      BY <1>4
    <2>2. QED
      BY <1>5, <1>6, <1>8, <2>1, ApartWhenMoved
  <1>10. Rows' = Rows /\ \A p : Registered(p)' = Registered(p)
    BY <1>4, <1>9 DEF Rows, Registered
  <1>11. Files'
    <2>1. list' = [active |-> list'.active, closed |-> list'.closed]
      BY <1>4
    <2>2. QED
      BY <1>1, <1>4, <1>9, <2>1 DEF Files
  <1>12. NumbersAreBurned'
    <2>1. Apart(list.active, list.closed)'
      BY <1>9 DEF Apart, IdOf
    <2>2. RegisteredOnce'
      BY <1>4, <1>8 DEF RegisteredOnce
    <2>3. QED
      BY <2>1, <2>2, ApartBurnsNext
  <1>13. Bounded' /\ RowsAreKept'
    BY <1>1, <1>4, <1>10 DEF Bounded, RowsAreKept, IdOf
  <1>14. RowsValidate'
    <2>1. \A row : Filed(row)' = Filed(row)
      BY <1>4 DEF Filed, FileOf
    <2>2. ASSUME NEW row
          PROVE  Violations(row)' = Violations(row)
      BY <1>10, <2>1 DEF Violations
    <2>3. QED
      BY <1>1, <1>10, <2>2 DEF RowsValidate
  <1>15. ASSUME NEW k \in Procs, k # i
         PROVE  OnTrack(k)'
    <2>1. OnTrack(k) /\ cmd'[k] = cmd[k] /\ cmd[k].at \notin ListSteps
      BY <1>1, <1>2, <1>7, <1>15, OneAtATime DEF AtWork, ListSteps
    <2>2. cmd[k].at \in RegistrySteps => locks'["registry"] = k
      BY <1>4, <2>1 DEF OnTrack, Holding
    <2>3. QED
      BY <1>4, <1>10, <2>1, <2>2, StaysOnTrack
  <1>16. OnTrack(i)'
    <2>1. Holding(i)'
      BY <1>1, <1>2, <1>4, <1>7 DEF OnTrack, Holding, ListSteps, RegistrySteps
    <2>2. Asking(i)' /\ Creating(i)' /\ ClosingOne(i)' /\ Registering(i)'
      BY <1>7 DEF Asking, Creating, ClosingOne, Registering
    <2>3. QED
      BY <2>1, <2>2 DEF OnTrack
  <1>17. Traces'
    <2>1. \A k \in Procs : cmd'[k].at \in {"row", "tell_created"} =>
            cmd[k] = cmd'[k] /\ Row(k)' = Row(k)
      BY <1>7 DEF Row
    <2>2. \A k \in Procs : cmd[k].at \in {"row", "tell_created"} =>
            cmd[k] = cmd'[k] /\ Row(k)' = Row(k)
      BY <1>2, <1>7 DEF Row
    <2>3. StuckDetails' \subseteq StuckDetails
      BY <1>4, <1>10, <2>2 DEF StuckDetails, FileOf
    <2>4. StuckRows' \subseteq StuckRows
      BY <1>4, <1>10, <2>2 DEF StuckRows, IdOf
    <2>5. IsFiniteSet(StuckDetails) /\ IsFiniteSet(StuckRows) /\ faults \in Nat /\ faults' \in Nat
      BY <1>1, <1>4, FewRows, LocksAre
    <2> HIDE DEF StuckDetails, StuckRows
    <2>6. faults <= faults'
      BY <1>4, <2>5
    <2>7. QED
      BY <1>1, <1>4, <2>3, <2>4, <2>5, <2>6, TracesGrow
  <1>18. MarkersIInv'
    BY <1>7, <1>11, <1>12, <1>13, <1>14, <1>15, <1>16, <1>17 DEF MarkersIInv, AtWork
  <1>19. IsPrefix(list.closed, list'.closed)
    <2>1. list'.closed = Append(list.closed, list.active[first])
      BY <1>4
    <2>2. QED
      BY <1>5, <2>1, PrefixOfMore
  <1>20. QED
    BY <1>18, <1>19

(* The registry is what changes: no prefix is forgotten, none is there     *)
(* twice.                                                                  *)
LEMMA RegistryChanges ==
  ASSUME MarkersIInv,
         UNCHANGED <<list, headed, details, told, handed>>,
         registry' \in Seq([prefix : PrefixIds, retired : BOOLEAN]), RegisteredOnce',
         \A p : Registered(p) => Registered(p)',
         Commands', left' \in 0..MaxCommands, faults' = faults, locks' = locks,
         \A k \in Procs : cmd'[k] # cmd[k] => cmd[k].at = "add" /\ cmd'[k].at = "tell_registered",
         \A k \in Procs : OnTrack(k)'
  PROVE  MarkersIInv'
  <1>1. /\ Commands /\ Files /\ AtWork
        /\ NumbersAreBurned /\ Bounded /\ RowsAreKept /\ RowsValidate /\ Traces
    BY DEF MarkersIInv
  <1>2. Rows' = Rows
    BY DEF Rows
  <1>3. Files'
    BY <1>1 DEF Files
  <1>4. NumbersAreBurned'
    <2>1. Apart(list.active, list.closed)
      BY <1>1, BurnedMeans
    <2>2. Apart(list.active, list.closed)'
      BY <2>1 DEF Apart, IdOf
    <2>3. QED
      BY <2>2, ApartBurnsNext
  <1>5. Bounded' /\ RowsAreKept'
    BY <1>1, <1>2 DEF Bounded, RowsAreKept, IdOf
  <1>6. RowsValidate'
    <2>1. \A row : Filed(row)' = Filed(row)
      BY DEF Filed, FileOf
    <2>2. ASSUME NEW row
          PROVE  Violations(row)' \subseteq Violations(row)
      BY <2>1 DEF Violations
    <2>3. QED
      BY <1>1, <1>2, <2>2 DEF RowsValidate
  <1>7. Traces'
    <2>1. \A k \in Procs : cmd[k].at \in {"row", "tell_created"} =>
            cmd[k] = cmd'[k] /\ Row(k)' = Row(k)
      BY DEF Row
    <2>2. StuckDetails' \subseteq StuckDetails
      BY <1>2, <2>1 DEF StuckDetails, FileOf
    <2>3. StuckRows' \subseteq StuckRows
      BY <1>2, <2>1 DEF StuckRows, IdOf
    <2>4. IsFiniteSet(StuckDetails) /\ IsFiniteSet(StuckRows) /\ faults \in Nat /\ faults' \in Nat
      BY <1>1, FewRows, LocksAre
    <2> HIDE DEF StuckDetails, StuckRows
    <2>5. faults <= faults'
      BY <2>4
    <2>6. QED
      BY <1>1, <2>2, <2>3, <2>4, <2>5, TracesGrow
  <1>8. QED
    BY <1>3, <1>4, <1>5, <1>6, <1>7 DEF MarkersIInv, AtWork

LEMMA PrefixIsAdded ==
  ASSUME MarkersIInv, NEW i \in Procs, AddsPrefix(i)
  PROVE  MarkersIInv'
  <1> DEFINE new == [prefix |-> cmd[i].of, retired |-> FALSE]
  <1>1. /\ cmd[i].at = "add" /\ Goto(i, "tell_registered")
        /\ registry' = Append(registry, new)
        /\ UNCHANGED <<list, headed, details, told, handed>>
        /\ locks' = locks /\ left' = left /\ faults' = faults
    BY DEF AddsPrefix, At, bounds
  <1>2. Commands /\ Files /\ AtWork /\ OnTrack(i) /\ NumbersAreBurned
    BY DEF MarkersIInv, AtWork
  <1>3. /\ Commands' /\ cmd'[i].at = "tell_registered"
        /\ \A k \in Procs : k # i => cmd'[k] = cmd[k]
    BY <1>1, <1>2, GotoIs
  <1>4. cmd[i].of \in PrefixIds /\ ~Registered(cmd[i].of)
    BY <1>1, <1>2 DEF OnTrack, Asking, Registering
  <1>5. /\ new \in [prefix : PrefixIds, retired : BOOLEAN] /\ new.prefix = cmd[i].of
        /\ registry \in Seq([prefix : PrefixIds, retired : BOOLEAN])
    BY <1>2, <1>4 DEF Files
  <1> HIDE DEF new
  <1>6. /\ registry' \in Seq([prefix : PrefixIds, retired : BOOLEAN])
        /\ Len(registry) \in Nat /\ DOMAIN registry = 1..Len(registry)
        /\ DOMAIN registry' = 1..(Len(registry) + 1)
        /\ (\A x \in 1..Len(registry) : registry'[x] = registry[x])
        /\ registry'[Len(registry) + 1] = new
    BY <1>1, <1>5, AppendedTo
  <1>7. \A x \in DOMAIN registry : registry[x].prefix # new.prefix
    BY <1>4, <1>5 DEF Registered, ToSet
  <1>8. RegisteredOnce'
    <2>1. RegisteredOnce
      BY <1>2, BurnedMeans
    <2>2. ASSUME NEW x \in DOMAIN registry'
          PROVE  \/ x \in DOMAIN registry /\ registry'[x] = registry[x]
                 \/ x = Len(registry) + 1 /\ registry'[x] = new
      BY <1>6
    <2>3. QED
      BY <1>7, <2>1, <2>2 DEF RegisteredOnce
  <1>9. ASSUME NEW p, Registered(p)
        PROVE  Registered(p)'
    <2>1. PICK x \in DOMAIN registry : registry[x].prefix = p
      BY <1>9 DEF Registered, ToSet
    <2>2. x \in DOMAIN registry' /\ registry'[x].prefix = p
      BY <1>6, <2>1
    <2>3. QED
      BY <2>2 DEF Registered, ToSet
  <1>10. ASSUME NEW k \in Procs
         PROVE  OnTrack(k)'
    <2>1. CASE k = i
      <3>1. Holding(i)'
        BY <1>1, <1>2, <1>3 DEF OnTrack, Holding, ListSteps, RegistrySteps
      <3>2. Asking(i)' /\ Creating(i)' /\ ClosingOne(i)' /\ Registering(i)'
        BY <1>3 DEF Asking, Creating, ClosingOne, Registering
      <3>3. QED
        BY <2>1, <3>1, <3>2 DEF OnTrack
    <2>2. CASE k # i
      <3>1. OnTrack(k) /\ cmd'[k] = cmd[k] /\ cmd[k].at \notin RegistrySteps
        BY <1>1, <1>2, <1>3, <2>2, OneAtATime DEF AtWork, RegistrySteps
      <3>2. cmd[k].at \in ListSteps => locks'["list"] = k
        BY <1>1, <3>1 DEF OnTrack, Holding
      <3>3. QED
        BY <1>1, <1>9, <3>1, <3>2, StaysOnTrack
    <2>3. QED
      BY <2>1, <2>2
  <1>11. left' \in 0..MaxCommands
    BY <1>1, <1>2 DEF Files
  <1>12. QED
    BY <1>1, <1>3, <1>6, <1>8, <1>9, <1>10, <1>11, RegistryChanges

(* A prefix retired by hand stays registered; nobody is about to add it.   *)
LEMMA PrefixIsRetired ==
  ASSUME MarkersIInv, NEW p, RetiresByHand(p)
  PROVE  MarkersIInv'
  <1> DEFINE now(k) == IF registry[k].prefix = p THEN [registry[k] EXCEPT !.retired = TRUE]
                                                  ELSE registry[k]
  <1>1. /\ left > 0 /\ left' = left - 1 /\ registry' = [k \in DOMAIN registry |-> now(k)]
        /\ UNCHANGED <<list, headed, details, told, handed>>
        /\ cmd' = cmd /\ locks' = locks /\ faults' = faults
    BY DEF RetiresByHand
  <1>2. Commands /\ Files /\ AtWork /\ NumbersAreBurned
    BY DEF MarkersIInv
  <1>3. registry \in Seq([prefix : PrefixIds, retired : BOOLEAN])
    BY <1>2 DEF Files
  <1>4. DOMAIN registry = 1..Len(registry) /\ Len(registry) \in Nat
    BY <1>3
  <1>5. ASSUME NEW k \in DOMAIN registry
        PROVE  /\ now(k).prefix = registry[k].prefix
               /\ now(k) \in [prefix : PrefixIds, retired : BOOLEAN]
    <2> DEFINE r == registry[k]
    <2>1. r \in [prefix : PrefixIds, retired : BOOLEAN]
      BY <1>3, ElementOf
    <2> HIDE DEF r
    <2>2. /\ [r EXCEPT !.retired = TRUE].prefix = r.prefix
          /\ [r EXCEPT !.retired = TRUE] \in [prefix : PrefixIds, retired : BOOLEAN]
      BY <2>1
    <2>3. now(k) = IF r.prefix = p THEN [r EXCEPT !.retired = TRUE] ELSE r
      BY DEF r
    <2> HIDE DEF now
    <2>4. /\ now(k).prefix = r.prefix
          /\ now(k) \in [prefix : PrefixIds, retired : BOOLEAN]
      BY <2>1, <2>2, <2>3
    <2>5. QED
      BY <2>4 DEF r
  <1> HIDE DEF now
  <1>6. registry' \in Seq([prefix : PrefixIds, retired : BOOLEAN])
    BY <1>1, <1>4, <1>5
  <1>7. /\ DOMAIN registry' = DOMAIN registry
        /\ \A k \in DOMAIN registry : registry'[k].prefix = registry[k].prefix
    BY <1>1, <1>5
  <1>8. \A q : Registered(q)' = Registered(q)
    BY <1>7 DEF Registered, ToSet
  <1>9. RegisteredOnce'
    <2>1. RegisteredOnce
      BY <1>2, BurnedMeans
    <2>2. QED
      BY <1>7, <2>1 DEF RegisteredOnce
  <1>10. ASSUME NEW k \in Procs
         PROVE  OnTrack(k)'
    <2>1. OnTrack(k)
      BY <1>2 DEF AtWork
    <2>2. Rows' = Rows /\ Row(k)' = Row(k)
      BY <1>1 DEF Rows, Row
    <2>3. Filed(Row(k))' = Filed(Row(k))
      BY <1>1, <2>2 DEF Filed, FileOf
    <2>4. Asking(k)' /\ Holding(k)'
      BY <1>1, <2>1 DEF OnTrack, Asking, Holding
    <2>5. Creating(k)'
      BY <1>1, <1>8, <2>1, <2>2, <2>3 DEF OnTrack, Creating
    <2>6. ClosingOne(k)'
      BY <1>1, <2>1 DEF OnTrack, ClosingOne, IdOf
    <2>7. Registering(k)'
      BY <1>1, <1>8, <2>1 DEF OnTrack, Registering
    <2>8. QED
      BY <2>4, <2>5, <2>6, <2>7 DEF OnTrack
  <1>11. left' \in 0..MaxCommands
    <2>1. left \in 0..MaxCommands /\ MaxCommands \in Nat
      BY LocksAre, MarkerAssumption
    <2>2. QED
      BY <1>1, <2>1
  <1>12. Commands'
    BY <1>1, <1>2 DEF Commands
  <1>13. QED
    BY <1>1, <1>6, <1>8, <1>9, <1>10, <1>11, <1>12, RegistryChanges

(* A step of another command writes none of the markers' files.            *)
LEMMA ElsewhereIs ==
  ASSUME MarkersIInv, UNCHANGED <<cmd, locks, pages>>, told \subseteq told',
         left' \in 0..MaxCommands, faults' \in 0..MaxFaults, faults <= faults'
  PROVE  MarkersIInv'
  <1>1. /\ Commands /\ Files /\ AtWork
        /\ NumbersAreBurned /\ Bounded /\ RowsAreKept /\ RowsValidate /\ Traces
    BY DEF MarkersIInv
  <1>2. /\ cmd' = cmd /\ locks' = locks /\ list' = list /\ headed' = headed
        /\ details' = details /\ registry' = registry /\ handed' = handed
    BY DEF pages
  <1>3. Rows' = Rows /\ \A k \in Procs : Row(k)' = Row(k)
    BY <1>2 DEF Rows, Row
  <1>4. Commands'
    BY <1>1, <1>2 DEF Commands
  <1>5. Files'
    BY <1>1, <1>2 DEF Files
  <1>6. \A p : Registered(p)' = Registered(p)
    BY <1>2 DEF Registered
  <1>7. \A row : Filed(row)' = Filed(row)
    BY <1>2 DEF Filed, FileOf
  <1>8. ASSUME NEW k \in Procs
        PROVE  OnTrack(k)'
    <2>1. OnTrack(k)
      BY <1>1 DEF AtWork
    <2>2. Filed(Row(k))' = Filed(Row(k))
      BY <1>2, <1>3 DEF Filed, FileOf
    <2>3. Asking(k)' /\ Holding(k)'
      BY <1>2, <2>1 DEF OnTrack, Asking, Holding
    <2>4. Creating(k)'
      BY <1>2, <1>3, <1>6, <2>1, <2>2 DEF OnTrack, Creating
    <2>5. ClosingOne(k)'
      BY <1>2, <2>1 DEF OnTrack, ClosingOne, IdOf
    <2>6. Registering(k)'
      BY <1>2, <1>6, <2>1 DEF OnTrack, Registering
    <2>7. QED
      BY <2>3, <2>4, <2>5, <2>6 DEF OnTrack
  <1>9. NumbersAreBurned' /\ Bounded' /\ RowsAreKept'
    BY <1>1, <1>2, <1>3 DEF NumbersAreBurned, Bounded, RowsAreKept, IdOf
  <1>10. RowsValidate'
    <2>1. ASSUME NEW row
          PROVE  Violations(row)' = Violations(row)
      BY <1>6, <1>7 DEF Violations
    <2>2. QED
      BY <1>1, <1>3, <2>1 DEF RowsValidate
  <1>11. Traces'
    <2>1. StuckDetails' \subseteq StuckDetails
      BY <1>2, <1>3 DEF StuckDetails, FileOf
    <2>2. StuckRows' \subseteq StuckRows
      BY <1>2, <1>3 DEF StuckRows, IdOf
    <2>3. IsFiniteSet(StuckDetails) /\ IsFiniteSet(StuckRows)
      BY <1>1, FewRows
    <2>4. faults \in Nat /\ faults' \in Nat
      BY LocksAre, MarkerAssumption
    <2> HIDE DEF StuckDetails, StuckRows
    <2>5. QED
      BY <1>1, <1>2, <2>1, <2>2, <2>3, <2>4, TracesGrow
  <1>12. QED
    BY <1>4, <1>5, <1>8, <1>9, <1>10, <1>11 DEF MarkersIInv, AtWork

LEMMA MarkersStep ==
  ASSUME MarkersIInv, NEW i \in Procs, MarkerStep(i)
  PROVE  MarkersIInv'
  <1>1. CASE PrefixIsChecked(i)
    BY <1>1, PrefixOk
  <1>2. CASE CreateLocks(i)
    BY <1>2, ListIsLocked
  <1>3. CASE WritesDetail(i)
    BY <1>3, DetailIsWritten
  <1>4. CASE WritesRow(i)
    BY <1>4, RowIsWritten
  <1>5. CASE CloseLocks(i)
    BY <1>5, CloseIsLocked
  <1>6. CASE MovesRow(i)
    BY <1>6, RowIsMoved
  <1>7. CASE RegisterLocks(i)
    BY <1>7, RegistryIsLocked
  <1>8. CASE AddsPrefix(i)
    BY <1>8, PrefixIsAdded
  <1>9. CASE \/ TellsRefused(i) \/ SchemaRefuses(i) \/ NoHeadings(i) \/ TellsCreated(i)
             \/ ClosedMeanwhile(i) \/ TellsClosed(i) \/ RegisteredMeanwhile(i)
             \/ TellsRegistered(i) \/ MarkerWriteFails(i) \/ Killed(i)
    BY <1>9, SomeEnd
  <1>10. QED
    BY <1>1, <1>2, <1>3, <1>4, <1>5, <1>6, <1>7, <1>8, <1>9 DEF MarkerStep

LEMMA MarkersBegin ==
  ASSUME MarkerInit
  PROVE  MarkersIInv
  <1> DEFINE row(p, n) == [prefix |-> p, n |-> n, title |-> "plain", target |-> "date"]
             kept(p) == IF headed THEN <<row(p, 1), row(p, 2)>> ELSE <<>>
  <1>1. PICK p \in PrefixIds :
          /\ registry = <<[prefix |-> p, retired |-> FALSE]>>
          /\ list = [active |-> kept(p), closed |-> <<>>]
          /\ details = ToSet(kept(p))
          /\ handed = {IdOf(r) : r \in ToSet(kept(p))}
          /\ told = {Created(IdOf(r)) : r \in ToSet(kept(p))}
    BY DEF MarkerInit
  <1>2. /\ cmd = [i \in Procs |-> Idle] /\ locks = [f \in {"list", "registry"} |-> Nobody]
        /\ left = MaxCommands /\ faults = 0
    BY DEF MarkerInit
  <1>3. row(p, 1) \in Entry /\ row(p, 2) \in Entry
    BY DEF Entry
  <1>4. IdOf(row(p, 1)) # IdOf(row(p, 2))
    BY DEF IdOf
  <1>5. /\ kept(p) \in Seq(Entry)
        /\ \A x, y \in DOMAIN kept(p) : IdOf(kept(p)[x]) = IdOf(kept(p)[y]) => x = y
    <2> DEFINE a == row(p, 1)  b == row(p, 2)
    <2>1. a \in Entry /\ b \in Entry /\ IdOf(a) # IdOf(b)
      BY <1>3, <1>4
    <2>2. kept(p) = IF headed THEN <<a, b>> ELSE <<>>
      OBVIOUS
    <2> HIDE DEF a, b, kept
    <2>3. CASE headed
      <3>1. kept(p) = <<a, b>>
        BY <2>2, <2>3
      <3>2. /\ <<a, b>> \in Seq(Entry) /\ DOMAIN <<a, b>> = 1..2
            /\ <<a, b>>[1] = a /\ <<a, b>>[2] = b
        BY <2>1
      <3>3. ASSUME NEW x \in 1..2
            PROVE  x = 1 \/ x = 2
        OBVIOUS
      <3>4. QED
        BY <2>1, <3>1, <3>2, <3>3
    <2>4. CASE ~headed
      BY <2>2, <2>4
    <2>5. QED
      BY <2>3, <2>4
  <1> HIDE DEF kept, row
  <1>6. /\ list.active = kept(p) /\ list.closed = <<>>
        /\ list = [active |-> list.active, closed |-> list.closed]
    BY <1>1
  <1>7. Rows = ToSet(kept(p)) /\ Rows = details
    BY <1>1, <1>6 DEF Rows, ToSet
  <1>8. Commands
    BY <1>2, IdleIs DEF Commands
  <1>9. IsFiniteSet(details) /\ details \subseteq Entry
    <2>1. DOMAIN kept(p) = 1..Len(kept(p)) /\ Len(kept(p)) \in Nat
      BY <1>5
    <2>2. IsFiniteSet(DOMAIN kept(p))
      BY <2>1, FS_Interval
    <2>3. \A r \in details : \E x \in DOMAIN kept(p) : r = kept(p)[x]
      BY <1>1 DEF ToSet
    <2>4. QED
      BY <1>5, <2>2, <2>3, NoMoreImages, ElementOf
  <1>10. Files
    <2>1. registry \in Seq([prefix : PrefixIds, retired : BOOLEAN])
      BY <1>1
    <2>2. locks \in [{"list", "registry"} -> Procs \cup {Nobody}]
      BY <1>2
    <2>3. left \in 0..MaxCommands /\ faults \in 0..MaxFaults
      BY <1>2, MarkerAssumption
    <2>4. list.active \in Seq(Entry) /\ list.closed \in Seq(Entry)
      BY <1>5, <1>6
    <2>5. QED
      BY <1>6, <1>9, <2>1, <2>2, <2>3, <2>4 DEF Files
  <1>11. AtWork
    <2>1. \A i \in Procs : cmd[i].at = "idle"
      BY <1>2, IdleIs
    <2>2. QED
      BY <2>1 DEF AtWork, OnTrack, Asking, Holding, Creating, ClosingOne, Registering, ListSteps,
         RegistrySteps
  <1>12. NumbersAreBurned
    <2>1. Apart(list.active, list.closed)
      BY <1>5, <1>6 DEF Apart
    <2>2. RegisteredOnce
      BY <1>1 DEF RegisteredOnce
    <2>3. QED
      BY <2>1, <2>2, ApartBurns
  <1>13. Bounded
    <2>1. \A r \in Rows : r = row(p, 1) \/ r = row(p, 2)
      BY <1>7 DEF kept, ToSet
    <2>2. \A r \in Rows : r.n <= 2
      BY <2>1 DEF row
    <2>3. QED
      BY <2>2 DEF Bounded
  <1>14. RowsAreKept
    BY <1>1, <1>7 DEF RowsAreKept
  <1>15. RowsValidate
    <2>1. ASSUME NEW r \in Rows
          PROVE  Violations(r) = {}
      <3>1. r.prefix = p
        BY <1>7, <1>5 DEF kept, ToSet, row
      <3>2. Registered(r.prefix)
        BY <1>1, <3>1 DEF Registered, ToSet
      <3>3. \A d \in Rows : FileOf(d) = FileOf(r) => d = r
        BY <1>7 DEF kept, ToSet, row, FileOf
      <3>4. Filed(r) = {r}
        BY <1>7, <3>3 DEF Filed
      <3>5. QED
        BY <3>2, <3>4 DEF Violations
    <2>2. QED
      BY <2>1 DEF RowsValidate
  <1>16. Traces
    <2>1. StuckDetails = {}
      BY <1>7 DEF StuckDetails
    <2>2. StuckRows = {}
      BY <1>1, <1>7 DEF StuckRows
    <2>3. Cardinality({}) = 0
      BY FS_EmptySet
    <2>4. QED
      BY <1>2, <2>1, <2>2, <2>3 DEF Traces
  <1>17. QED
    BY <1>8, <1>10, <1>11, <1>12, <1>13, <1>14, <1>15, <1>16 DEF MarkersIInv

(* What the invariant says of the traces.                                  *)
LEMMA TracesShown ==
  ASSUME MarkersIInv
  PROVE  TracesCostAFault
  <1> DEFINE orphans == {d \in details : \A row \in Rows : FileOf(row) # FileOf(d)}
             untold == {row \in Rows : Created(IdOf(row)) \notin told}
             these(at) == {d \in details \cup Rows : \E i \in AtMarker(at) : d = Row(i)}
  <1>1. /\ IsFiniteSet(StuckDetails) /\ IsFiniteSet(StuckRows) /\ Traces /\ faults \in Nat
    BY FewRows, LocksAre DEF MarkersIInv
  <1>2. ASSUME NEW at
        PROVE  /\ IsFiniteSet(these(at)) /\ IsFiniteSet(AtMarker(at))
               /\ Cardinality(these(at)) <= Cardinality(AtMarker(at))
    <2>1. IsFiniteSet(AtMarker(at))
      <3>1. AtMarker(at) \in SUBSET Procs
        BY DEF AtMarker
      <3>2. QED
        BY <3>1, FS_Subset, MarkerAssumption
    <2> DEFINE f == [i \in AtMarker(at) |-> Row(i)]
    <2>2. DOMAIN f = AtMarker(at) /\ \A r \in these(at) : \E x \in AtMarker(at) : r = f[x]
      OBVIOUS
    <2> HIDE DEF f, these
    <2>3. QED
      BY <2>1, <2>2, NoMoreImages
  <1>3. orphans \subseteq StuckDetails \cup these("row")
    BY DEF StuckDetails, AtMarker
  <1>4. untold \subseteq StuckRows \cup these("tell_created")
    BY DEF StuckRows, AtMarker
  <1> HIDE DEF these, orphans, untold
  <1>5. /\ Cardinality(orphans) <= Cardinality(StuckDetails) + Cardinality(these("row"))
        /\ {Cardinality(orphans), Cardinality(StuckDetails), Cardinality(these("row"))}
             \subseteq Nat
    BY <1>1, <1>2, <1>3, CountTogether
  <1>6. /\ Cardinality(untold) <= Cardinality(StuckRows) + Cardinality(these("tell_created"))
        /\ {Cardinality(untold), Cardinality(StuckRows), Cardinality(these("tell_created"))}
             \subseteq Nat
    BY <1>1, <1>2, <1>4, CountTogether
  <1>7. Cardinality(AtMarker("row")) \in Nat /\ Cardinality(AtMarker("tell_created")) \in Nat
    BY <1>2, FS_CardinalityType
  <1>8. headed => /\ Cardinality(orphans) <= faults + Cardinality(AtMarker("row"))
                  /\ Cardinality(untold) <= faults + Cardinality(AtMarker("tell_created"))
    <2>1. SUFFICES ASSUME headed
                   PROVE  /\ Cardinality(orphans) <= faults + Cardinality(AtMarker("row"))
                          /\ Cardinality(untold) <= faults + Cardinality(AtMarker("tell_created"))
      OBVIOUS
    <2>2. Cardinality(StuckDetails) <= faults /\ Cardinality(StuckRows) <= faults
      BY <1>1, <2>1 DEF Traces
    <2>3. /\ Cardinality(these("row")) <= Cardinality(AtMarker("row"))
          /\ Cardinality(these("tell_created")) <= Cardinality(AtMarker("tell_created"))
      BY <1>2
    <2>4. Cardinality(orphans) <= faults + Cardinality(AtMarker("row"))
      BY <1>1, <1>5, <1>7, <2>2, <2>3
    <2>5. Cardinality(untold) <= faults + Cardinality(AtMarker("tell_created"))
      BY <1>1, <1>6, <1>7, <2>2, <2>3
    <2>6. QED
      BY <2>4, <2>5
  <1>9. QED
    BY <1>8 DEF TracesCostAFault, orphans, untold

(***************************************************************************)
(* Lines and plans.  The writer of the outstanding file holds its flock,   *)
(* and what it read still stands but for a line resolved by hand; a        *)
(* promotion has made the directory of its plan, and only it writes there. *)
(***************************************************************************)
IsRoute(r) == r = [at |-> r.at, row |-> r.row, id |-> r.id, slug |-> r.slug, n |-> r.n,
                   copy |-> r.copy, inode |-> r.inode]
Routes == route = [i \in Procs |-> route[i]] /\ \A i \in Procs : IsRoute(route[i])

OneLine == [id : Nat, status : {"open", "promoted", "resolved"}, to : Slugs \cup {Nothing}]
OnePlan == [there : BOOLEAN, used : BOOLEAN, recon : Nat \cup {Nothing}, lessons : Nat]

Shapes ==
  /\ issues \in Seq(OneLine) /\ plans \in [Slugs -> OnePlan]
  /\ flocks \in [{"issues"} \cup Slugs -> Procs \cup {Nobody}]
  /\ minted \in 0..MaxLines /\ faults \in 0..MaxFaults
  /\ \A k \in DOMAIN issues : issues[k].id <= minted
  /\ \A k, m \in DOMAIN issues : issues[k].id = issues[m].id => k = m

(* What a row of the log claims of a line or of a lesson.                  *)
IsTrue(e) ==
  /\ \A b \in Nat : e = Appended(b) => b \in Ids
  /\ \A b \in Nat, s \in Slugs : e = LessonAdded(b, s) => plans[s].lessons >= b

(* A copy of the lines that may be written back.                           *)
Stands(f) ==
  /\ f \in Seq(OneLine) /\ DOMAIN f = DOMAIN issues
  /\ \A k \in DOMAIN f :
        /\ f[k].id = issues[k].id /\ f[k].to = issues[k].to
        /\ f[k].status = issues[k].status \/ (f[k].status = "open" /\ issues[k].status = "resolved")

Owning == {"recon", "promote", "mark", "undo"}
Flying == {"promote", "mark", "undo"}
Unnamed(s) == \A k \in DOMAIN issues : ~Names(issues[k], s)

Locking(i) ==
  /\ route[i].at \in {"append_write", "mark", "undo"} => flocks["issues"] = i
  /\ route[i].at \in {"lesson", "lesson_write"} => route[i].slug \in Slugs
  /\ route[i].at = "lesson_write" =>
        flocks[route[i].slug] = i /\ route[i].n = plans[route[i].slug].lessons
Copying(i) ==
  /\ route[i].at \in {"append_write", "mark"} => Stands(route[i].copy)
  /\ route[i].at = "append_write" => route[i].id \in 0..minted /\ route[i].id \notin Ids
  /\ route[i].at = "mark" => IsOpen(route[i].copy, route[i].id)
Promoting(i) ==
  /\ route[i].at \in Owning \cup {"mkdir"} => route[i].slug \in Slugs /\ route[i].id \in Ids
  /\ route[i].at \in Owning => plans[route[i].slug].there /\ Unnamed(route[i].slug)
  /\ route[i].at = "recon" => plans[route[i].slug].recon = Nothing
  /\ route[i].at \in Flying => plans[route[i].slug].recon = route[i].id
OnCourse(i) == Locking(i) /\ Copying(i) /\ Promoting(i) /\ IsTrue(route[i].row)

OwnersApart == \A i, k \in Procs :
  route[i].at \in Owning /\ route[k].at \in Owning /\ route[i].slug = route[k].slug => i = k

Recons ==
  /\ \A s \in Slugs : /\ ~plans[s].there => plans[s].recon = Nothing
                      /\ plans[s].recon \in Ids \cup {Nothing}
  /\ \A k \in DOMAIN issues, s \in Slugs :
        Names(issues[k], s) => plans[s].recon = issues[k].id

(* The recons no promotion on its way will bind to their line.             *)
StuckPlans ==
  {s \in Slugs : /\ plans[s].recon # Nothing /\ Unnamed(s)
                 /\ \A i \in Procs : route[i].at \in Flying => route[i].slug # s}
PlansCost == IsFiniteSet(StuckPlans) /\ Cardinality(StuckPlans) <= faults

LinesIInv ==
  /\ Routes /\ Shapes /\ Recons /\ OwnersApart /\ PlansCost
  /\ (\A e \in told : IsTrue(e)) /\ \A i \in Procs : OnCourse(i)

(***************************************************************************)
(* The counter, as long as no two commands met and nothing failed.         *)
(***************************************************************************)
AtOne == \A i, k \in Procs : route[i].at \in Window /\ route[k].at \in Window => i = k
Uncut == \E cap \in Caps : dumped <= cap

(* What is left to count, where a command is between check and count.      *)
Owed(i) == IF route[i].at \in {"count", "fill", "replace"} /\ ~IsReset(i) THEN 1 ELSE 0
Counts(i) ==
  route[i].at \in Window =>
    /\ Count + Owed(i) = dumped
    /\ route[i].at \in {"append", "append_write"} => \E cap \in Caps : dumped < cap
    /\ route[i].at \in {"append", "append_write", "count"} => tmp = Nothing
    /\ route[i].at \in {"fill", "replace"} =>
         /\ tmp = route[i].inode /\ tmp \in DOMAIN cells /\ tmp # counter
         /\ route[i].n = IF IsReset(i) THEN 0 ELSE dumped
    /\ route[i].at = "replace" => cells[tmp] = route[i].n

InodesAre == \A i \in Procs : route[i].at \notin {"fill", "replace"} => route[i].inode = Nothing
Quiet == (\A i \in Procs : route[i].at \notin Window) => Count = dumped /\ tmp = Nothing
Cells ==
  /\ cells \in [0..(2 * Cardinality(Procs)) -> Nat \cup {Nothing}] /\ dumped \in Nat
  /\ counter \in DOMAIN cells \cup {Nothing}
Sober == Cells /\ Uncut /\ Quiet /\ InodesAre /\ \A i \in Procs : Counts(i)
CountIInv == met \in BOOLEAN /\ (~met => AtOne) /\ (~met /\ faults = 0 => Sober)

(* The rows of the log that claim nothing of a line or of a lesson.        *)
Silent(e) == (\A b : e # Appended(b)) /\ \A b, s : e # LessonAdded(b, s)

LEMMA RowsOfOne ==
  ASSUME NEW x
  PROVE  /\ Len(<<x>>) = 1 /\ Len(<<>>) = 0
  OBVIOUS

LEMMA RowsOfTwo ==
  ASSUME NEW x, NEW y
  PROVE  /\ Len(<<x, y>>) = 2 /\ <<x, y>>[1] = x /\ <<x, y>>[2] = y
  OBVIOUS

LEMMA RowsOfThree ==
  ASSUME NEW x, NEW y, NEW z
  PROVE  /\ Len(<<x, y, z>>) = 3 /\ <<x, y, z>>[1] = x /\ <<x, y, z>>[2] = y
         /\ <<x, y, z>>[3] = z
  OBVIOUS

LEMMA RowsOfTheLog ==
  /\ Silent(<<>>) /\ \A x : Silent(<<x>>)
  /\ \A x, y : x # "outstanding_appended" => Silent(<<x, y>>)
  /\ \A x, y, z : x # "lesson_added" => Silent(<<x, y, z>>)
  /\ \A a, b : Appended(a) = Appended(b) => a = b
  /\ \A a, b, s, t : LessonAdded(a, s) = LessonAdded(b, t) => a = b /\ s = t
  /\ \A a, b, s : Appended(a) # LessonAdded(b, s)
  <1>1. ASSUME NEW e, NEW b, e = Appended(b)
        PROVE  Len(e) = 2 /\ e[1] = "outstanding_appended" /\ e[2] = b
    BY <1>1, RowsOfTwo DEF Appended
  <1>2. ASSUME NEW e, NEW b, NEW s, e = LessonAdded(b, s)
        PROVE  Len(e) = 3 /\ e[1] = "lesson_added" /\ e[2] = b /\ e[3] = s
    BY <1>2, RowsOfThree DEF LessonAdded
  <1>3. ASSUME NEW e, Len(e) \notin {2, 3}
        PROVE  Silent(e)
    BY <1>1, <1>2, <1>3 DEF Silent
  <1>4. ASSUME NEW e, Len(e) = 2, e[1] # "outstanding_appended"
        PROVE  Silent(e)
    BY <1>1, <1>2, <1>4 DEF Silent
  <1>5. ASSUME NEW e, Len(e) = 3, e[1] # "lesson_added"
        PROVE  Silent(e)
    BY <1>1, <1>2, <1>5 DEF Silent
  <1>6. Silent(<<>>) /\ \A x : Silent(<<x>>)
    BY <1>3, RowsOfOne
  <1>7. ASSUME NEW x, NEW y, x # "outstanding_appended"
        PROVE  Silent(<<x, y>>)
    BY <1>4, <1>7, RowsOfTwo
  <1>8. ASSUME NEW x, NEW y, NEW z, x # "lesson_added"
        PROVE  Silent(<<x, y, z>>)
    BY <1>5, <1>8, RowsOfThree
  <1>9. ASSUME NEW a, NEW b, Appended(a) = Appended(b)
        PROVE  a = b
    BY <1>1, <1>9
  <1>10. ASSUME NEW a, NEW b, NEW s, NEW t, LessonAdded(a, s) = LessonAdded(b, t)
         PROVE  a = b /\ s = t
    BY <1>2, <1>10
  <1>11. ASSUME NEW a, NEW b, NEW s
         PROVE  Appended(a) # LessonAdded(b, s)
    BY <1>1, <1>2
  <1>12. QED
    BY <1>6, <1>7, <1>8, <1>9, <1>10, <1>11

LEMMA SilentIsTrue ==
  ASSUME NEW e, Silent(e)
  PROVE  IsTrue(e)
  BY DEF Silent, IsTrue

(* The rows the code writes that are silent.                               *)
LEMMA SilentRows ==
  /\ Silent(<<>>) /\ Silent(Reset) /\ Silent(<<"fix_now_logged">>)
  /\ Silent(<<"route_marker_delegated">>)
  /\ \A x : /\ Silent(<<"escalation_triggered", x>>) /\ Silent(<<"refused", x>>)
            /\ Silent(Created(x)) /\ Silent(<<"closed", x>>) /\ Silent(<<"registered", x>>)
  /\ \A x, y : Silent(<<"outstanding_promoted", x, y>>)
  BY RowsOfTheLog DEF Reset, Created

(* One command of the router changes, the others do not.                   *)
LEMMA GoesIs ==
  ASSUME Routes, NEW i \in Procs, NEW job, IsRoute(job), Goes(i, job)
  PROVE  /\ Routes' /\ route'[i] = job
         /\ \A k \in Procs : k # i => route'[k] = route[k]
  <1>1. route' = [route EXCEPT ![i] = job]
    BY DEF Goes
  <1>2. route'[i] = job /\ \A k \in Procs : k # i => route'[k] = route[k]
    BY <1>1 DEF Routes
  <1>3. route' = [k \in Procs |-> route'[k]]
    BY <1>1 DEF Routes
  <1>4. \A k \in Procs : IsRoute(route'[k])
    BY <1>2 DEF Routes
  <1>5. QED
    BY <1>2, <1>3, <1>4 DEF Routes

(* A command of the router, field by field.                                *)
Job(at, row, id, slug, n, copy, inode) ==
  [at |-> at, row |-> row, id |-> id, slug |-> slug, n |-> n, copy |-> copy, inode |-> inode]

LEMMA JobOf ==
  ASSUME NEW at, NEW row, NEW id, NEW slug, NEW n, NEW copy, NEW inode,
         NEW job, job = Job(at, row, id, slug, n, copy, inode)
  PROVE  /\ IsRoute(job) /\ job.at = at /\ job.row = row /\ job.id = id /\ job.slug = slug
         /\ job.n = n /\ job.copy = copy /\ job.inode = inode
  BY DEF Job, IsRoute

WithAt(r, x) == [r EXCEPT !.at = x]
WithRow(r, x) == [r EXCEPT !.row = x]
WithId(r, x) == [r EXCEPT !.id = x]
WithSlug(r, x) == [r EXCEPT !.slug = x]
WithN(r, x) == [r EXCEPT !.n = x]
WithCopy(r, x) == [r EXCEPT !.copy = x]
WithInode(r, x) == [r EXCEPT !.inode = x]

LEMMA FieldIn ==
  ASSUME NEW at, NEW row, NEW id, NEW slug, NEW n, NEW copy, NEW inode, NEW x
  PROVE  /\ WithAt(Job(at, row, id, slug, n, copy, inode), x) = Job(x, row, id, slug, n, copy, inode)
         /\ WithRow(Job(at, row, id, slug, n, copy, inode), x) = Job(at, x, id, slug, n, copy, inode)
         /\ WithId(Job(at, row, id, slug, n, copy, inode), x) = Job(at, row, x, slug, n, copy, inode)
         /\ WithSlug(Job(at, row, id, slug, n, copy, inode), x) = Job(at, row, id, x, n, copy, inode)
         /\ WithN(Job(at, row, id, slug, n, copy, inode), x) = Job(at, row, id, slug, x, copy, inode)
         /\ WithCopy(Job(at, row, id, slug, n, copy, inode), x) = Job(at, row, id, slug, n, x, inode)
         /\ WithInode(Job(at, row, id, slug, n, copy, inode), x) = Job(at, row, id, slug, n, copy, x)
  <1>1. WithAt(Job(at, row, id, slug, n, copy, inode), x) = Job(x, row, id, slug, n, copy, inode)
    BY DEF Job, WithAt
  <1>2. WithRow(Job(at, row, id, slug, n, copy, inode), x) = Job(at, x, id, slug, n, copy, inode)
    BY DEF Job, WithRow
  <1>3. WithId(Job(at, row, id, slug, n, copy, inode), x) = Job(at, row, x, slug, n, copy, inode)
    BY DEF Job, WithId
  <1>4. WithSlug(Job(at, row, id, slug, n, copy, inode), x) = Job(at, row, id, x, n, copy, inode)
    BY DEF Job, WithSlug
  <1>5. WithN(Job(at, row, id, slug, n, copy, inode), x) = Job(at, row, id, slug, x, copy, inode)
    BY DEF Job, WithN
  <1>6. WithCopy(Job(at, row, id, slug, n, copy, inode), x) = Job(at, row, id, slug, n, x, inode)
    BY DEF Job, WithCopy
  <1>7. WithInode(Job(at, row, id, slug, n, copy, inode), x) = Job(at, row, id, slug, n, copy, x)
    BY DEF Job, WithInode
  <1>8. QED
    BY <1>1, <1>2, <1>3, <1>4, <1>5, <1>6, <1>7

LEMMA RouteIsJob ==
  ASSUME NEW r, IsRoute(r)
  PROVE  r = Job(r.at, r.row, r.id, r.slug, r.n, r.copy, r.inode)
  BY DEF IsRoute, Job

LEMMA FreeIs ==
  /\ Free = Job("free", <<>>, Nothing, Nothing, 0, <<>>, Nothing)
  /\ IsRoute(Free) /\ Free.at = "free" /\ Free.row = <<>> /\ Free.id = Nothing
  /\ Free.slug = Nothing /\ Free.n = 0 /\ Free.copy = <<>> /\ Free.inode = Nothing
  <1>1. Free = Job("free", <<>>, Nothing, Nothing, 0, <<>>, Nothing)
    BY DEF Free, Job
  <1>2. QED
    BY <1>1, JobOf

LEMMA TellingIs ==
  ASSUME NEW row
  PROVE  Telling(row) = Job("tell", row, Nothing, Nothing, 0, <<>>, Nothing)
  <1>1. Telling(row) = WithRow(WithAt(Free, "tell"), row)
    BY DEF Telling, WithAt, WithRow
  <1>2. QED
    BY <1>1, FreeIs, FieldIn

(* Flocks that are granted, or let go.                                     *)
LEMMA LockedIs ==
  ASSUME flocks \in [{"issues"} \cup Slugs -> Procs \cup {Nobody}], NEW i \in Procs,
         NEW f \in {"issues"} \cup Slugs, Locked(f, i)
  PROVE  /\ flocks' \in [{"issues"} \cup Slugs -> Procs \cup {Nobody}]
         /\ flocks'[f] = i /\ \A k \in Procs : flocks[f] # k
         /\ \A g \in {"issues"} \cup Slugs, k \in Procs : flocks[g] = k => flocks'[g] = k
  BY MarkerAssumption DEF Locked

LEMMA UnlocksIs ==
  ASSUME flocks \in [{"issues"} \cup Slugs -> Procs \cup {Nobody}], NEW i \in Procs, Unlocks(i)
  PROVE  /\ flocks' \in [{"issues"} \cup Slugs -> Procs \cup {Nobody}]
         /\ \A g \in {"issues"} \cup Slugs, k \in Procs \ {i} : flocks[g] = k => flocks'[g] = k
  <1>1. DOMAIN flocks = {"issues"} \cup Slugs
    OBVIOUS
  <1>2. QED
    BY <1>1 DEF Unlocks

(* What a command knows stays true while nobody takes from it.             *)
LEMMA TruthStays ==
  ASSUME Ids \subseteq Ids',
         \A s \in Slugs : plans[s].lessons \in Nat /\ plans'[s].lessons \in Nat
                          /\ plans[s].lessons <= plans'[s].lessons
  PROVE  \A e : IsTrue(e) => IsTrue(e)'
  <1> SUFFICES ASSUME NEW e, IsTrue(e)
               PROVE  IsTrue(e)'
    OBVIOUS
  <1>1. \A b \in Nat : e = Appended(b) => b \in Ids'
    BY DEF IsTrue
  <1>2. ASSUME NEW b \in Nat, NEW s \in Slugs, e = LessonAdded(b, s)
        PROVE  plans'[s].lessons >= b
    <2>1. plans[s].lessons >= b
      BY <1>2 DEF IsTrue
    <2>2. QED
      BY <2>1
  <1>3. QED
    BY <1>1, <1>2 DEF IsTrue, Appended, LessonAdded

LEMMA StaysOnCourse ==
  ASSUME NEW k \in Procs, OnCourse(k), route'[k] = route[k],
         \A f \in {"issues"} \cup Slugs : flocks[f] = k => flocks'[f] = k,
         Ids \subseteq Ids', minted \in Nat, minted' \in Nat, minted <= minted',
         route[k].at \in {"append_write", "mark"} => Stands(route[k].copy)',
         route[k].at = "append_write" => route[k].id \notin Ids',
         route[k].at = "lesson_write" =>
           plans'[route[k].slug].lessons = plans[route[k].slug].lessons,
         route[k].at \in Owning =>
           /\ plans'[route[k].slug].there
           /\ plans'[route[k].slug].recon = plans[route[k].slug].recon
           /\ Unnamed(route[k].slug)',
         \A e : IsTrue(e) => IsTrue(e)'
  PROVE  OnCourse(k)'
  <1>1. Locking(k)'
    BY DEF OnCourse, Locking
  <1>2. Copying(k)'
    <2>1. route[k].at = "append_write" => route[k].id \in 0..minted'
      BY DEF OnCourse, Copying
    <2>2. route[k].at = "mark" => IsOpen(route[k].copy, route[k].id)'
      BY DEF OnCourse, Copying, IsOpen
    <2>3. QED
      BY <2>1, <2>2 DEF Copying, IsOpen
  <1>3. Promoting(k)'
    BY DEF OnCourse, Promoting, Owning, Flying
  <1>4. IsTrue(route[k].row)'
    <2>1. \A e : route[k].row = e => IsTrue(e)'
      BY DEF OnCourse
    <2>2. PICK e : e = route[k].row
      OBVIOUS
    <2>3. e = route'[k].row /\ IsTrue(e)'
      BY <2>1, <2>2
    <2>4. QED
      BY <2>3
  <1>5. QED
    BY <1>1, <1>2, <1>3, <1>4 DEF OnCourse

(* What the invariant says, part by part.                                  *)
LEMMA LinesAre ==
  ASSUME LinesIInv
  PROVE  /\ Routes /\ Shapes /\ Recons /\ OwnersApart /\ PlansCost
         /\ (\A e \in told : IsTrue(e)) /\ (\A k \in Procs : OnCourse(k))
         /\ flocks \in [{"issues"} \cup Slugs -> Procs \cup {Nobody}]
         /\ minted \in Nat /\ faults \in Nat /\ issues \in Seq(OneLine)
         /\ plans \in [Slugs -> OnePlan]
         /\ \A s \in Slugs : plans[s] \in OnePlan /\ plans[s].lessons \in Nat
  <1>1. Shapes /\ MaxLines \in Nat /\ MaxFaults \in Nat
    BY RoutingAssumption, MarkerAssumption DEF LinesIInv
  <1>2. minted \in Nat /\ faults \in Nat
    BY <1>1 DEF Shapes
  <1>3. \A s \in Slugs : plans[s] \in OnePlan /\ plans[s].lessons \in Nat
    BY <1>1 DEF Shapes, OnePlan
  <1>4. QED
    BY <1>1, <1>2, <1>3 DEF LinesIInv, Shapes

(* The plans that no promotion will bind grow by one for each fault.       *)
LEMMA PlansGrow ==
  ASSUME PlansCost, NEW s, faults \in Nat, faults' \in Nat,
         \/ StuckPlans' \subseteq StuckPlans /\ faults <= faults'
         \/ StuckPlans' \subseteq StuckPlans \cup {s} /\ faults' = faults + 1
  PROVE  PlansCost'
  <1> DEFINE T == StuckPlans
  <1>1. IsFiniteSet(T) /\ Cardinality(T) <= faults
    BY DEF PlansCost
  <1> HIDE DEF T
  <1>2. CASE T' \subseteq T /\ faults <= faults'
    <2>1. /\ IsFiniteSet(T') /\ Cardinality(T') <= Cardinality(T)
          /\ Cardinality(T') \in Nat /\ Cardinality(T) \in Nat
      BY <1>1, <1>2, NoMore
    <2>2. Cardinality(T') <= faults'
      BY <1>1, <1>2, <2>1
    <2>3. QED
      BY <2>1, <2>2 DEF PlansCost, T
  <1>3. CASE T' \subseteq T \cup {s} /\ faults' = faults + 1
    <2>1. /\ IsFiniteSet(T') /\ Cardinality(T') <= Cardinality(T) + 1
          /\ Cardinality(T') \in Nat /\ Cardinality(T) \in Nat
      BY <1>1, <1>3, OneMore
    <2>2. Cardinality(T') <= faults'
      BY <1>1, <1>3, <2>1
    <2>3. QED
      BY <2>1, <2>2 DEF PlansCost, T
  <1>4. QED
    BY <1>2, <1>3 DEF T

(* A step that writes neither a line nor a plan.                           *)
LEMMA LinesStand ==
  ASSUME LinesIInv, NEW i \in Procs, NEW job, IsRoute(job), Goes(i, job),
         issues' = issues, plans' = plans, minted' \in 0..MaxLines, minted <= minted',
         faults' \in 0..MaxFaults, faults <= faults',
         flocks' \in [{"issues"} \cup Slugs -> Procs \cup {Nobody}],
         \A g \in {"issues"} \cup Slugs, k \in Procs \ {i} : flocks[g] = k => flocks'[g] = k,
         job.at \in Owning => route[i].at \in Owning /\ job.slug = route[i].slug,
         route[i].at \in Flying =>
           faults' = faults + 1 \/ (job.at \in Flying /\ job.slug = route[i].slug),
         \A e \in told' : e \in told \/ IsTrue(e),
         OnCourse(i)'
  PROVE  LinesIInv'
  <1>1. /\ Routes /\ Shapes /\ Recons /\ OwnersApart /\ PlansCost
        /\ (\A e \in told : IsTrue(e)) /\ (\A k \in Procs : OnCourse(k))
        /\ minted \in Nat /\ faults \in Nat
        /\ \A s \in Slugs : plans[s].lessons \in Nat
    BY LinesAre
  <1>2. /\ Routes' /\ route'[i] = job /\ \A k \in Procs : k # i => route'[k] = route[k]
    BY <1>1, GoesIs
  <1>3. minted' \in Nat /\ faults' \in Nat
    BY RoutingAssumption, MarkerAssumption
  <1>4. Ids' = Ids /\ \A s : Unnamed(s)' = Unnamed(s)
    BY DEF Ids, Unnamed, Names
  <1>5. \A f : Stands(f)' = Stands(f)
    BY DEF Stands
  <1>6. \A e : IsTrue(e) => IsTrue(e)'
    <2>1. \A s \in Slugs : plans[s].lessons \in Nat /\ plans'[s].lessons \in Nat
                          /\ plans[s].lessons <= plans'[s].lessons
      BY <1>1
    <2>2. QED
      BY <1>4, <2>1, TruthStays
  <1>7. ASSUME NEW k \in Procs, k # i
        PROVE  OnCourse(k)'
    <2>1. OnCourse(k) /\ route'[k] = route[k]
      BY <1>1, <1>2, <1>7
    <2>2. \A f \in {"issues"} \cup Slugs : flocks[f] = k => flocks'[f] = k
      BY <1>7
    <2>3. /\ route[k].at \in {"append_write", "mark"} => Stands(route[k].copy)
          /\ route[k].at = "append_write" => route[k].id \notin Ids
          /\ route[k].at \in Owning =>
               plans[route[k].slug].there /\ Unnamed(route[k].slug)
      BY <2>1 DEF OnCourse, Copying, Promoting
    <2>4. route[k].at \in {"append_write", "mark"} => Stands(route[k].copy)'
      <3>1. Stands(route[k].copy)' = Stands(route[k].copy)
        BY <2>1 DEF Stands
      <3>2. QED
        BY <2>3, <3>1
    <2>5. route[k].at \in Owning => Unnamed(route[k].slug)'
      <3>1. Unnamed(route[k].slug)' = Unnamed(route[k].slug)
        BY <2>1 DEF Unnamed, Names
      <3>2. QED
        BY <2>3, <3>1
    <2>6. QED
      BY <1>1, <1>3, <1>4, <1>6, <2>1, <2>2, <2>3, <2>4, <2>5, StaysOnCourse
  <1>8. Shapes'
    <2>1. ASSUME NEW k \in DOMAIN issues
          PROVE  issues[k].id <= minted'
      <3>1. issues[k] \in OneLine
        BY <1>1, ElementOf DEF Shapes
      <3>2. issues[k].id \in Nat /\ issues[k].id <= minted
        BY <1>1, <3>1 DEF Shapes, OneLine
      <3>3. QED
        BY <1>1, <1>3, <3>2
    <2> HIDE DEF OneLine, OnePlan
    <2>2. QED
      BY <1>1, <2>1 DEF Shapes
  <1>9. Recons'
    BY <1>1, <1>4 DEF Recons, Names
  <1>10. OwnersApart'
    <2>1. \A k \in Procs : route'[k].at \in Owning =>
            route[k].at \in Owning /\ route'[k].slug = route[k].slug
      BY <1>2
    <2>2. QED
      BY <1>1, <2>1 DEF OwnersApart
  <1>11. PlansCost'
    <2>1. CASE route[i].at \in Flying /\ ~(job.at \in Flying /\ job.slug = route[i].slug)
      <3>1. faults' = faults + 1
        BY <2>1
      <3>2. StuckPlans' \subseteq StuckPlans \cup {route[i].slug}
        BY <1>2, <1>4 DEF StuckPlans
      <3>3. QED
        BY <1>1, <1>3, <3>1, <3>2, PlansGrow
    <2>2. CASE ~(route[i].at \in Flying /\ ~(job.at \in Flying /\ job.slug = route[i].slug))
      <3>1. StuckPlans' \subseteq StuckPlans
        BY <1>2, <1>4, <2>2 DEF StuckPlans
      <3>2. QED
        BY <1>1, <1>3, <3>1, PlansGrow
    <2>3. QED
      BY <2>1, <2>2
  <1>12. \A e \in told' : IsTrue(e)'
    BY <1>1, <1>6
  <1>13. QED
    BY <1>2, <1>7, <1>8, <1>9, <1>10, <1>11, <1>12 DEF LinesIInv

(* Most places in the code have nothing to keep to.                        *)
Bound == {"append_write", "lesson", "lesson_write", "mkdir"} \cup Owning

LEMMA UnboundIs ==
  ASSUME NEW i \in Procs, route'[i].at \notin Bound, NEW e, route'[i].row = e, IsTrue(e)'
  PROVE  OnCourse(i)'
  <1>1. Locking(i)' /\ Copying(i)' /\ Promoting(i)'
    BY DEF Locking, Copying, Promoting, Bound, Owning, Flying
  <1>2. IsTrue(route[i].row)'
    BY DEF IsTrue
  <1>3. QED
    BY <1>1, <1>2 DEF OnCourse

LEMMA GoesUnbound ==
  ASSUME LinesIInv, NEW i \in Procs, NEW job, IsRoute(job), Goes(i, job),
         issues' = issues, plans' = plans, minted' \in 0..MaxLines, minted <= minted',
         faults' \in 0..MaxFaults, faults <= faults',
         \/ flocks' = flocks
         \/ Unlocks(i),
         job.at \notin Bound, IsTrue(job.row),
         route[i].at \in Flying => faults' = faults + 1,
         \A e \in told' : e \in told \/ IsTrue(e)
  PROVE  LinesIInv'
  <1>1. /\ Routes /\ flocks \in [{"issues"} \cup Slugs -> Procs \cup {Nobody}]
        /\ \A s \in Slugs : plans[s].lessons \in Nat
    BY LinesAre
  <1>2. route'[i] = job
    BY <1>1, GoesIs
  <1>3. /\ flocks' \in [{"issues"} \cup Slugs -> Procs \cup {Nobody}]
        /\ \A g \in {"issues"} \cup Slugs, k \in Procs \ {i} : flocks[g] = k => flocks'[g] = k
    <2>1. CASE flocks' = flocks
      BY <1>1, <2>1
    <2>2. CASE Unlocks(i)
      BY <1>1, <2>2, UnlocksIs
    <2>3. QED
      BY <2>1, <2>2
  <1>4. \A e : IsTrue(e) => IsTrue(e)'
    <2>1. Ids' = Ids
      BY DEF Ids
    <2>2. \A s \in Slugs : plans[s].lessons \in Nat /\ plans'[s].lessons \in Nat
                          /\ plans[s].lessons <= plans'[s].lessons
      BY <1>1
    <2>3. QED
      BY <2>1, <2>2, TruthStays
  <1>5. OnCourse(i)'
    <2>1. PICK e : e = job.row
      OBVIOUS
    <2>2. IsTrue(e)' /\ route'[i].row = e /\ route'[i].at \notin Bound
      BY <1>2, <1>4, <2>1
    <2>3. QED
      BY <2>2, UnboundIs
  <1>6. job.at \notin Owning /\ job.at \notin Flying
    BY DEF Bound, Owning, Flying
  <1>7. QED
    BY <1>3, <1>5, <1>6, LinesStand

LEMMA RangesStay ==
  ASSUME LinesIInv
  PROVE  /\ minted \in 0..MaxLines /\ minted <= minted
         /\ faults \in 0..MaxFaults /\ faults <= faults
         /\ Fault => faults' \in 0..MaxFaults /\ faults <= faults' /\ faults' = faults + 1
  <1>1. Shapes /\ minted \in Nat /\ faults \in Nat
    BY LinesAre
  <1>2. minted \in 0..MaxLines /\ faults \in 0..MaxFaults
    BY <1>1 DEF Shapes
  <1>3. MaxFaults \in Nat
    BY MarkerAssumption
  <1>4. QED
    BY <1>1, <1>2, <1>3 DEF Fault

(* A command that starts where there is nothing to keep to.                *)
LEMMA BeginsUnbound ==
  ASSUME LinesIInv, NEW i \in Procs, NEW job, IsRoute(job), Begins(i, job),
         UNCHANGED <<markers, lines>>, job.at \notin Bound, Silent(job.row)
  PROVE  LinesIInv'
  <1>1. /\ Goes(i, job) /\ route[i].at = "free" /\ faults' = faults /\ flocks' = flocks
        /\ issues' = issues /\ plans' = plans /\ minted' = minted /\ told' = told
    BY DEF Begins, RouteAt, markers, lines
  <1>2. minted' \in 0..MaxLines /\ minted <= minted' /\ faults' \in 0..MaxFaults
        /\ faults <= faults'
    BY <1>1, RangesStay
  <1>3. route[i].at \notin Flying
    BY <1>1 DEF Flying
  <1>4. IsTrue(job.row)
    BY SilentIsTrue
  <1>5. QED
    BY <1>1, <1>2, <1>3, <1>4, GoesUnbound

(* A command that ends.                                                    *)
LEMMA RouteEnds ==
  ASSUME LinesIInv, NEW i \in Procs, Ends(i), UNCHANGED lines,
         faults' = faults \/ Fault, route[i].at \in Flying => faults' = faults + 1,
         \A e \in told' : e \in told \/ IsTrue(e)
  PROVE  LinesIInv'
  <1>1. /\ Goes(i, Free) /\ Unlocks(i)
        /\ issues' = issues /\ plans' = plans /\ minted' = minted
    BY DEF Ends, lines
  <1>2. minted' \in 0..MaxLines /\ minted <= minted' /\ faults' \in 0..MaxFaults
        /\ faults <= faults'
    BY <1>1, RangesStay
  <1>3. IsRoute(Free) /\ Free.at \notin Bound /\ IsTrue(Free.row)
    BY FreeIs, SilentRows, SilentIsTrue DEF Bound, Owning
  <1>4. QED
    BY <1>1, <1>2, <1>3, GoesUnbound

LEMMA CommandFails ==
  ASSUME LinesIInv, NEW i \in Procs, RoutingWriteFails(i) \/ RoutingKilled(i)
  PROVE  LinesIInv'
  <1>1. Ends(i) /\ Fault /\ UNCHANGED lines /\ told' = told
    BY DEF RoutingWriteFails, RoutingKilled, markers
  <1>2. faults' = faults + 1
    BY <1>1 DEF Fault
  <1>3. QED
    BY <1>1, <1>2, RouteEnds

LEMMA CommandTells ==
  ASSUME LinesIInv, NEW i \in Procs, TellsDelegated(i) \/ TellsRoute(i) \/ CountIsGone(i)
  PROVE  LinesIInv'
  <1>1. /\ Ends(i) /\ faults' = faults /\ UNCHANGED lines /\ route[i].at \notin Flying
    BY DEF TellsDelegated, TellsRoute, CountIsGone, RouteAt, Flying
  <1>2. \A e \in told' : e \in told \/ IsTrue(e)
    <2>1. CASE TellsDelegated(i)
      <3>1. told' = told \cup {<<"route_marker_delegated">>}
        BY <2>1 DEF TellsDelegated, Tells
      <3>2. IsTrue(<<"route_marker_delegated">>)
        BY SilentRows, SilentIsTrue
      <3>3. QED
        BY <3>1, <3>2
    <2>2. CASE TellsRoute(i)
      <3>1. told' = told \cup {route[i].row}
        BY <2>2 DEF TellsRoute, Tells
      <3>2. IsTrue(route[i].row)
        BY LinesAre DEF OnCourse
      <3>3. QED
        BY <3>1, <3>2
    <2>3. CASE CountIsGone(i)
      BY <2>3 DEF CountIsGone, markers
    <2>4. QED
      BY <2>1, <2>2, <2>3
  <1>3. QED
    BY <1>1, <1>2, RouteEnds

LEMMA RouteIsStarted ==
  ASSUME LinesIInv, NEW i \in Procs, NEW type \in {"fix-now", "outstanding", "escalate"}, NEW c,
         RouteStarts(i, type, c)
  PROVE  LinesIInv'
  <1> DEFINE free(at) == [Free EXCEPT !.at = at]
             fix == Telling(<<"fix_now_logged">>)
  <1>1. UNCHANGED <<markers, lines>>
    BY DEF RouteStarts
  <1>2. \/ Begins(i, Free) \/ Begins(i, fix) \/ Begins(i, free("cap")) \/ Begins(i, free("raise"))
    BY DEF RouteStarts
  <1>3. \A at : /\ IsRoute(free(at)) /\ free(at).at = at /\ free(at).row = <<>>
    <2>1. \A at : WithAt(Free, at) = Job(at, <<>>, Nothing, Nothing, 0, <<>>, Nothing)
      BY FreeIs, FieldIn
    <2>2. \A at : /\ IsRoute(WithAt(Free, at)) /\ WithAt(Free, at).at = at
                  /\ WithAt(Free, at).row = <<>>
      BY <2>1, JobOf
    <2>3. QED
      BY <2>2 DEF WithAt
  <1>4. IsRoute(fix) /\ fix.at = "tell" /\ fix.row = <<"fix_now_logged">>
    BY TellingIs, JobOf
  <1> HIDE DEF free, fix
  <1>5. /\ Silent(fix.row) /\ Silent(Free.row) /\ \A at : Silent(free(at).row)
    BY <1>3, <1>4, FreeIs, SilentRows
  <1>6. {"tell", "cap", "raise", "free"} \cap Bound = {}
    BY DEF Bound, Owning
  <1>7. QED
    BY <1>1, <1>2, <1>3, <1>4, <1>5, <1>6, FreeIs, BeginsUnbound

LEMMA MarkerIsDelegated ==
  ASSUME LinesIInv, NEW i \in Procs, NEW r, NEW c, RouteMarkerStarts(i, r, c)
  PROVE  LinesIInv'
  <1> DEFINE job == [Free EXCEPT !.at = "delegated"]
  <1>1. /\ route[i].at = "free" /\ Goes(i, job) /\ flocks' = flocks
        /\ issues' = issues /\ plans' = plans /\ minted' = minted /\ told' = told
        /\ faults' = faults
    BY DEF RouteMarkerStarts, RouteAt, CreateStarts, Starts, markers, lines
  <1>2. minted' \in 0..MaxLines /\ minted <= minted' /\ faults' \in 0..MaxFaults
        /\ faults <= faults'
    BY <1>1, RangesStay
  <1>8. job = WithAt(Free, "delegated")
    BY DEF WithAt
  <1> HIDE DEF job
  <1>3. job = Job("delegated", <<>>, Nothing, Nothing, 0, <<>>, Nothing)
    BY <1>8, FreeIs, FieldIn
  <1>4. IsRoute(job) /\ job.at = "delegated" /\ job.row = <<>>
    BY <1>3, JobOf
  <1>5. job.at \notin Bound /\ IsTrue(job.row)
    BY <1>4, SilentRows, SilentIsTrue DEF Bound, Owning
  <1>6. route[i].at \notin Flying
    BY <1>1 DEF Flying
  <1>7. QED
    BY <1>1, <1>2, <1>4, <1>5, <1>6, GoesUnbound

LEMMA FileIsRaised ==
  ASSUME LinesIInv, NEW i \in Procs, RaisesFile(i)
  PROVE  LinesIInv'
  <1> DEFINE job == Telling(<<"escalation_triggered", minted + 1>>)
  <1>1. /\ route[i].at = "raise" /\ minted < MaxLines /\ minted' = minted + 1 /\ Goes(i, job)
        /\ flocks' = flocks /\ issues' = issues /\ plans' = plans /\ told' = told
        /\ faults' = faults
    BY DEF RaisesFile, RouteAt, markers, bounds
  <1>2. minted' \in 0..MaxLines /\ minted <= minted' /\ faults' \in 0..MaxFaults
        /\ faults <= faults'
    <2>1. minted \in 0..MaxLines /\ MaxLines \in Nat /\ faults \in 0..MaxFaults
          /\ faults <= faults
      BY RangesStay, RoutingAssumption
    <2>2. QED
      BY <1>1, <2>1
  <1>3. IsRoute(job) /\ job.at = "tell" /\ job.row = <<"escalation_triggered", minted + 1>>
    BY TellingIs, JobOf
  <1> HIDE DEF job
  <1>4. job.at \notin Bound /\ IsTrue(job.row)
    BY <1>3, SilentRows, SilentIsTrue DEF Bound, Owning
  <1>5. route[i].at \notin Flying
    BY <1>1 DEF Flying
  <1>6. QED
    BY <1>1, <1>2, <1>3, <1>4, <1>5, GoesUnbound

(* The steps that go through the counter.                                  *)
LEMMA RouteWithAt ==
  ASSUME LinesIInv, NEW i \in Procs, NEW at
  PROVE  /\ IsRoute(route[i]) /\ IsTrue(route[i].row) /\ IsRoute(WithAt(route[i], at))
         /\ WithAt(route[i], at)
              = Job(at, route[i].row, route[i].id, route[i].slug, route[i].n, route[i].copy,
                    route[i].inode)
  <1>1. IsRoute(route[i]) /\ IsTrue(route[i].row)
    BY LinesAre DEF Routes, OnCourse
  <1>2. route[i] = Job(route[i].at, route[i].row, route[i].id, route[i].slug, route[i].n,
                       route[i].copy, route[i].inode)
    BY <1>1, RouteIsJob
  <1>3. WithAt(route[i], at)
          = Job(at, route[i].row, route[i].id, route[i].slug, route[i].n, route[i].copy,
                route[i].inode)
    BY <1>2, FieldIn
  <1>4. IsRoute(WithAt(route[i], at))
    BY <1>3, JobOf
  <1>5. QED
    BY <1>1, <1>3, <1>4

LEMMA RouteIsAt ==
  ASSUME LinesIInv, NEW i \in Procs
  PROVE  /\ IsRoute(route[i]) /\ IsTrue(route[i].row)
         /\ \A at : /\ IsRoute([route[i] EXCEPT !.at = at])
                    /\ [route[i] EXCEPT !.at = at]
                         = Job(at, route[i].row, route[i].id, route[i].slug, route[i].n,
                               route[i].copy, route[i].inode)
  <1>1. \A at : /\ IsRoute(WithAt(route[i], at))
                /\ WithAt(route[i], at)
                     = Job(at, route[i].row, route[i].id, route[i].slug, route[i].n,
                           route[i].copy, route[i].inode)
    BY RouteWithAt
  <1>2. IsRoute(route[i]) /\ IsTrue(route[i].row)
    BY LinesAre DEF Routes, OnCourse
  <1>3. QED
    BY <1>1, <1>2 DEF WithAt

LEMMA CapOnCourse ==
  ASSUME LinesIInv, NEW i \in Procs, NEW cap, CapIsChecked(i, cap)
  PROVE  LinesIInv'
  <1> DEFINE job == [route[i] EXCEPT !.at = "append"]
  <1>1. /\ route[i].at = "cap" /\ (Goes(i, job) \/ Goes(i, Free))
        /\ flocks' = flocks /\ issues' = issues /\ plans' = plans /\ minted' = minted
        /\ told' = told /\ faults' = faults
    BY DEF CapIsChecked, RouteAt, GoesTo, lines, markers, bounds
  <1>2. minted' \in 0..MaxLines /\ minted <= minted' /\ faults' \in 0..MaxFaults
        /\ faults <= faults'
    BY <1>1, RangesStay
  <1>3. IsRoute(job) /\ job.at = "append" /\ job.row = route[i].row
    BY RouteIsAt, JobOf
  <1> HIDE DEF job
  <1>4. job.at \notin Bound /\ IsTrue(job.row) /\ Free.at \notin Bound /\ IsTrue(Free.row)
    BY <1>3, RouteIsAt, FreeIs, SilentRows, SilentIsTrue DEF Bound, Owning
  <1>5. route[i].at \notin Flying
    BY DEF CapIsChecked, RouteAt, Flying
  <1>6. Goes(i, job) \/ Goes(i, Free)
    BY DEF CapIsChecked, GoesTo, job
  <1>7. QED
    BY <1>1, <1>2, <1>3, <1>4, <1>5, <1>6, FreeIs, GoesUnbound

LEMMA ResetOnCourse ==
  ASSUME LinesIInv, NEW i \in Procs, ResetStarts(i)
  PROVE  LinesIInv'
  <1> DEFINE job == [Free EXCEPT !.at = "count", !.row = Reset]
  <1>1. Begins(i, job) /\ UNCHANGED <<markers, lines>>
    BY DEF ResetStarts
  <1>2. job = WithRow(WithAt(Free, "count"), Reset)
    BY DEF WithRow, WithAt
  <1> HIDE DEF job
  <1>3. job = Job("count", Reset, Nothing, Nothing, 0, <<>>, Nothing)
    BY <1>2, FreeIs, FieldIn
  <1>4. IsRoute(job) /\ job.at = "count" /\ job.row = Reset
    BY <1>3, JobOf
  <1>5. job.at \notin Bound /\ Silent(job.row)
    BY <1>4, SilentRows DEF Bound, Owning
  <1>6. QED
    BY <1>1, <1>4, <1>5, BeginsUnbound

LEMMA CountOnCourse ==
  ASSUME LinesIInv, NEW i \in Procs, CountReads(i) \/ CountFills(i) \/ CountReplaces(i)
  PROVE  LinesIInv'
  <1>1. /\ route[i].at \in {"count", "fill", "replace"}
        /\ flocks' = flocks /\ issues' = issues /\ plans' = plans /\ minted' = minted
        /\ told' = told /\ faults' = faults
    BY DEF CountReads, CountFills, CountReplaces, RouteAt, lines, markers, bounds
  <1>2. minted' \in 0..MaxLines /\ minted <= minted' /\ faults' \in 0..MaxFaults
        /\ faults <= faults'
    BY <1>1, RangesStay
  <1>3. route[i].at \notin Flying
    BY <1>1 DEF Flying
  <1>4. \E job : /\ Goes(i, job) /\ IsRoute(job) /\ job.row = route[i].row
                 /\ job.at \in {"fill", "replace", "tell"}
    <2>1. CASE CountReads(i)
      <3> DEFINE inode == IF tmp = Nothing THEN FreeInode ELSE tmp
                 n == IF IsReset(i) THEN 0 ELSE Count + 1
                 job == [route[i] EXCEPT !.at = "fill", !.inode = inode, !.n = n]
      <3>1. Goes(i, job)
        BY <2>1 DEF CountReads
      <3> HIDE DEF n, inode
      <3>2. job = WithN(WithInode(WithAt(route[i], "fill"), inode), n)
        BY DEF WithN, WithInode, WithAt
      <3> HIDE DEF job
      <3>3. job = Job("fill", route[i].row, route[i].id, route[i].slug, n, route[i].copy, inode)
        BY <3>2, RouteWithAt, FieldIn
      <3>4. IsRoute(job) /\ job.row = route[i].row /\ job.at = "fill"
        BY <3>3, JobOf
      <3>5. QED
        BY <3>1, <3>4
    <2>2. CASE CountFills(i)
      <3> DEFINE job == [route[i] EXCEPT !.at = "replace"]
      <3>1. Goes(i, job)
        BY <2>2 DEF CountFills, GoesTo
      <3>2. IsRoute(job) /\ job.row = route[i].row /\ job.at = "replace"
        BY RouteIsAt, JobOf
      <3>3. QED
        BY <3>1, <3>2
    <2>3. CASE CountReplaces(i)
      <3>1. Goes(i, Telling(route[i].row))
        BY <2>3 DEF CountReplaces
      <3>2. /\ IsRoute(Telling(route[i].row)) /\ Telling(route[i].row).at = "tell"
            /\ Telling(route[i].row).row = route[i].row
        BY TellingIs, JobOf
      <3>3. QED
        BY <3>1, <3>2
    <2>4. QED
      BY <2>1, <2>2, <2>3
  <1>5. PICK job : /\ Goes(i, job) /\ IsRoute(job) /\ job.row = route[i].row
                   /\ job.at \in {"fill", "replace", "tell"}
    BY <1>4
  <1>6. job.at \notin Bound /\ IsTrue(job.row)
    BY <1>5, RouteIsAt DEF Bound, Owning
  <1>7. QED
    BY <1>1, <1>2, <1>3, <1>5, <1>6, GoesUnbound

(* The lines as they are are a copy of themselves.                         *)
LEMMA LinesAsTheyAre ==
  ASSUME issues \in Seq(OneLine)
  PROVE  Stands(issues)
  BY DEF Stands

LEMMA AppendOnCourse ==
  ASSUME LinesIInv, NEW i \in Procs, AppendReads(i)
  PROVE  LinesIInv'
  <1> DEFINE job == [Free EXCEPT !.at = "append_write", !.id = minted + 1, !.copy = issues]
  <1>1. /\ route[i].at = "append" /\ minted < MaxLines /\ Locked("issues", i)
        /\ minted' = minted + 1 /\ Goes(i, job)
        /\ issues' = issues /\ plans' = plans /\ told' = told /\ faults' = faults
    BY DEF AppendReads, RouteAt, markers, bounds
  <1>2. job = WithCopy(WithId(WithAt(Free, "append_write"), minted + 1), issues)
    BY DEF WithCopy, WithId, WithAt
  <1> HIDE DEF job
  <1>3. job = Job("append_write", <<>>, minted + 1, Nothing, 0, issues, Nothing)
    BY <1>2, FreeIs, FieldIn
  <1>4. /\ IsRoute(job) /\ job.at = "append_write" /\ job.row = <<>> /\ job.id = minted + 1
        /\ job.copy = issues
    BY <1>3, JobOf
  <1>5. /\ Routes /\ Shapes /\ minted \in Nat /\ issues \in Seq(OneLine)
        /\ flocks \in [{"issues"} \cup Slugs -> Procs \cup {Nobody}]
    BY LinesAre
  <1>6. minted' \in 0..MaxLines /\ minted <= minted' /\ faults' \in 0..MaxFaults
        /\ faults <= faults'
    <2>1. minted \in 0..MaxLines /\ MaxLines \in Nat /\ faults \in 0..MaxFaults
          /\ faults <= faults
      BY RangesStay, RoutingAssumption
    <2>2. QED
      BY <1>1, <2>1
  <1>7. route'[i] = job
    BY <1>1, <1>4, <1>5, GoesIs
  <1>8. /\ flocks' \in [{"issues"} \cup Slugs -> Procs \cup {Nobody}] /\ flocks'["issues"] = i
        /\ \A g \in {"issues"} \cup Slugs, k \in Procs \ {i} : flocks[g] = k => flocks'[g] = k
    BY <1>1, <1>5, LockedIs
  <1>9. job.id \in 0..minted' /\ job.id \notin Ids
    <2>1. job.id \in 0..minted'
      BY <1>1, <1>4, <1>5
    <2>2. ASSUME NEW k \in DOMAIN issues
          PROVE  issues[k].id # minted + 1
      <3>1. issues[k] \in OneLine
        BY <1>5, ElementOf
      <3>2. issues[k].id \in Nat /\ issues[k].id <= minted
        BY <1>5, <3>1 DEF Shapes, OneLine
      <3>3. QED
        BY <1>5, <3>2
    <2>3. QED
      BY <1>4, <2>1, <2>2 DEF Ids
  <1>10. OnCourse(i)'
    <2>1. Locking(i)'
      BY <1>4, <1>7, <1>8 DEF Locking
    <2>2. Copying(i)'
      <3>1. Stands(issues)'
        <4>1. Stands(issues)
          BY <1>5, LinesAsTheyAre
        <4>2. QED
          BY <1>1, <4>1 DEF Stands
      <3>2. Stands(route[i].copy)'
        BY <1>1, <1>4, <1>7, <3>1 DEF Stands
      <3>3. Ids' = Ids
        BY <1>1 DEF Ids
      <3>4. QED
        BY <1>4, <1>7, <1>9, <3>2, <3>3 DEF Copying
    <2>3. Promoting(i)'
      BY <1>4, <1>7 DEF Promoting, Owning, Flying
    <2>4. IsTrue(route[i].row)'
      <3>1. Silent(route'[i].row)
        BY <1>4, <1>7, SilentRows
      <3>2. QED
        BY <3>1 DEF Silent, IsTrue
    <2>5. QED
      BY <2>1, <2>2, <2>3, <2>4 DEF OnCourse
  <1>11. job.at \notin Owning /\ route[i].at \notin Flying
    BY <1>1, <1>4 DEF Owning, Flying
  <1>12. QED
    BY <1>1, <1>4, <1>6, <1>8, <1>10, <1>11, LinesStand

(* A command that starts where it is bound to a plan, or to a line too.    *)
LEMMA BeginsBound ==
  ASSUME LinesIInv, NEW i \in Procs, NEW at, NEW id, NEW slug \in Slugs,
         Begins(i, Job(at, <<>>, id, slug, 0, <<>>, Nothing)), UNCHANGED <<markers, lines>>,
         at = "lesson" \/ (at = "mkdir" /\ id \in Ids)
  PROVE  LinesIInv'
  <1> DEFINE job == Job(at, <<>>, id, slug, 0, <<>>, Nothing)
  <1>1. /\ Goes(i, job) /\ route[i].at = "free" /\ faults' = faults /\ flocks' = flocks
        /\ issues' = issues /\ plans' = plans /\ minted' = minted /\ told' = told
    BY DEF Begins, RouteAt, markers, lines
  <1>2. minted' \in 0..MaxLines /\ minted <= minted' /\ faults' \in 0..MaxFaults
        /\ faults <= faults'
    BY <1>1, RangesStay
  <1>3. IsRoute(job) /\ job.at = at /\ job.row = <<>> /\ job.id = id /\ job.slug = slug
    BY JobOf
  <1> HIDE DEF job
  <1>4. Routes /\ flocks \in [{"issues"} \cup Slugs -> Procs \cup {Nobody}]
    BY LinesAre
  <1>5. route'[i] = job
    BY <1>1, <1>3, <1>4, GoesIs
  <1>6. OnCourse(i)'
    <2>1. Locking(i)' /\ Copying(i)'
      BY <1>3, <1>5 DEF Locking, Copying
    <2>2. Ids' = Ids
      BY <1>1 DEF Ids
    <2>3. Promoting(i)'
      BY <1>3, <1>5, <2>2 DEF Promoting, Owning, Flying
    <2>4. IsTrue(route[i].row)'
      <3>1. Silent(route'[i].row)
        BY <1>3, <1>5, SilentRows
      <3>2. QED
        BY <3>1 DEF Silent, IsTrue
    <2>5. QED
      BY <2>1, <2>3, <2>4 DEF OnCourse
  <1>7. job.at \notin Owning /\ route[i].at \notin Flying
    BY <1>1, <1>3 DEF Owning, Flying
  <1>8. /\ flocks' \in [{"issues"} \cup Slugs -> Procs \cup {Nobody}]
        /\ \A g \in {"issues"} \cup Slugs, k \in Procs \ {i} : flocks[g] = k => flocks'[g] = k
    BY <1>1, <1>4
  <1>9. QED
    BY <1>1, <1>2, <1>3, <1>6, <1>7, <1>8, LinesStand

LEMMA BeginsNothing ==
  ASSUME LinesIInv, NEW i \in Procs, Begins(i, Free), UNCHANGED <<markers, lines>>
  PROVE  LinesIInv'
  BY FreeIs, SilentRows, BeginsUnbound DEF Bound, Owning

LEMMA PromoteOnCourse ==
  ASSUME LinesIInv, NEW i \in Procs, NEW id \in Ids, NEW slug \in Slugs, NEW c,
         PromoteStarts(i, id, slug, c)
  PROVE  LinesIInv'
  <1> DEFINE job == [Free EXCEPT !.at = "mkdir", !.id = id, !.slug = slug]
  <1>1. (Begins(i, job) \/ Begins(i, Free)) /\ UNCHANGED <<markers, lines>>
    BY DEF PromoteStarts
  <1>2. job = WithSlug(WithId(WithAt(Free, "mkdir"), id), slug)
    BY DEF WithSlug, WithId, WithAt
  <1> HIDE DEF job
  <1>3. job = Job("mkdir", <<>>, id, slug, 0, <<>>, Nothing)
    BY <1>2, FreeIs, FieldIn
  <1>4. QED
    BY <1>1, <1>3, BeginsBound, BeginsNothing

LEMMA LessonOnCourse ==
  ASSUME LinesIInv, NEW i \in Procs, NEW slug \in Slugs, NEW complete,
         LessonStarts(i, slug, complete)
  PROVE  LinesIInv'
  <1> DEFINE job == [Free EXCEPT !.at = "lesson", !.slug = slug]
  <1>1. (Begins(i, job) \/ Begins(i, Free)) /\ UNCHANGED <<markers, lines>>
    BY DEF LessonStarts
  <1>2. job = WithSlug(WithAt(Free, "lesson"), slug)
    BY DEF WithSlug, WithAt
  <1> HIDE DEF job
  <1>3. job = Job("lesson", <<>>, Nothing, slug, 0, <<>>, Nothing)
    BY <1>2, FreeIs, FieldIn
  <1>4. QED
    BY <1>1, <1>3, BeginsBound, BeginsNothing

LEMMA PromoteReadsOnCourse ==
  ASSUME LinesIInv, NEW i \in Procs, PromoteReads(i)
  PROVE  LinesIInv'
  <1> DEFINE at == IF StillOpen(i) THEN "mark" ELSE "undo"
             job == [route[i] EXCEPT !.copy = issues, !.at = at]
  <1>1. /\ route[i].at = "promote" /\ Locked("issues", i) /\ Goes(i, job)
        /\ issues' = issues /\ plans' = plans /\ minted' = minted /\ told' = told
        /\ faults' = faults
    BY DEF PromoteReads, RouteAt, lines, markers, bounds
  <1>2. job = WithAt(WithCopy(route[i], issues), at)
    BY DEF WithCopy, WithAt
  <1>3. (at = "mark" /\ IsOpen(issues, route[i].id)) \/ at = "undo"
    BY DEF StillOpen
  <1> HIDE DEF job, at
  <1>4. IsRoute(route[i]) /\ OnCourse(i) /\ IsTrue(route[i].row)
    BY LinesAre DEF Routes, OnCourse
  <1>5. job = Job(at, route[i].row, route[i].id, route[i].slug, route[i].n, issues,
                  route[i].inode)
    <2>1. route[i] = Job(route[i].at, route[i].row, route[i].id, route[i].slug, route[i].n,
                         route[i].copy, route[i].inode)
      BY <1>4, RouteIsJob
    <2>2. WithCopy(route[i], issues)
            = Job(route[i].at, route[i].row, route[i].id, route[i].slug, route[i].n, issues,
                  route[i].inode)
      BY <2>1, FieldIn
    <2>3. QED
      BY <1>2, <2>2, FieldIn
  <1>6. /\ IsRoute(job) /\ job.at = at /\ job.row = route[i].row /\ job.id = route[i].id
        /\ job.slug = route[i].slug /\ job.copy = issues
    BY <1>5, JobOf
  <1>7. /\ Routes /\ issues \in Seq(OneLine)
        /\ flocks \in [{"issues"} \cup Slugs -> Procs \cup {Nobody}]
        /\ \A s \in Slugs : plans[s].lessons \in Nat
    BY LinesAre
  <1>8. route'[i] = job
    BY <1>1, <1>6, <1>7, GoesIs
  <1>9. /\ flocks' \in [{"issues"} \cup Slugs -> Procs \cup {Nobody}] /\ flocks'["issues"] = i
        /\ \A g \in {"issues"} \cup Slugs, k \in Procs \ {i} : flocks[g] = k => flocks'[g] = k
    BY <1>1, <1>7, LockedIs
  <1>10. Ids' = Ids
    BY <1>1 DEF Ids
  <1>11. OnCourse(i)'
    <2>1. Locking(i)'
      BY <1>3, <1>6, <1>8, <1>9 DEF Locking
    <2>2. Copying(i)'
      <3>1. Stands(issues)
        BY <1>7, LinesAsTheyAre
      <3>2. Stands(route[i].copy)'
        BY <1>1, <1>6, <1>8, <3>1 DEF Stands
      <3>3. at = "mark" => IsOpen(route[i].copy, route[i].id)'
        BY <1>3, <1>6, <1>8 DEF IsOpen
      <3>4. QED
        BY <1>3, <1>6, <1>8, <3>2, <3>3 DEF Copying
    <2>3. Promoting(i)'
      <3>1. /\ route[i].slug \in Slugs /\ route[i].id \in Ids
            /\ plans[route[i].slug].there /\ Unnamed(route[i].slug)
            /\ plans[route[i].slug].recon = route[i].id
        BY <1>1, <1>4 DEF OnCourse, Promoting, Owning, Flying
      <3>2. Unnamed(route[i].slug)'
        BY <1>1, <1>6, <1>8, <3>1 DEF Unnamed, Names
      <3>3. QED
        BY <1>1, <1>3, <1>6, <1>8, <1>10, <3>1, <3>2 DEF Promoting
    <2>4. IsTrue(route[i].row)'
      <3>1. \A e : IsTrue(e) => IsTrue(e)'
        BY <1>1, <1>10 DEF IsTrue
      <3>2. QED
        BY <1>1, <1>4, <1>6, <1>8, <1>10 DEF IsTrue
    <2>5. QED
      BY <2>1, <2>2, <2>3, <2>4 DEF OnCourse
  <1>12. route[i].at \in Owning /\ route[i].at \in Flying /\ job.at \in Flying
    BY <1>1, <1>3, <1>6 DEF Owning, Flying
  <1>13. minted' \in 0..MaxLines /\ minted <= minted' /\ faults' \in 0..MaxFaults
         /\ faults <= faults'
    BY <1>1, RangesStay
  <1>14. QED
    BY <1>1, <1>6, <1>9, <1>11, <1>12, <1>13, LinesStand

(* A plan with one of its fields written.                                  *)
Remade(p, x) == [p EXCEPT !.there = x]
Entered(p, x) == [p EXCEPT !.used = x]
Reconned(p, x) == [p EXCEPT !.recon = x]
Taught(p, x) == [p EXCEPT !.lessons = x]

LEMMA RemadeIs ==
  ASSUME NEW p \in OnePlan, NEW x \in BOOLEAN
  PROVE  /\ Remade(p, x) \in OnePlan /\ Remade(p, x).there = x
         /\ Remade(p, x).used = p.used
         /\ Remade(p, x).recon = p.recon
         /\ Remade(p, x).lessons = p.lessons
  BY DEF Remade, OnePlan

LEMMA MadeIs ==
  ASSUME NEW p \in OnePlan
  PROVE  /\ Remade(p, TRUE) \in OnePlan /\ Remade(p, TRUE).there = TRUE
         /\ Remade(p, TRUE).used = p.used
         /\ Remade(p, TRUE).recon = p.recon
         /\ Remade(p, TRUE).lessons = p.lessons
  BY DEF Remade, OnePlan

LEMMA EnteredIs ==
  ASSUME NEW p \in OnePlan
  PROVE  /\ Entered(p, TRUE) \in OnePlan /\ Entered(p, TRUE).used = TRUE
         /\ Entered(p, TRUE).there = p.there
         /\ Entered(p, TRUE).recon = p.recon
         /\ Entered(p, TRUE).lessons = p.lessons
  BY DEF Entered, OnePlan

LEMMA ReconnedIs ==
  ASSUME NEW p \in OnePlan, NEW x \in (Nat \cup {Nothing})
  PROVE  /\ Reconned(p, x) \in OnePlan /\ Reconned(p, x).recon = x
         /\ Reconned(p, x).there = p.there
         /\ Reconned(p, x).used = p.used
         /\ Reconned(p, x).lessons = p.lessons
  BY DEF Reconned, OnePlan

LEMMA TaughtIs ==
  ASSUME NEW p \in OnePlan, NEW x \in Nat
  PROVE  /\ Taught(p, x) \in OnePlan /\ Taught(p, x).lessons = x
         /\ Taught(p, x).there = p.there
         /\ Taught(p, x).used = p.used
         /\ Taught(p, x).recon = p.recon
  BY DEF Taught, OnePlan

LEMMA PlanPut ==
  ASSUME NEW ps \in [Slugs -> OnePlan], NEW s \in Slugs, NEW p
  PROVE  [ps EXCEPT ![s] = p][s] = p
  OBVIOUS

LEMMA PlanPutTwice ==
  ASSUME NEW ps \in [Slugs -> OnePlan], NEW s \in Slugs, NEW p, NEW q
  PROVE  [[ps EXCEPT ![s] = p] EXCEPT ![s] = q] = [ps EXCEPT ![s] = q]
  OBVIOUS

(* A step that writes one plan and no line: what the plan must be, what the *)
(* other commands rely on, and where the command may go.                    *)
Fits(s, p) ==
  /\ p \in OnePlan /\ (~p.there => p.recon = Nothing) /\ p.recon \in Ids \cup {Nothing}
  /\ plans[s].lessons <= p.lessons /\ (Unnamed(s) \/ p.recon = plans[s].recon)
Spares(i, s, p) ==
  /\ \A k \in Procs \ {i} : route[k].at \in Owning /\ route[k].slug = s =>
        p.there /\ p.recon = plans[s].recon
  /\ \A k \in Procs \ {i} : route[k].at = "lesson_write" /\ route[k].slug = s =>
        p.lessons = plans[s].lessons
Leads(i, job, s, p) ==
  /\ p.recon \in {plans[s].recon, Nothing} \/ (job.at \in Flying /\ job.slug = s)
  /\ route[i].at \in Flying =>
        \/ job.at \in Flying /\ job.slug = route[i].slug
        \/ route[i].slug = s /\ p.recon = Nothing
  /\ job.at \in Owning =>
        \/ route[i].at \in Owning /\ job.slug = route[i].slug
        \/ \A k \in Procs \ {i} : route[k].at \in Owning => route[k].slug # job.slug
FlocksKept(i) ==
  /\ flocks' \in [{"issues"} \cup Slugs -> Procs \cup {Nobody}]
  /\ \A g \in {"issues"} \cup Slugs, k \in Procs \ {i} : flocks[g] = k => flocks'[g] = k

LEMMA PlanIsWritten ==
  ASSUME LinesIInv, NEW i \in Procs, NEW job, IsRoute(job), Goes(i, job),
         NEW s \in Slugs, NEW p, plans' = [plans EXCEPT ![s] = p],
         issues' = issues, minted' = minted, faults' = faults, told' = told,
         FlocksKept(i), Fits(s, p), Spares(i, s, p), Leads(i, job, s, p), OnCourse(i)'
  PROVE  LinesIInv'
  <1>p. /\ p \in OnePlan /\ (~p.there => p.recon = Nothing) /\ p.recon \in Ids \cup {Nothing}
        /\ plans[s].lessons <= p.lessons /\ (Unnamed(s) \/ p.recon = plans[s].recon)
    BY DEF Fits
  <1>k. /\ \A k \in Procs \ {i} : route[k].at \in Owning /\ route[k].slug = s =>
             p.there /\ p.recon = plans[s].recon
        /\ \A k \in Procs \ {i} : route[k].at = "lesson_write" /\ route[k].slug = s =>
             p.lessons = plans[s].lessons
    BY DEF Spares
  <1>j. /\ p.recon \in {plans[s].recon, Nothing} \/ (job.at \in Flying /\ job.slug = s)
        /\ route[i].at \in Flying =>
             \/ job.at \in Flying /\ job.slug = route[i].slug
             \/ route[i].slug = s /\ p.recon = Nothing
        /\ job.at \in Owning =>
             \/ route[i].at \in Owning /\ job.slug = route[i].slug
             \/ \A k \in Procs \ {i} : route[k].at \in Owning => route[k].slug # job.slug
    BY DEF Leads
  <1>f. /\ flocks' \in [{"issues"} \cup Slugs -> Procs \cup {Nobody}]
        /\ \A g \in {"issues"} \cup Slugs, k \in Procs \ {i} : flocks[g] = k => flocks'[g] = k
    BY DEF FlocksKept
  <1>1. /\ Routes /\ Shapes /\ Recons /\ OwnersApart /\ PlansCost
        /\ (\A e \in told : IsTrue(e)) /\ (\A k \in Procs : OnCourse(k))
        /\ minted \in Nat /\ faults \in Nat /\ plans \in [Slugs -> OnePlan]
        /\ \A t \in Slugs : plans[t].lessons \in Nat
    BY LinesAre
  <1>2. /\ Routes' /\ route'[i] = job /\ \A k \in Procs : k # i => route'[k] = route[k]
    BY <1>1, GoesIs
  <1>3. /\ plans'[s] = p /\ plans' \in [Slugs -> OnePlan]
        /\ \A t \in Slugs : t # s => plans'[t] = plans[t]
    BY <1>p, <1>1
  <1>4. Ids' = Ids /\ \A t : Unnamed(t)' = Unnamed(t)
    BY DEF Ids, Unnamed, Names
  <1>5. \A e : IsTrue(e) => IsTrue(e)'
    <2>1. p.lessons \in Nat
      BY <1>p DEF OnePlan
    <2>2. \A t \in Slugs : plans[t].lessons \in Nat /\ plans'[t].lessons \in Nat
                          /\ plans[t].lessons <= plans'[t].lessons
      BY <1>p, <1>1, <1>3, <2>1
    <2>3. QED
      BY <1>4, <2>2, TruthStays
  <1>6. ASSUME NEW k \in Procs, k # i
        PROVE  OnCourse(k)'
    <2>1. OnCourse(k) /\ route'[k] = route[k] /\ k \in Procs \ {i}
      BY <1>1, <1>2, <1>6
    <2>2. \A f \in {"issues"} \cup Slugs : flocks[f] = k => flocks'[f] = k
      BY <1>f, <2>1
    <2>3. /\ route[k].at \in {"append_write", "mark"} => Stands(route[k].copy)
          /\ route[k].at = "append_write" => route[k].id \notin Ids
          /\ route[k].at \in Owning =>
               /\ route[k].slug \in Slugs
               /\ plans[route[k].slug].there /\ Unnamed(route[k].slug)
          /\ route[k].at = "lesson_write" => route[k].slug \in Slugs
      BY <2>1 DEF OnCourse, Copying, Promoting, Locking
    <2>4. route[k].at \in {"append_write", "mark"} => Stands(route[k].copy)'
      <3>1. Stands(route[k].copy)' = Stands(route[k].copy)
        BY <2>1 DEF Stands
      <3>2. QED
        BY <2>3, <3>1
    <2>5. route[k].at \in Owning => Unnamed(route[k].slug)'
      <3>1. Unnamed(route[k].slug)' = Unnamed(route[k].slug)
        BY <2>1 DEF Unnamed, Names
      <3>2. QED
        BY <2>3, <3>1
    <2>6. route[k].at \in Owning =>
            /\ plans'[route[k].slug].there
            /\ plans'[route[k].slug].recon = plans[route[k].slug].recon
      BY <1>k, <1>3, <2>1, <2>3
    <2>7. route[k].at = "lesson_write" =>
            plans'[route[k].slug].lessons = plans[route[k].slug].lessons
      BY <1>k, <1>3, <2>1, <2>3
    <2>8. minted' \in Nat /\ minted <= minted'
      BY <1>1
    <2>9. QED
      BY <1>1, <1>4, <1>5, <2>1, <2>2, <2>3, <2>4, <2>5, <2>6, <2>7, <2>8, StaysOnCourse
  <1>7. Shapes'
    BY <1>p, <1>f, <1>1, <1>3 DEF Shapes
  <1>8. Recons'
    <2>1. ASSUME NEW t \in Slugs
          PROVE  /\ ~plans'[t].there => plans'[t].recon = Nothing
                 /\ plans'[t].recon \in Ids \cup {Nothing}
      BY <1>p, <1>1, <1>3 DEF Recons
    <2>2. ASSUME NEW k \in DOMAIN issues, NEW t \in Slugs, Names(issues[k], t)
          PROVE  plans'[t].recon = issues[k].id
      <3>1. plans[t].recon = issues[k].id
        BY <1>1, <2>2 DEF Recons
      <3>2. t = s => ~Unnamed(s)
        BY <2>2 DEF Unnamed
      <3>3. QED
        BY <1>p, <1>3, <3>1, <3>2
    <2>3. QED
      BY <1>4, <2>1, <2>2 DEF Recons, Names
  <1>9. OwnersApart'
    <2>1. ASSUME NEW k \in Procs, NEW m \in Procs, k # m,
                 route'[k].at \in Owning, route'[m].at \in Owning,
                 route'[k].slug = route'[m].slug
          PROVE  FALSE
      <3>1. CASE k # i /\ m # i
        BY <1>j, <1>1, <1>2, <2>1, <3>1 DEF OwnersApart
      <3>2. CASE k = i
        BY <1>j, <1>1, <1>2, <2>1, <3>2 DEF OwnersApart
      <3>3. CASE m = i
        BY <1>j, <1>1, <1>2, <2>1, <3>3 DEF OwnersApart
      <3>4. QED
        BY <3>1, <3>2, <3>3
    <2>2. QED
      BY <2>1 DEF OwnersApart
  <1>10. PlansCost'
    <2>1. ASSUME NEW t \in StuckPlans'
          PROVE  t \in StuckPlans
      <3>1. /\ t \in Slugs /\ plans'[t].recon # Nothing /\ Unnamed(t)
            /\ \A k \in Procs : route'[k].at \in Flying => route'[k].slug # t
        BY <1>4, <2>1 DEF StuckPlans
      <3>2. plans[t].recon # Nothing
        BY <1>p, <1>j, <1>2, <1>3, <3>1
      <3>3. \A k \in Procs : route[k].at \in Flying => route[k].slug # t
        BY <1>p, <1>j, <1>2, <1>3, <3>1
      <3>4. QED
        BY <3>1, <3>2, <3>3 DEF StuckPlans
    <2>2. QED
      BY <1>1, <2>1, PlansGrow
  <1>11. \A e \in told' : IsTrue(e)'
    BY <1>1, <1>5
  <1>12. QED
    BY <1>2, <1>6, <1>7, <1>8, <1>9, <1>10, <1>11 DEF LinesIInv

LEMMA PlanOnCourse ==
  ASSUME LinesIInv, NEW i \in Procs, MakesPlan(i)
  PROVE  LinesIInv'
  <1> DEFINE s == route[i].slug
             p == Remade(plans[s], TRUE)
             job == [route[i] EXCEPT !.at = "recon"]
  <1>1. /\ route[i].at = "mkdir" /\ flocks' = flocks /\ issues' = issues /\ minted' = minted
        /\ told' = told /\ faults' = faults
        /\ \/ plans[s].there /\ Goes(i, Free) /\ plans' = plans
           \/ ~plans[s].there /\ Goes(i, job) /\ plans' = [plans EXCEPT ![s] = p]
    BY DEF MakesPlan, RouteAt, GoesTo, Slug, Remade, markers, bounds
  <1>2. /\ Routes /\ Recons /\ OnCourse(i) /\ plans \in [Slugs -> OnePlan]
        /\ flocks \in [{"issues"} \cup Slugs -> Procs \cup {Nobody}] /\ issues \in Seq(OneLine)
        /\ \A k \in Procs : OnCourse(k)
    BY LinesAre
  <1>3. s \in Slugs /\ route[i].id \in Ids
    BY <1>1, <1>2 DEF OnCourse, Promoting
  <1>4. IsRoute(job) /\ job = Job("recon", route[i].row, route[i].id, s, route[i].n,
                                  route[i].copy, route[i].inode)
    BY RouteIsAt
  <1> HIDE DEF job
  <1>5. /\ job.at = "recon" /\ job.row = route[i].row /\ job.id = route[i].id /\ job.slug = s
    BY <1>4, JobOf
  <1>6. plans[s] \in OnePlan
    BY <1>2, <1>3
  <1> HIDE DEF p
  <1>9. /\ p.there = TRUE /\ p.used = plans[s].used /\ p.recon = plans[s].recon
        /\ p.lessons = plans[s].lessons /\ p \in OnePlan
    BY <1>6, MadeIs DEF p
  <1>11. CASE plans[s].there /\ Goes(i, Free) /\ plans' = plans
    <2>1. minted' \in 0..MaxLines /\ minted <= minted' /\ faults' \in 0..MaxFaults
          /\ faults <= faults'
      BY <1>1, RangesStay
    <2>2. IsRoute(Free) /\ Free.at \notin Bound /\ IsTrue(Free.row) /\ route[i].at \notin Flying
      BY <1>1, FreeIs, SilentRows, SilentIsTrue DEF Bound, Owning, Flying
    <2>3. QED
      BY <1>1, <1>11, <2>1, <2>2, GoesUnbound
  <1>12. CASE ~plans[s].there /\ Goes(i, job) /\ plans' = [plans EXCEPT ![s] = p]
    <2>1. plans[s].recon = Nothing
      BY <1>2, <1>3, <1>12 DEF Recons
    <2>2. Unnamed(s)
      <3>1. SUFFICES ASSUME NEW k \in DOMAIN issues, Names(issues[k], s)
                     PROVE  FALSE
        BY DEF Unnamed
      <3>2. plans[s].recon = issues[k].id
        BY <1>2, <1>3, <3>1 DEF Recons
      <3>3. issues[k] \in OneLine
        BY <1>2, ElementOf
      <3>4. issues[k].id \in Nat
        BY <3>3 DEF OneLine
      <3>5. QED
        BY <2>1, <3>2, <3>4, RoutingAssumption
    <2>3. \A k \in Procs \ {i} : route[k].at \in Owning => route[k].slug # s
      BY <1>2, <1>12 DEF OnCourse, Promoting
    <2>4. route'[i] = job /\ plans'[s] = p
      BY <1>2, <1>3, <1>4, <1>12, GoesIs
    <2>5. Ids' = Ids
      BY <1>1 DEF Ids
    <2>6. OnCourse(i)'
      <3>1. Locking(i)' /\ Copying(i)'
        BY <1>5, <2>4 DEF Locking, Copying
      <3>2. Unnamed(route[i].slug)'
        BY <1>1, <1>5, <2>2, <2>4 DEF Unnamed, Names
      <3>3. Promoting(i)'
        BY <1>3, <1>5, <1>9, <2>1, <2>4, <2>5, <3>2 DEF Promoting, Flying
      <3>4. IsTrue(route[i].row)'
        <4>1. IsTrue(route[i].row)
          BY RouteIsAt
        <4>2. \A t \in Slugs : plans'[t].lessons = plans[t].lessons
          BY <1>2, <1>9, <1>12
        <4>3. QED
          BY <1>5, <2>4, <2>5, <4>1, <4>2 DEF IsTrue
      <3>5. QED
        BY <3>1, <3>3, <3>4 DEF OnCourse
    <2>7. p.recon \in Ids \cup {Nothing} /\ plans[s].lessons <= p.lessons
      BY <1>6, <1>9, <2>1 DEF OnePlan
    <2>8. route[i].at \notin Flying
      BY <1>1 DEF Flying
    <2>9. FlocksKept(i)
      BY <1>1, <1>2 DEF FlocksKept
    <2>10. Fits(s, p)
      BY <1>9, <2>7 DEF Fits
    <2>11. Spares(i, s, p)
      BY <1>9 DEF Spares
    <2>12. Leads(i, job, s, p)
      BY <1>5, <1>9, <2>3, <2>8 DEF Leads
    <2>13. QED
      BY <1>1, <1>3, <1>4, <1>12, <2>6, <2>9, <2>10, <2>11, <2>12, PlanIsWritten
  <1>13. QED
    BY <1>1, <1>11, <1>12

(* What the owner of a plan may rely on.                                   *)
LEMMA OwnerIs ==
  ASSUME LinesIInv, NEW i \in Procs, route[i].at \in Owning
  PROVE  /\ route[i].slug \in Slugs /\ route[i].id \in Ids /\ plans[route[i].slug] \in OnePlan
         /\ plans[route[i].slug].there /\ Unnamed(route[i].slug)
         /\ \A k \in Procs \ {i} : route[k].at \in Owning => route[k].slug # route[i].slug
  <1>1. OnCourse(i) /\ OwnersApart /\ plans \in [Slugs -> OnePlan]
    BY LinesAre
  <1>2. QED
    BY <1>1 DEF OnCourse, Promoting, OwnersApart

LEMMA ReconOnCourse ==
  ASSUME LinesIInv, NEW i \in Procs, WritesRecon(i)
  PROVE  LinesIInv'
  <1> DEFINE s == route[i].slug
             p == Reconned(plans[s], route[i].id)
             job == [route[i] EXCEPT !.at = "promote"]
  <1>1. /\ route[i].at = "recon" /\ flocks' = flocks /\ issues' = issues /\ minted' = minted
        /\ told' = told /\ faults' = faults
        /\ Goes(i, job) /\ plans' = [plans EXCEPT ![s] = p]
    BY DEF WritesRecon, RouteAt, GoesTo, Slug, Reconned, markers, bounds
  <1>2. /\ Routes /\ plans \in [Slugs -> OnePlan] /\ issues \in Seq(OneLine)
        /\ flocks \in [{"issues"} \cup Slugs -> Procs \cup {Nobody}]
    BY LinesAre
  <1>3. /\ s \in Slugs /\ route[i].id \in Ids /\ plans[s] \in OnePlan
        /\ plans[s].there /\ Unnamed(s)
        /\ \A k \in Procs \ {i} : route[k].at \in Owning => route[k].slug # s
    BY <1>1, OwnerIs DEF Owning
  <1>4. IsRoute(job) /\ job = Job("promote", route[i].row, route[i].id, s, route[i].n,
                                  route[i].copy, route[i].inode)
    BY RouteIsAt
  <1> HIDE DEF job
  <1>5. /\ job.at = "promote" /\ job.row = route[i].row /\ job.id = route[i].id /\ job.slug = s
    BY <1>4, JobOf
  <1>9. route[i].id \in Nat
    <2>1. PICK k \in DOMAIN issues : issues[k].id = route[i].id
      BY <1>3 DEF Ids
    <2>2. issues[k] \in OneLine
      BY <1>2, ElementOf
    <2>3. QED
      BY <2>1, <2>2 DEF OneLine
  <1> HIDE DEF p
  <1>8. /\ p.there = plans[s].there /\ p.used = plans[s].used /\ p.recon = route[i].id
        /\ p.lessons = plans[s].lessons /\ p \in OnePlan
    BY <1>3, <1>9, ReconnedIs DEF p
  <1>11. route'[i] = job /\ plans'[s] = p
    BY <1>1, <1>2, <1>3, <1>4, GoesIs
  <1>12. Ids' = Ids
    BY <1>1 DEF Ids
  <1>13. OnCourse(i)'
    <2>1. Locking(i)' /\ Copying(i)'
      BY <1>5, <1>11 DEF Locking, Copying
    <2>2. Unnamed(route[i].slug)'
      BY <1>1, <1>3, <1>5, <1>11 DEF Unnamed, Names
    <2>3. Promoting(i)'
      BY <1>3, <1>5, <1>8, <1>11, <1>12, <2>2 DEF Promoting
    <2>4. IsTrue(route[i].row)'
      <3>1. IsTrue(route[i].row)
        BY RouteIsAt
      <3>2. \A t \in Slugs : plans'[t].lessons = plans[t].lessons
        BY <1>1, <1>2, <1>8
      <3>3. QED
        BY <1>5, <1>11, <1>12, <3>1, <3>2 DEF IsTrue
    <2>5. QED
      BY <2>1, <2>3, <2>4 DEF OnCourse
  <1>14. plans[s].lessons <= p.lessons
    BY <1>3, <1>8 DEF OnePlan
  <1>15. route[i].at \notin Flying /\ job.at \in Flying
    BY <1>1, <1>5 DEF Flying
  <1>16. \A k \in Procs \ {i} : route[k].at = "lesson_write" /\ route[k].slug = s =>
           p.lessons = plans[s].lessons
    BY <1>8
  <1>17. p.recon \in Ids \cup {Nothing} /\ (~p.there => p.recon = Nothing)
    BY <1>3, <1>8
  <1>18. FlocksKept(i)
    BY <1>1, <1>2 DEF FlocksKept
  <1>19. Fits(s, p)
    BY <1>3, <1>8, <1>14, <1>17 DEF Fits
  <1>20. Spares(i, s, p)
    BY <1>3, <1>16 DEF Spares
  <1>21. Leads(i, job, s, p)
    BY <1>3, <1>5, <1>15 DEF Leads
  <1>22. QED
    BY <1>1, <1>3, <1>4, <1>13, <1>18, <1>19, <1>20, <1>21, PlanIsWritten

LEMMA UndoOnCourse ==
  ASSUME LinesIInv, NEW i \in Procs, UndoesPlan(i)
  PROVE  LinesIInv'
  <1> DEFINE s == route[i].slug
             q == Reconned(plans[s], Nothing)
             p == Remade(q, plans[s].used)
  <1>1. /\ route[i].at = "undo" /\ Goes(i, Free) /\ Unlocks(i)
        /\ issues' = issues /\ minted' = minted /\ told' = told /\ faults' = faults
    BY DEF UndoesPlan, RouteAt, Ends, markers
  <1>2. /\ Routes /\ plans \in [Slugs -> OnePlan]
        /\ flocks \in [{"issues"} \cup Slugs -> Procs \cup {Nobody}]
    BY LinesAre
  <1>3. /\ s \in Slugs /\ plans[s] \in OnePlan /\ Unnamed(s)
        /\ \A k \in Procs \ {i} : route[k].at \in Owning => route[k].slug # s
    BY <1>1, OwnerIs DEF Owning
  <1>4. plans' = [plans EXCEPT ![s] = p]
    <2> DEFINE ps == [plans EXCEPT ![s] = q]
    <2>1. plans' = [ps EXCEPT ![s] = Remade(ps[s], plans[s].used)]
      BY DEF UndoesPlan, Slug, Reconned, Remade
    <2>2. ps[s] = q
      BY <1>2, <1>3, PlanPut
    <2> HIDE DEF q
    <2>3. [ps EXCEPT ![s] = p] = [plans EXCEPT ![s] = p]
      BY <1>2, <1>3, PlanPutTwice
    <2>4. QED
      BY <2>1, <2>2, <2>3
  <1> HIDE DEF p
  <1>5. /\ q.recon = Nothing /\ q.lessons = plans[s].lessons /\ q \in OnePlan
    BY <1>3, ReconnedIs
  <1> HIDE DEF q
  <1>6. plans[s].used \in BOOLEAN /\ plans[s].lessons \in Nat
    BY <1>3 DEF OnePlan
  <1>7. p.recon = Nothing /\ p.lessons = plans[s].lessons /\ p \in OnePlan
    BY <1>5, <1>6, RemadeIs DEF p
  <1>9. /\ flocks' \in [{"issues"} \cup Slugs -> Procs \cup {Nobody}]
        /\ \A g \in {"issues"} \cup Slugs, k \in Procs \ {i} : flocks[g] = k => flocks'[g] = k
    BY <1>1, <1>2, UnlocksIs
  <1>10. OnCourse(i)'
    <2>1. route'[i] = Free
      BY <1>1, <1>2, FreeIs, GoesIs
    <2>2. Locking(i)' /\ Copying(i)' /\ Promoting(i)'
      BY <2>1, FreeIs DEF Locking, Copying, Promoting, Owning, Flying
    <2>3. IsTrue(route[i].row)'
      <3>1. Silent(route'[i].row)
        BY <2>1, FreeIs, SilentRows
      <3>2. QED
        BY <3>1 DEF Silent, IsTrue
    <2>4. QED
      BY <2>2, <2>3 DEF OnCourse
  <1>11. plans[s].lessons <= p.lessons
    BY <1>3, <1>7 DEF OnePlan
  <1>12. Free.at \notin Owning
    BY FreeIs DEF Owning
  <1>13. FlocksKept(i)
    BY <1>9 DEF FlocksKept
  <1>14. Fits(s, p)
    BY <1>3, <1>7, <1>11 DEF Fits
  <1>15. Spares(i, s, p)
    BY <1>3, <1>7 DEF Spares
  <1>16. Leads(i, Free, s, p)
    BY <1>7, <1>12 DEF Leads
  <1>17. QED
    BY <1>1, <1>3, <1>4, <1>10, <1>13, <1>14, <1>15, <1>16, FreeIs, PlanIsWritten

LEMMA LessonReadOnCourse ==
  ASSUME LinesIInv, NEW i \in Procs, LessonReads(i)
  PROVE  LinesIInv'
  <1> DEFINE s == route[i].slug
             q == Remade(plans[s], TRUE)
             p == Entered(q, TRUE)
             job == [route[i] EXCEPT !.at = "lesson_write", !.n = plans[s].lessons]
  <1>1. /\ route[i].at = "lesson" /\ Goes(i, job) /\ Locked(s, i)
        /\ issues' = issues /\ minted' = minted /\ told' = told /\ faults' = faults
    BY DEF LessonReads, RouteAt, Slug, markers, bounds
  <1>2. /\ Routes /\ Recons /\ plans \in [Slugs -> OnePlan] /\ OnCourse(i)
        /\ flocks \in [{"issues"} \cup Slugs -> Procs \cup {Nobody}]
    BY LinesAre
  <1>3. s \in Slugs /\ plans[s] \in OnePlan
    BY <1>1, <1>2 DEF OnCourse, Locking
  <1>4. plans' = [plans EXCEPT ![s] = p]
    <2> DEFINE ps == [plans EXCEPT ![s] = q]
    <2>1. plans' = [ps EXCEPT ![s] = Entered(ps[s], TRUE)]
      BY DEF LessonReads, Slug, Entered, Remade
    <2>2. ps[s] = q
      BY <1>2, <1>3, PlanPut
    <2> HIDE DEF q
    <2>3. [ps EXCEPT ![s] = p] = [plans EXCEPT ![s] = p]
      BY <1>2, <1>3, PlanPutTwice
    <2>4. QED
      BY <2>1, <2>2, <2>3
  <1> HIDE DEF p
  <1>5. q.recon = plans[s].recon /\ q.lessons = plans[s].lessons /\ q.there = TRUE
        /\ q \in OnePlan
    BY <1>3, MadeIs
  <1> HIDE DEF q
  <1>7. p.there = TRUE /\ p.recon = plans[s].recon /\ p.lessons = plans[s].lessons
        /\ p \in OnePlan
    BY <1>5, EnteredIs DEF p
  <1>9. /\ flocks' \in [{"issues"} \cup Slugs -> Procs \cup {Nobody}] /\ flocks'[s] = i
        /\ \A g \in {"issues"} \cup Slugs, k \in Procs \ {i} : flocks[g] = k => flocks'[g] = k
    BY <1>1, <1>2, <1>3, LockedIs
  <1>10. job = Job("lesson_write", route[i].row, route[i].id, s, plans[s].lessons,
                   route[i].copy, route[i].inode)
    <2>1. job = WithN(WithAt(route[i], "lesson_write"), plans[s].lessons)
      BY DEF WithN, WithAt
    <2> HIDE DEF job
    <2>2. QED
      BY <2>1, RouteWithAt, FieldIn
  <1> HIDE DEF job
  <1>11. /\ IsRoute(job) /\ job.at = "lesson_write" /\ job.row = route[i].row /\ job.slug = s
         /\ job.n = plans[s].lessons
    BY <1>10, JobOf
  <1>12. route'[i] = job /\ plans'[s] = p
    BY <1>1, <1>2, <1>3, <1>4, <1>11, GoesIs
  <1>13. OnCourse(i)'
    <2>1. Locking(i)'
      BY <1>3, <1>7, <1>9, <1>11, <1>12 DEF Locking
    <2>2. Copying(i)' /\ Promoting(i)'
      BY <1>11, <1>12 DEF Copying, Promoting, Owning, Flying
    <2>3. IsTrue(route[i].row)'
      <3>1. IsTrue(route[i].row)
        BY RouteIsAt
      <3>2. \A t \in Slugs : plans'[t].lessons = plans[t].lessons
        BY <1>2, <1>4, <1>7
      <3>3. Ids' = Ids
        BY <1>1 DEF Ids
      <3>4. QED
        BY <1>11, <1>12, <3>1, <3>2, <3>3 DEF IsTrue
    <2>4. QED
      BY <2>1, <2>2, <2>3 DEF OnCourse
  <1>14. plans[s].lessons <= p.lessons
    BY <1>3, <1>7 DEF OnePlan
  <1>15. p.recon \in Ids \cup {Nothing}
    BY <1>2, <1>3, <1>7 DEF Recons
  <1>16. job.at \notin Owning /\ route[i].at \notin Flying
    BY <1>1, <1>11 DEF Owning, Flying
  <1>17. FlocksKept(i)
    BY <1>9 DEF FlocksKept
  <1>18. Fits(s, p)
    BY <1>7, <1>14, <1>15 DEF Fits
  <1>19. Spares(i, s, p)
    BY <1>7 DEF Spares
  <1>20. Leads(i, job, s, p)
    BY <1>7, <1>16 DEF Leads
  <1>21. QED
    BY <1>1, <1>3, <1>4, <1>11, <1>13, <1>17, <1>18, <1>19, <1>20, PlanIsWritten

LEMMA LessonWriteOnCourse ==
  ASSUME LinesIInv, NEW i \in Procs, LessonWrites(i)
  PROVE  LinesIInv'
  <1> DEFINE s == route[i].slug
             m == route[i].n + 1
             p == Taught(plans[s], m)
             job == Telling(LessonAdded(m, s))
  <1>1. /\ route[i].at = "lesson_write" /\ Goes(i, job) /\ Unlocks(i)
        /\ plans' = [plans EXCEPT ![s] = p]
        /\ issues' = issues /\ minted' = minted /\ told' = told /\ faults' = faults
    BY DEF LessonWrites, RouteAt, Slug, Taught, markers, bounds
  <1>2. /\ Routes /\ Recons /\ plans \in [Slugs -> OnePlan] /\ \A k \in Procs : OnCourse(k)
        /\ flocks \in [{"issues"} \cup Slugs -> Procs \cup {Nobody}]
    BY LinesAre
  <1>3. s \in Slugs /\ plans[s] \in OnePlan /\ flocks[s] = i /\ route[i].n = plans[s].lessons
    BY <1>1, <1>2 DEF OnCourse, Locking
  <1>4. m \in Nat /\ plans[s].lessons <= m /\ plans[s].lessons \in Nat
    BY <1>3 DEF OnePlan
  <1> HIDE DEF m
  <1> HIDE DEF p
  <1>6. p.there = plans[s].there /\ p.recon = plans[s].recon /\ p.lessons = m
        /\ p \in OnePlan
    BY <1>3, <1>4, TaughtIs DEF p
  <1>8. /\ flocks' \in [{"issues"} \cup Slugs -> Procs \cup {Nobody}]
        /\ \A g \in {"issues"} \cup Slugs, k \in Procs \ {i} : flocks[g] = k => flocks'[g] = k
    BY <1>1, <1>2, UnlocksIs
  <1>9. IsRoute(job) /\ job.at = "tell" /\ job.row = LessonAdded(m, s)
    BY TellingIs, JobOf
  <1> HIDE DEF job
  <1>10. route'[i] = job /\ plans'[s] = p
    BY <1>1, <1>2, <1>3, <1>9, GoesIs
  <1>11. OnCourse(i)'
    <2>1. Locking(i)' /\ Copying(i)' /\ Promoting(i)'
      BY <1>9, <1>10 DEF Locking, Copying, Promoting, Owning, Flying
    <2>2. IsTrue(route[i].row)'
      <3>1. \A b : route'[i].row # Appended(b)
        BY <1>9, <1>10, RowsOfTheLog
      <3>2. \A b \in Nat, t \in Slugs :
              route'[i].row = LessonAdded(b, t) => plans'[t].lessons >= b
        <4>1. SUFFICES ASSUME NEW b \in Nat, NEW t \in Slugs,
                              LessonAdded(m, s) = LessonAdded(b, t)
                       PROVE  plans'[t].lessons >= b
          BY <1>9, <1>10
        <4>2. m = b /\ s = t
          BY <4>1, RowsOfTheLog
        <4>3. plans'[t].lessons = b
          BY <1>6, <1>10, <4>2
        <4>4. QED
          BY <4>3
      <3>3. QED
        BY <3>1, <3>2 DEF IsTrue
    <2>3. QED
      BY <2>1, <2>2 DEF OnCourse
  <1>12. \A k \in Procs \ {i} : ~(route[k].at = "lesson_write" /\ route[k].slug = s)
    BY <1>2, <1>3 DEF OnCourse, Locking
  <1>13. \A k \in Procs \ {i} : route[k].at \in Owning /\ route[k].slug = s => p.there
    BY <1>2, <1>6 DEF OnCourse, Promoting
  <1>14. p.recon \in Ids \cup {Nothing} /\ (~p.there => p.recon = Nothing)
    BY <1>2, <1>3, <1>6 DEF Recons
  <1>15. job.at \notin Owning /\ route[i].at \notin Flying
    BY <1>1, <1>9 DEF Owning, Flying
  <1>16. plans[s].lessons <= p.lessons
    BY <1>4, <1>6
  <1>17. FlocksKept(i)
    BY <1>8 DEF FlocksKept
  <1>18. Fits(s, p)
    BY <1>6, <1>14, <1>16 DEF Fits
  <1>19. Spares(i, s, p)
    BY <1>6, <1>12, <1>13 DEF Spares
  <1>20. Leads(i, job, s, p)
    BY <1>6, <1>15 DEF Leads
  <1>21. QED
    BY <1>1, <1>3, <1>9, <1>11, <1>17, <1>18, <1>19, <1>20, PlanIsWritten

(* A copy that stands names the plans that the lines name.                 *)
LEMMA CopyNames ==
  ASSUME NEW f, Stands(f), issues \in Seq(OneLine)
  PROVE  /\ f \in Seq(OneLine) /\ DOMAIN f = DOMAIN issues
         /\ \A k \in DOMAIN issues :
               /\ f[k] \in OneLine /\ issues[k] \in OneLine /\ f[k].id = issues[k].id
               /\ \A s : Names(f[k], s) <=> Names(issues[k], s)
  <1>1. f \in Seq(OneLine) /\ DOMAIN f = DOMAIN issues
    BY DEF Stands
  <1>2. ASSUME NEW k \in DOMAIN issues
        PROVE  /\ f[k] \in OneLine /\ issues[k] \in OneLine /\ f[k].id = issues[k].id
               /\ \A s : Names(f[k], s) <=> Names(issues[k], s)
    <2>1. f[k] \in OneLine /\ issues[k] \in OneLine
      BY <1>1, ElementOf
    <2>2. /\ f[k].id = issues[k].id /\ f[k].to = issues[k].to
          /\ f[k].status = issues[k].status \/ (f[k].status = "open" /\ issues[k].status = "resolved")
      BY <1>1 DEF Stands
    <2>3. QED
      BY <2>1, <2>2 DEF Names
  <1>3. QED
    BY <1>1, <1>2

(* The holder of the flock writes the lines.                               *)
LEMMA LinesAreWritten ==
  ASSUME LinesIInv, NEW i \in Procs, NEW job, IsRoute(job), Goes(i, job), Unlocks(i),
         route[i].at \in {"append_write", "mark"}, job.at \notin Bound,
         plans' = plans, minted' = minted, faults' = faults, told' = told,
         Shapes', Recons', Ids \subseteq Ids',
         \A e : job.row = e => IsTrue(e)',
         \A s \in Slugs : Unnamed(s)' => Unnamed(s),
         \A s \in Slugs : Unnamed(s) => Unnamed(s)' \/ (route[i].at = "mark" /\ s = route[i].slug),
         \A s \in Slugs : route[i].at = "mark" /\ s = route[i].slug => ~Unnamed(s)'
  PROVE  LinesIInv'
  <1>1. /\ Routes /\ OwnersApart /\ PlansCost
        /\ (\A e \in told : IsTrue(e)) /\ (\A k \in Procs : OnCourse(k))
        /\ flocks \in [{"issues"} \cup Slugs -> Procs \cup {Nobody}]
        /\ minted \in Nat /\ faults \in Nat
        /\ \A s \in Slugs : plans[s].lessons \in Nat
    BY LinesAre
  <1>2. /\ Routes' /\ route'[i] = job /\ \A k \in Procs : k # i => route'[k] = route[k]
    BY <1>1, GoesIs
  <1>3. \A g \in {"issues"} \cup Slugs, k \in Procs \ {i} : flocks[g] = k => flocks'[g] = k
    BY <1>1, UnlocksIs
  <1>4. flocks["issues"] = i
    BY <1>1 DEF OnCourse, Locking
  <1>5. \A e : IsTrue(e) => IsTrue(e)'
    <2>1. \A s \in Slugs : plans[s].lessons \in Nat /\ plans'[s].lessons \in Nat
                          /\ plans[s].lessons <= plans'[s].lessons
      BY <1>1
    <2>2. QED
      BY <2>1, TruthStays
  <1>6. ASSUME NEW k \in Procs, k # i
        PROVE  OnCourse(k)'
    <2>1. OnCourse(k) /\ route'[k] = route[k]
      BY <1>1, <1>2, <1>6
    <2>2. route[k].at \notin {"append_write", "mark"}
      BY <1>4, <1>6, <2>1 DEF OnCourse, Locking
    <2>3. \A f \in {"issues"} \cup Slugs : flocks[f] = k => flocks'[f] = k
      BY <1>3, <1>6
    <2>4. route[k].at \in Owning =>
            route[k].slug \in Slugs /\ plans[route[k].slug].there /\ Unnamed(route[k].slug)
      BY <2>1 DEF OnCourse, Promoting
    <2>5. ASSUME route[k].at \in Owning
          PROVE  ~(route[i].at = "mark" /\ route[k].slug = route[i].slug)
      BY <1>1, <1>6, <2>5 DEF OwnersApart, Owning
    <2>6. route[k].at \in Owning => Unnamed(route[k].slug)'
      <3>1. SUFFICES ASSUME route[k].at \in Owning
                     PROVE  Unnamed(route[k].slug)'
        OBVIOUS
      <3>2. PICK s \in Slugs : s = route[k].slug
        BY <2>4, <3>1
      <3>3. Unnamed(s)'
        BY <2>4, <2>5, <3>1, <3>2
      <3>4. s = route'[k].slug
        BY <2>1, <3>2
      <3>5. QED
        BY <3>3, <3>4 DEF Unnamed
    <2>7. minted' \in Nat /\ minted <= minted'
      BY <1>1
    <2>8. QED
      BY <1>1, <1>5, <2>1, <2>2, <2>3, <2>4, <2>6, <2>7, StaysOnCourse
  <1>7. OnCourse(i)'
    <2>1. PICK e : e = job.row
      OBVIOUS
    <2>2. IsTrue(e)' /\ route'[i].row = e /\ route'[i].at \notin Bound
      BY <1>2, <2>1
    <2>3. QED
      BY <2>2, UnboundIs
  <1>8. OwnersApart'
    <2>1. \A k \in Procs : route'[k].at \in Owning => k # i /\ route'[k] = route[k]
      BY <1>2 DEF Bound
    <2>2. QED
      BY <1>1, <2>1 DEF OwnersApart
  <1>9. PlansCost'
    <2>1. ASSUME NEW t \in StuckPlans'
          PROVE  t \in StuckPlans
      <3>1. /\ t \in Slugs /\ plans[t].recon # Nothing /\ Unnamed(t)'
            /\ \A k \in Procs : route'[k].at \in Flying => route'[k].slug # t
        BY <2>1 DEF StuckPlans
      <3>2. ASSUME NEW k \in Procs, route[k].at \in Flying
            PROVE  route[k].slug # t
        <4>1. CASE k = i
          <5>1. route[i].at = "mark"
            BY <3>2, <4>1 DEF Flying
          <5>2. QED
            BY <3>1, <4>1, <5>1
        <4>2. CASE k # i
          BY <1>2, <3>1, <3>2, <4>2
        <4>3. QED
          BY <4>1, <4>2
      <3>3. QED
        BY <3>1, <3>2 DEF StuckPlans
    <2>2. QED
      BY <1>1, <2>1, PlansGrow
  <1>10. \A e \in told' : IsTrue(e)'
    BY <1>1, <1>5
  <1>11. QED
    BY <1>2, <1>6, <1>7, <1>8, <1>9, <1>10 DEF LinesIInv

LEMMA LineIsAppended ==
  ASSUME LinesIInv, NEW i \in Procs, AppendWrites(i)
  PROVE  LinesIInv'
  <1> DEFINE f == route[i].copy
             id == route[i].id
             job == [Free EXCEPT !.at = "count", !.row = Appended(id)]
  <1>1. /\ route[i].at = "append_write" /\ issues' = Append(f, Line(id))
        /\ Unlocks(i) /\ Goes(i, job)
        /\ plans' = plans /\ minted' = minted /\ faults' = faults /\ told' = told
    BY DEF AppendWrites, RouteAt, markers, bounds
  <1>2. job = WithRow(WithAt(Free, "count"), Appended(id))
    BY DEF WithRow, WithAt
  <1> HIDE DEF job
  <1>3. job = Job("count", Appended(id), Nothing, Nothing, 0, <<>>, Nothing)
    BY <1>2, FreeIs, FieldIn
  <1>4. IsRoute(job) /\ job.at = "count" /\ job.row = Appended(id)
    BY <1>3, JobOf
  <1>5. /\ OnCourse(i) /\ Shapes /\ Recons /\ issues \in Seq(OneLine) /\ minted \in Nat
        /\ flocks \in [{"issues"} \cup Slugs -> Procs \cup {Nobody}]
    BY LinesAre
  <1>6. Stands(f) /\ id \in 0..minted /\ id \notin Ids
    BY <1>1, <1>5 DEF OnCourse, Copying
  <1>7. /\ f \in Seq(OneLine) /\ DOMAIN f = DOMAIN issues
        /\ \A k \in DOMAIN issues :
              /\ f[k] \in OneLine /\ issues[k] \in OneLine /\ f[k].id = issues[k].id
              /\ \A s : Names(f[k], s) <=> Names(issues[k], s)
    BY <1>5, <1>6, CopyNames
  <1> DEFINE l == Line(id)  z == Len(f) + 1
  <1>8. l \in OneLine /\ l.id = id /\ \A s : ~Names(l, s)
    BY <1>5, <1>6 DEF Line, OneLine, Names
  <1> HIDE DEF l, f, id
  <1>9. /\ issues' \in Seq(OneLine) /\ DOMAIN issues' = DOMAIN issues \cup {z}
        /\ z \notin DOMAIN issues /\ issues'[z] = l
        /\ \A k \in DOMAIN issues : issues'[k] = f[k]
    <2>1. issues' = Append(f, l)
      BY <1>1 DEF l, f, id
    <2>2. /\ Append(f, l) \in Seq(OneLine)
          /\ DOMAIN f = 1..Len(f) /\ DOMAIN Append(f, l) = 1..(Len(f) + 1)
          /\ \A x \in 1..Len(f) : Append(f, l)[x] = f[x]
          /\ Append(f, l)[Len(f) + 1] = l /\ Len(f) \in Nat
      BY <1>7, <1>8, AppendedTo
    <2>3. 1..(Len(f) + 1) = 1..Len(f) \cup {z} /\ z \notin 1..Len(f)
      BY <2>2
    <2>4. QED
      BY <1>7, <2>1, <2>2, <2>3
  <1> HIDE DEF z
  <1>10. Ids' = Ids \cup {id}
    <2>1. Ids' = {issues'[k].id : k \in DOMAIN issues'}
      BY DEF Ids
    <2>2. QED
      BY <1>7, <1>8, <1>9, <2>1 DEF Ids
  <1>11. \A k \in DOMAIN issues' : \A s : Names(issues'[k], s) <=> (k \in DOMAIN issues /\ Names(issues[k], s))
    BY <1>7, <1>8, <1>9
  <1>12. \A s : Unnamed(s)' <=> Unnamed(s)
    BY <1>9, <1>11 DEF Unnamed
  <1>13. Shapes'
    <2>1. \A k \in DOMAIN issues' : issues'[k].id <= minted'
      <3>1. \A k \in DOMAIN issues : issues[k].id <= minted
        BY <1>5 DEF Shapes
      <3>2. id <= minted
        BY <1>5, <1>6
      <3>3. QED
        BY <1>1, <1>7, <1>8, <1>9, <3>1, <3>2
    <2>2. \A k, m \in DOMAIN issues' : issues'[k].id = issues'[m].id => k = m
      <3>1. \A k, m \in DOMAIN issues : issues[k].id = issues[m].id => k = m
        BY <1>5 DEF Shapes
      <3>2. \A k \in DOMAIN issues : issues[k].id # id
        BY <1>6 DEF Ids
      <3>3. QED
        BY <1>7, <1>8, <1>9, <3>1, <3>2
    <2>3. flocks' \in [{"issues"} \cup Slugs -> Procs \cup {Nobody}]
      BY <1>1, <1>5, UnlocksIs
    <2>4. QED
      BY <1>1, <1>5, <1>9, <2>1, <2>2, <2>3 DEF Shapes
  <1>14. Recons'
    <2>1. \A s \in Slugs : /\ ~plans[s].there => plans[s].recon = Nothing
                           /\ plans[s].recon \in Ids' \cup {Nothing}
      BY <1>5, <1>10 DEF Recons
    <2>2. \A k \in DOMAIN issues', s \in Slugs :
             Names(issues'[k], s) => plans[s].recon = issues'[k].id
      BY <1>5, <1>7, <1>9, <1>11 DEF Recons
    <2>3. QED
      BY <1>1, <2>1, <2>2 DEF Recons, Names
  <1>15. \A e : job.row = e => IsTrue(e)'
    <2>1. SUFFICES ASSUME NEW e, e = Appended(id)
                   PROVE  IsTrue(e)'
      BY <1>4
    <2>2. \A b \in Nat : e = Appended(b) => b \in Ids'
      BY <1>10, <2>1, RowsOfTheLog
    <2>3. \A b \in Nat, s \in Slugs : e # LessonAdded(b, s)
      BY <2>1, RowsOfTheLog
    <2>4. QED
      BY <2>2, <2>3 DEF IsTrue, Appended, LessonAdded
  <1>16. job.at \notin Bound /\ Ids \subseteq Ids'
    BY <1>4, <1>10 DEF Bound, Owning
  <1>17. QED
    BY <1>1, <1>4, <1>12, <1>13, <1>14, <1>15, <1>16, LinesAreWritten

(* A line whose status, or whose status and plan, are written.             *)
Settled(l, x) == [l EXCEPT !.status = x]
Sent(l, x) == [l EXCEPT !.to = x]

LEMMA SettledIs ==
  ASSUME NEW l \in OneLine
  PROVE  /\ Settled(l, "resolved") \in OneLine /\ Settled(l, "resolved").id = l.id
         /\ Settled(l, "resolved").status = "resolved" /\ Settled(l, "resolved").to = l.to
         /\ Settled(l, "promoted") \in OneLine /\ Settled(l, "promoted").id = l.id
         /\ Settled(l, "promoted").status = "promoted" /\ Settled(l, "promoted").to = l.to
  BY DEF Settled, OneLine

LEMMA SentIs ==
  ASSUME NEW l \in OneLine, NEW x \in Slugs
  PROVE  /\ Sent(l, x) \in OneLine /\ Sent(l, x).id = l.id
         /\ Sent(l, x).status = l.status /\ Sent(l, x).to = x
  BY DEF Sent, OneLine

(* Lines that are written one by one.                                      *)
LEMMA LinesOneByOne ==
  ASSUME NEW f \in Seq(OneLine), NEW g, DOMAIN g = DOMAIN f, g = [k \in DOMAIN f |-> g[k]],
         \A k \in DOMAIN f : g[k] \in OneLine
  PROVE  g \in Seq(OneLine)
  <1>1. DOMAIN f = 1..Len(f) /\ Len(f) \in Nat
    OBVIOUS
  <1>2. QED
    BY <1>1

LEMMA LineIsMarked ==
  ASSUME LinesIInv, NEW i \in Procs, MarksLine(i)
  PROVE  LinesIInv'
  <1> DEFINE f == route[i].copy
             id == route[i].id
             slug == route[i].slug
             row == <<"outstanding_promoted", id, slug>>
             job == Telling(row)
             new(l) == [l EXCEPT !.status = "promoted", !.to = slug]
  <1>1. /\ route[i].at = "mark" /\ Unlocks(i) /\ Goes(i, job)
        /\ issues' = [k \in DOMAIN f |-> IF f[k].id = id THEN new(f[k]) ELSE f[k]]
        /\ plans' = plans /\ minted' = minted /\ faults' = faults /\ told' = told
    BY DEF MarksLine, RouteAt, Promoted, Slug, markers, bounds
  <1>2. IsRoute(job) /\ job.at = "tell" /\ job.row = row
    BY TellingIs, JobOf
  <1> HIDE DEF job
  <1>3. /\ OnCourse(i) /\ Shapes /\ Recons /\ issues \in Seq(OneLine) /\ minted \in Nat
        /\ flocks \in [{"issues"} \cup Slugs -> Procs \cup {Nobody}]
    BY LinesAre
  <1>4. Stands(f) /\ IsOpen(f, id)
    BY <1>1, <1>3 DEF OnCourse, Copying
  <1>5. /\ slug \in Slugs /\ id \in Ids /\ plans[slug].recon = id /\ Unnamed(slug)
    BY <1>1, <1>3 DEF OnCourse, Promoting, Owning, Flying
  <1>6. /\ f \in Seq(OneLine) /\ DOMAIN f = DOMAIN issues
        /\ \A k \in DOMAIN issues :
              /\ f[k] \in OneLine /\ issues[k] \in OneLine /\ f[k].id = issues[k].id
              /\ \A s : Names(f[k], s) <=> Names(issues[k], s)
    BY <1>3, <1>4, CopyNames
  <1>7. \A l \in OneLine : /\ new(l) \in OneLine /\ new(l).id = l.id
                           /\ \A s : Names(new(l), s) <=> s = slug
    <2>1. \A l : new(l) = Sent(Settled(l, "promoted"), slug)
      BY DEF Sent, Settled
    <2>2. SUFFICES ASSUME NEW l \in OneLine
                   PROVE  /\ new(l) \in OneLine /\ new(l).id = l.id
                          /\ \A s : Names(new(l), s) <=> s = slug
      OBVIOUS
    <2> HIDE DEF new, slug
    <2>3. /\ Settled(l, "promoted") \in OneLine /\ Settled(l, "promoted").id = l.id
          /\ Settled(l, "promoted").status = "promoted"
      BY SettledIs
    <2>4. /\ new(l) \in OneLine /\ new(l).id = l.id /\ new(l).status = "promoted"
          /\ new(l).to = slug
      BY <1>5, <2>1, <2>3, SentIs
    <2>5. QED
      BY <2>4 DEF Names
  <1>8. PICK z \in DOMAIN issues : f[z].id = id /\ f[z].status = "open"
    BY <1>4, <1>6 DEF IsOpen
  <1> HIDE DEF new, f, id, slug
  <1>9. \A k \in DOMAIN issues : f[k].id = id <=> k = z
    BY <1>3, <1>6, <1>8 DEF Shapes
  <1>10. /\ issues' \in Seq(OneLine) /\ DOMAIN issues' = DOMAIN issues
         /\ issues'[z] = new(f[z]) /\ issues'[z].id = id
         /\ \A k \in DOMAIN issues : issues'[k].id = issues[k].id /\ (k # z => issues'[k] = f[k])
    <2>1. issues' = [k \in DOMAIN issues |-> IF f[k].id = id THEN new(f[k]) ELSE f[k]]
      BY <1>1, <1>6 DEF new, f, id, slug
    <2>2. /\ DOMAIN issues' = DOMAIN issues /\ issues'[z] = new(f[z])
          /\ \A k \in DOMAIN issues : k # z => issues'[k] = f[k]
      BY <1>9, <2>1
    <2>3. \A k \in DOMAIN issues : issues'[k] \in OneLine /\ issues'[k].id = issues[k].id
      BY <1>6, <1>7, <2>2
    <2>4. issues' = [k \in DOMAIN issues |-> issues'[k]]
      BY <2>1
    <2>5. issues' \in Seq(OneLine)
      BY <1>3, <2>2, <2>3, <2>4, LinesOneByOne
    <2>6. QED
      BY <1>6, <1>7, <1>8, <2>2, <2>3, <2>5
  <1>11. Ids' = Ids
    <2>1. Ids' = {issues'[k].id : k \in DOMAIN issues'}
      BY DEF Ids
    <2>2. QED
      BY <1>10, <2>1 DEF Ids
  <1>12. /\ \A k \in DOMAIN issues : \A s : k # z => (Names(issues'[k], s) <=> Names(issues[k], s))
         /\ \A s : Names(issues'[z], s) <=> s = slug
         /\ \A s : ~Names(issues[z], s)
    <2>1. \A s : ~Names(f[z], s)
      BY <1>8 DEF Names
    <2>2. QED
      BY <1>6, <1>7, <1>8, <1>10, <2>1
  <1>13. \A s : Unnamed(s)' <=> Unnamed(s) /\ s # slug
    BY <1>8, <1>10, <1>12 DEF Unnamed
  <1>14. Shapes'
    <2>1. flocks' \in [{"issues"} \cup Slugs -> Procs \cup {Nobody}]
      BY <1>1, <1>3, UnlocksIs
    <2>2. \A k \in DOMAIN issues' : issues'[k].id <= minted'
      BY <1>1, <1>3, <1>10 DEF Shapes
    <2>3. \A k, m \in DOMAIN issues' : issues'[k].id = issues'[m].id => k = m
      BY <1>3, <1>10 DEF Shapes
    <2>4. QED
      BY <1>1, <1>3, <1>10, <2>1, <2>2, <2>3 DEF Shapes
  <1>15. Recons'
    <2>1. \A k \in DOMAIN issues', s \in Slugs :
             Names(issues'[k], s) => plans[s].recon = issues'[k].id
      BY <1>3, <1>5, <1>10, <1>12 DEF Recons, id
    <2>2. QED
      BY <1>1, <1>3, <1>11, <2>1 DEF Recons, Names
  <1>16. \A e : job.row = e => IsTrue(e)'
    <2>1. Silent(row)
      BY SilentRows
    <2>2. QED
      BY <1>2, <2>1 DEF Silent, IsTrue
  <1>17. job.at \notin Bound
    BY <1>2 DEF Bound, Owning
  <1>18. \A s \in Slugs : Unnamed(s)' => Unnamed(s)
    BY <1>13
  <1>19. \A s \in Slugs : Unnamed(s) => Unnamed(s)' \/ (route[i].at = "mark" /\ s = route[i].slug)
    BY <1>1, <1>13 DEF slug
  <1>20. \A s \in Slugs : route[i].at = "mark" /\ s = route[i].slug => ~Unnamed(s)'
    BY <1>13 DEF slug
  <1>21. QED
    BY <1>1, <1>2, <1>11, <1>14, <1>15, <1>16, <1>17, <1>18, <1>19, <1>20, LinesAreWritten

(* The operator resolves a line that is open, whoever holds a copy of it.  *)
LEMMA LineIsResolved ==
  ASSUME LinesIInv, NEW id, ResolvesByHand(id)
  PROVE  LinesIInv'
  <1> DEFINE new(l) == Settled(l, "resolved")
  <1>1. /\ issues' = [k \in DOMAIN issues |-> IF issues[k].id = id THEN new(issues[k]) ELSE issues[k]]
        /\ route' = route /\ flocks' = flocks
        /\ plans' = plans /\ minted' = minted /\ faults' = faults /\ told' = told
        /\ IsOpen(issues, id)
    BY DEF ResolvesByHand, Settled, markers, routing
  <1>2. /\ Routes /\ Shapes /\ Recons /\ OwnersApart /\ PlansCost /\ issues \in Seq(OneLine)
        /\ (\A e \in told : IsTrue(e)) /\ (\A k \in Procs : OnCourse(k))
        /\ minted \in Nat /\ faults \in Nat /\ \A s \in Slugs : plans[s].lessons \in Nat
    BY LinesAre
  <1>3. PICK z \in DOMAIN issues : issues[z].id = id /\ issues[z].status = "open"
    BY <1>1 DEF IsOpen
  <1>4. \A k \in DOMAIN issues : issues[k] \in OneLine /\ (issues[k].id = id <=> k = z)
    BY <1>2, <1>3, ElementOf DEF Shapes
  <1>5. \A l \in OneLine : /\ new(l) \in OneLine /\ new(l).id = l.id /\ new(l).to = l.to
                           /\ new(l).status = "resolved"
    BY SettledIs
  <1> HIDE DEF new
  <1>6. /\ DOMAIN issues' = DOMAIN issues /\ issues'[z] = new(issues[z])
        /\ \A k \in DOMAIN issues : k # z => issues'[k] = issues[k]
    BY <1>1, <1>4
  <1>7. \A k \in DOMAIN issues : /\ issues'[k] \in OneLine /\ issues'[k].id = issues[k].id
                                 /\ issues'[k].to = issues[k].to
    BY <1>4, <1>5, <1>6
  <1>8. issues' \in Seq(OneLine)
    <2>1. issues' = [k \in DOMAIN issues |-> issues'[k]]
      BY <1>1
    <2>2. QED
      BY <1>2, <1>6, <1>7, <2>1, LinesOneByOne
  <1>9. Ids' = Ids
    <2>1. Ids' = {issues'[k].id : k \in DOMAIN issues'}
      BY DEF Ids
    <2>2. QED
      BY <1>6, <1>7, <2>1 DEF Ids
  <1>10. \A k \in DOMAIN issues : \A s : Names(issues'[k], s) <=> Names(issues[k], s)
    <2>1. \A s : ~Names(issues[z], s) /\ ~Names(issues'[z], s)
      BY <1>3, <1>4, <1>5, <1>6 DEF Names
    <2>2. QED
      BY <1>6, <2>1
  <1>11. \A s : Unnamed(s)' <=> Unnamed(s)
    BY <1>6, <1>10 DEF Unnamed
  <1>12. \A f : Stands(f) => Stands(f)'
    <2>1. SUFFICES ASSUME NEW f, Stands(f)
                   PROVE  Stands(f)'
      OBVIOUS
    <2>2. /\ f \in Seq(OneLine) /\ DOMAIN f = DOMAIN issues
          /\ \A k \in DOMAIN f :
                /\ f[k].id = issues[k].id /\ f[k].to = issues[k].to
                /\ f[k].status = issues[k].status
                     \/ (f[k].status = "open" /\ issues[k].status = "resolved")
      BY <2>1 DEF Stands
    <2>3. ASSUME NEW k \in DOMAIN issues
          PROVE  /\ f[k].id = issues'[k].id /\ f[k].to = issues'[k].to
                 /\ f[k].status = issues'[k].status
                      \/ (f[k].status = "open" /\ issues'[k].status = "resolved")
      <3>1. CASE k = z
        <4>1. f[z].status = "open"
          BY <1>3, <2>2
        <4>2. issues'[z].status = "resolved"
          BY <1>4, <1>5, <1>6
        <4>3. QED
          BY <1>7, <2>2, <3>1, <4>1, <4>2
      <3>2. CASE k # z
        BY <1>6, <2>2, <3>2
      <3>3. QED
        BY <3>1, <3>2
    <2>4. QED
      BY <1>6, <2>2, <2>3 DEF Stands
  <1>13. \A e : IsTrue(e) => IsTrue(e)'
    <2>1. \A s \in Slugs : plans[s].lessons \in Nat /\ plans'[s].lessons \in Nat
                          /\ plans[s].lessons <= plans'[s].lessons
      BY <1>1, <1>2
    <2>2. QED
      BY <1>9, <2>1, TruthStays
  <1>14. ASSUME NEW k \in Procs
         PROVE  OnCourse(k)'
    <2>1. OnCourse(k) /\ route'[k] = route[k]
      BY <1>1, <1>2
    <2>2. \A f \in {"issues"} \cup Slugs : flocks[f] = k => flocks'[f] = k
      BY <1>1
    <2>3. /\ route[k].at \in {"append_write", "mark"} => Stands(route[k].copy)
          /\ route[k].at = "append_write" => route[k].id \notin Ids
          /\ route[k].at \in Owning =>
               plans[route[k].slug].there /\ Unnamed(route[k].slug)
      BY <2>1 DEF OnCourse, Copying, Promoting
    <2>4. route[k].at \in {"append_write", "mark"} => Stands(route[k].copy)'
      <3>1. \A f : f = route[k].copy /\ Stands(f)' => Stands(route[k].copy)'
        BY <2>1 DEF Stands
      <3>2. QED
        BY <1>12, <2>3, <3>1
    <2>5. route[k].at \in Owning => Unnamed(route[k].slug)'
      <3>1. \A s : s = route[k].slug /\ Unnamed(s)' => Unnamed(route[k].slug)'
        BY <2>1 DEF Unnamed
      <3>2. QED
        BY <1>11, <2>3, <3>1
    <2>6. minted' \in Nat /\ minted <= minted'
      BY <1>1, <1>2
    <2>7. QED
      BY <1>1, <1>2, <1>9, <1>13, <2>1, <2>2, <2>3, <2>4, <2>5, <2>6, StaysOnCourse
  <1>15. Shapes'
    <2>1. \A k \in DOMAIN issues' : issues'[k].id <= minted'
      BY <1>1, <1>2, <1>6, <1>7 DEF Shapes
    <2>2. \A k, m \in DOMAIN issues' : issues'[k].id = issues'[m].id => k = m
      BY <1>2, <1>6, <1>7 DEF Shapes
    <2>3. QED
      BY <1>1, <1>2, <1>8, <2>1, <2>2 DEF Shapes
  <1>16. Recons'
    <2>1. \A k \in DOMAIN issues', s \in Slugs :
             Names(issues'[k], s) => plans[s].recon = issues'[k].id
      BY <1>2, <1>6, <1>7, <1>10 DEF Recons
    <2>2. QED
      BY <1>1, <1>2, <1>9, <2>1 DEF Recons, Names
  <1>17. Routes' /\ OwnersApart'
    BY <1>1, <1>2 DEF Routes, OwnersApart
  <1>18. PlansCost'
    <2>1. StuckPlans' \subseteq StuckPlans
      BY <1>1, <1>11 DEF StuckPlans
    <2>2. QED
      BY <1>1, <1>2, <2>1, PlansGrow
  <1>19. \A e \in told' : IsTrue(e)'
    BY <1>1, <1>2, <1>13
  <1>20. QED
    BY <1>14, <1>15, <1>16, <1>17, <1>18, <1>19 DEF LinesIInv

(* A step of the markers writes no line, no plan, and tells of neither.    *)
LEMMA LinesElsewhere ==
  ASSUME LinesIInv, UNCHANGED <<routing, lines>>, faults' \in 0..MaxFaults, faults <= faults',
         \A e \in told' : e \in told \/ Silent(e)
  PROVE  LinesIInv'
  <1>1. /\ Routes /\ Shapes /\ Recons /\ OwnersApart /\ PlansCost
        /\ (\A e \in told : IsTrue(e)) /\ (\A k \in Procs : OnCourse(k))
        /\ minted \in Nat /\ faults \in Nat /\ \A s \in Slugs : plans[s].lessons \in Nat
    BY LinesAre
  <1>2. /\ route' = route /\ flocks' = flocks /\ issues' = issues /\ plans' = plans
        /\ minted' = minted
    BY DEF routing, lines
  <1>3. Ids' = Ids /\ \A s : Unnamed(s)' = Unnamed(s)
    BY <1>2 DEF Ids, Unnamed, Names
  <1>4. \A e : IsTrue(e) => IsTrue(e)'
    BY <1>1, <1>2, <1>3, TruthStays
  <1>5. ASSUME NEW k \in Procs
        PROVE  OnCourse(k)'
    <2>1. OnCourse(k)
      BY <1>1
    <2>2. Locking(k)' /\ Promoting(k)'
      BY <1>2, <1>3, <2>1 DEF OnCourse, Locking, Promoting, Unnamed, Names
    <2>3. Copying(k)'
      <3>1. Stands(route[k].copy)' = Stands(route[k].copy)
        BY <1>2 DEF Stands
      <3>2. IsOpen(route[k].copy, route[k].id)' = IsOpen(route[k].copy, route[k].id)
        BY <1>2 DEF IsOpen
      <3>3. QED
        BY <1>2, <1>3, <2>1, <3>1, <3>2 DEF OnCourse, Copying
    <2>4. IsTrue(route[k].row)'
      BY <1>2, <1>3, <2>1 DEF OnCourse, IsTrue
    <2>5. QED
      BY <2>2, <2>3, <2>4 DEF OnCourse
  <1>6. Routes' /\ Shapes' /\ Recons' /\ OwnersApart'
    BY <1>1, <1>2, <1>3 DEF Routes, Shapes, Recons, OwnersApart, Names
  <1>7. PlansCost'
    <2>1. StuckPlans' \subseteq StuckPlans
      BY <1>2, <1>3 DEF StuckPlans
    <2>2. faults' \in Nat
      BY MarkerAssumption
    <2>3. QED
      BY <1>1, <2>1, <2>2, PlansGrow
  <1>8. \A e \in told' : IsTrue(e)'
    BY <1>1, <1>4, SilentIsTrue
  <1>9. QED
    BY <1>5, <1>6, <1>7, <1>8 DEF LinesIInv

LEMMA MarkersAreSilent ==
  ASSUME NEW i \in Procs, MarkerStep(i), faults \in 0..MaxFaults
  PROVE  /\ faults' \in 0..MaxFaults /\ faults <= faults'
         /\ \A e \in told' : e \in told \/ Silent(e)
  <1>1. ASSUME NEW e, Tells(e), Done(i), Silent(e)
        PROVE  faults' = faults /\ \A x \in told' : x \in told \/ Silent(x)
    BY <1>1 DEF Tells, Done
  <1>2. CASE TellsRefused(i) \/ TellsCreated(i) \/ TellsClosed(i) \/ TellsRegistered(i)
    <2>1. faults' = faults /\ \A x \in told' : x \in told \/ Silent(x)
      BY <1>1, <1>2, SilentRows DEF TellsRefused, TellsCreated, TellsClosed, TellsRegistered
    <2>2. QED
      BY <2>1, MarkerAssumption
  <1>3. CASE MarkerWriteFails(i) \/ Killed(i)
    <2>1. faults < MaxFaults /\ faults' = faults + 1 /\ told' = told
      BY <1>3 DEF MarkerWriteFails, Killed, Fails, Fault, markers
    <2>2. QED
      BY <2>1, MarkerAssumption
  <1>4. CASE \/ PrefixIsChecked(i) \/ CreateLocks(i) \/ SchemaRefuses(i) \/ WritesDetail(i)
             \/ NoHeadings(i) \/ WritesRow(i)
    <2>1. faults' = faults /\ told' = told
      BY <1>4 DEF PrefixIsChecked, CreateLocks, SchemaRefuses, WritesDetail, NoHeadings, WritesRow,
         Done, markers, bounds
    <2>2. QED
      BY <2>1, MarkerAssumption
  <1>5. CASE \/ CloseLocks(i) \/ ClosedMeanwhile(i) \/ MovesRow(i) \/ RegisterLocks(i)
             \/ RegisteredMeanwhile(i) \/ AddsPrefix(i)
    <2>1. faults' = faults /\ told' = told
      BY <1>5 DEF CloseLocks, ClosedMeanwhile, MovesRow, RegisterLocks, RegisteredMeanwhile,
         AddsPrefix, Done, markers, bounds
    <2>2. QED
      BY <2>1, MarkerAssumption
  <1>6. QED
    BY <1>2, <1>3, <1>4, <1>5 DEF MarkerStep

LEMMA MarkersStartSilent ==
  ASSUME NEW i \in Procs, MarkerStarts(i)
  PROVE  faults' = faults /\ told' = told
  BY DEF MarkerStarts, CreateStarts, CloseStarts, RegisterStarts, Starts, markers

LEMMA LinesBegin ==
  ASSUME Init
  PROVE  LinesIInv
  <1>1. /\ flocks = [f \in {"issues"} \cup Slugs |-> Nobody] /\ route = [i \in Procs |-> Free]
        /\ issues = <<Line(0)>> /\ minted = 0 /\ faults = 0
        /\ plans = [s \in Slugs |-> [there |-> FALSE, used |-> FALSE, recon |-> Nothing, lessons |-> 0]]
    BY DEF Init, MarkerInit
  <1>2. Routes /\ \A i \in Procs : route[i] = Free
    BY <1>1, FreeIs DEF Routes
  <1>3. /\ \A s \in Slugs : /\ plans[s] \in OnePlan /\ plans[s].recon = Nothing
                            /\ plans[s].lessons = 0
    BY <1>1 DEF OnePlan
  <1>4. /\ Line(0) \in OneLine /\ Line(0).id = 0 /\ \A s : ~Names(Line(0), s)
    BY DEF Line, OneLine, Names
  <1>5. /\ issues \in Seq(OneLine) /\ DOMAIN issues = {1} /\ issues[1] = Line(0)
    <2> DEFINE l == Line(0)
    <2>1. l \in OneLine /\ issues = <<l>>
      BY <1>1, <1>4
    <2> HIDE DEF l
    <2>2. <<l>> \in Seq(OneLine) /\ DOMAIN <<l>> = 1..1 /\ <<l>>[1] = l
      BY <2>1
    <2>3. 1..1 = {1}
      OBVIOUS
    <2>4. QED
      BY <2>1, <2>2, <2>3 DEF l
  <1>6. Shapes
    <2>1. plans \in [Slugs -> OnePlan]
      BY <1>1, <1>3
    <2>2. minted \in 0..MaxLines /\ faults \in 0..MaxFaults
      BY <1>1, RoutingAssumption, MarkerAssumption
    <2>3. \A k \in DOMAIN issues : issues[k].id <= minted
      BY <1>1, <1>4, <1>5
    <2>4. QED
      BY <1>1, <1>5, <2>1, <2>2, <2>3 DEF Shapes
  <1>7. Recons
    BY <1>3, <1>4, <1>5 DEF Recons
  <1>8. \A i \in Procs : route[i].at \notin Owning /\ route[i].at \notin Bound
    BY <1>2, FreeIs DEF Owning, Bound
  <1>9. OwnersApart
    BY <1>8 DEF OwnersApart
  <1>10. PlansCost
    <2>1. StuckPlans = {}
      BY <1>3 DEF StuckPlans
    <2>2. QED
      BY <1>1, <2>1, FS_EmptySet DEF PlansCost
  <1>11. ASSUME NEW i \in Procs
         PROVE  OnCourse(i)
    <2>1. Locking(i) /\ Copying(i) /\ Promoting(i)
      BY <1>8 DEF Locking, Copying, Promoting, Bound, Owning, Flying
    <2>2. IsTrue(route[i].row)
      BY <1>2, FreeIs, SilentRows, SilentIsTrue
    <2>3. QED
      BY <2>1, <2>2 DEF OnCourse
  <1>12. \A e \in told : IsTrue(e)
    <2>1. \A e \in told : \E x : e = Created(x)
      BY DEF Init, MarkerInit
    <2>2. QED
      BY <2>1, SilentRows, SilentIsTrue
  <1>13. QED
    BY <1>2, <1>6, <1>7, <1>9, <1>10, <1>11, <1>12 DEF LinesIInv

(* Every step of a process keeps the lines and the plans.                  *)
LEMMA LinesStep ==
  ASSUME LinesIInv, NEW i \in Procs, Step(i)
  PROVE  LinesIInv'
  <1>1. CASE MarkerStep(i) /\ UNCHANGED <<routing, lines, counting>>
    <2>1. faults \in 0..MaxFaults
      BY LinesAre DEF Shapes
    <2>2. /\ faults' \in 0..MaxFaults /\ faults <= faults'
          /\ \A e \in told' : e \in told \/ Silent(e)
      BY <1>1, <2>1, MarkersAreSilent
    <2>3. QED
      BY <1>1, <2>2, LinesElsewhere
  <1>2. CASE TellsDelegated(i) \/ TellsRoute(i) \/ CountIsGone(i)
    BY <1>2, CommandTells
  <1>3. CASE RaisesFile(i)
    BY <1>3, FileIsRaised
  <1>4. CASE \E cap \in Caps : CapIsChecked(i, cap)
    BY <1>4, CapOnCourse
  <1>5. CASE AppendReads(i)
    BY <1>5, AppendOnCourse
  <1>6. CASE AppendWrites(i)
    BY <1>6, LineIsAppended
  <1>7. CASE CountReads(i) \/ CountFills(i) \/ CountReplaces(i)
    BY <1>7, CountOnCourse
  <1>8. CASE MakesPlan(i)
    BY <1>8, PlanOnCourse
  <1>9. CASE WritesRecon(i)
    BY <1>9, ReconOnCourse
  <1>10. CASE PromoteReads(i)
    BY <1>10, PromoteReadsOnCourse
  <1>11. CASE MarksLine(i)
    BY <1>11, LineIsMarked
  <1>12. CASE UndoesPlan(i)
    BY <1>12, UndoOnCourse
  <1>13. CASE LessonReads(i)
    BY <1>13, LessonReadOnCourse
  <1>14. CASE LessonWrites(i)
    BY <1>14, LessonWriteOnCourse
  <1>15. CASE RoutingWriteFails(i) \/ RoutingKilled(i)
    BY <1>15, CommandFails
  <1>16. QED
    BY <1>1, <1>2, <1>3, <1>4, <1>5, <1>6, <1>7, <1>8, <1>9, <1>10, <1>11, <1>12, <1>13, <1>14,
       <1>15 DEF Step

(* So does every command that starts, and whoever works by hand.           *)
LEMMA LinesCommand ==
  ASSUME LinesIInv, NEW i \in Procs, Command(i)
  PROVE  LinesIInv'
  <1>1. CASE MarkerStarts(i) /\ UNCHANGED <<routing, lines, counting>>
    BY <1>1, MarkersStartSilent, RangesStay, LinesElsewhere
  <1>2. CASE ResetStarts(i)
    BY <1>2, ResetOnCourse
  <1>3. CASE \E c \in Contexts, type \in {"fix-now", "outstanding", "escalate"} :
               RouteStarts(i, type, c)
    BY <1>3, RouteIsStarted
  <1>4. CASE \E c \in Contexts, r \in Requests : RouteMarkerStarts(i, r, c)
    BY <1>4, MarkerIsDelegated
  <1>5. CASE \E c \in Contexts, id \in Ids, slug \in Slugs : PromoteStarts(i, id, slug, c)
    BY <1>5, PromoteOnCourse
  <1>6. CASE \E slug \in Slugs, complete \in BOOLEAN : LessonStarts(i, slug, complete)
    BY <1>6, LessonOnCourse
  <1>7. QED
    BY <1>1, <1>2, <1>3, <1>4, <1>5, <1>6 DEF Command

LEMMA LinesByHand ==
  ASSUME LinesIInv, ByHand
  PROVE  LinesIInv'
  <1>1. CASE (\E p \in PrefixIds : RetiresByHand(p)) /\ UNCHANGED <<routing, lines, counting>>
    <2>1. faults' = faults /\ told' = told
      BY <1>1 DEF RetiresByHand
    <2>2. QED
      BY <1>1, <2>1, RangesStay, LinesElsewhere
  <1>2. CASE \E id \in Ids : ResolvesByHand(id)
    BY <1>2, LineIsResolved
  <1>3. QED
    BY <1>1, <1>2 DEF ByHand

LEMMA LinesNext ==
  ASSUME LinesIInv, [Next]_vars
  PROVE  LinesIInv'
  <1>1. CASE UNCHANGED vars
    <2>1. UNCHANGED <<routing, lines>> /\ faults' = faults /\ told' = told
      BY <1>1 DEF vars, markers, bounds
    <2>2. QED
      BY <2>1, RangesStay, LinesElsewhere
  <1>2. CASE Next
    BY <1>2, LinesStep, LinesCommand, LinesByHand DEF Next
  <1>3. QED
    BY <1>1, <1>2

(* What the invariants say of the types, of the promotions and of the log. *)
LEMMA TypesShown ==
  ASSUME MarkersIInv, LinesIInv
  PROVE  TypeOK
  <1>1. /\ locks \in [{"list", "registry"} -> Procs \cup {Nobody}] /\ left \in 0..MaxCommands
    BY DEF MarkersIInv, Files
  <1>2. Shapes /\ Recons /\ issues \in Seq(OneLine)
    BY LinesAre
  <1>3. ASSUME NEW l \in ToSet(issues)
        PROVE  /\ l.id \in 0..minted /\ l.status \in {"open", "promoted", "resolved"}
               /\ l.to \in Slugs \cup {Nothing}
    <2>1. PICK k \in DOMAIN issues : l = issues[k]
      BY <1>3 DEF ToSet
    <2>2. issues[k] \in OneLine /\ issues[k].id <= minted /\ minted \in Nat
      BY <1>2, LinesAre, ElementOf DEF Shapes
    <2>3. l.id \in Nat /\ l.status \in {"open", "promoted", "resolved"}
          /\ l.to \in Slugs \cup {Nothing}
      BY <2>1, <2>2 DEF OneLine
    <2>4. QED
      BY <2>1, <2>2, <2>3
  <1>4. QED
    BY <1>1, <1>2, <1>3 DEF TypeOK, Shapes

LEMMA PromotionShown ==
  ASSUME LinesIInv
  PROVE  PromotionIsWhole
  <1>1. Shapes /\ Recons /\ PlansCost /\ faults \in Nat
    BY LinesAre
  <1>2. \A l \in ToSet(issues), s \in Slugs : Names(l, s) => plans[s].recon = l.id
    BY <1>1 DEF Recons, ToSet
  <1> DEFINE flown == {s \in Slugs : \E i \in InFlight : s = route[i].slug}
  <1>3. IsFiniteSet(InFlight) /\ IsFiniteSet(flown) /\ Cardinality(flown) <= Cardinality(InFlight)
    <2>1. IsFiniteSet(InFlight)
      <3>1. InFlight \in SUBSET Procs
        BY DEF InFlight
      <3>2. QED
        BY <3>1, FS_Subset, MarkerAssumption
    <2> DEFINE f == [i \in InFlight |-> route[i].slug]
    <2>2. DOMAIN f = InFlight /\ \A r \in flown : \E x \in InFlight : r = f[x]
      OBVIOUS
    <2> HIDE DEF f, flown
    <2>3. QED
      BY <2>1, <2>2, NoMoreImages
  <1>4. Loose \subseteq StuckPlans \cup flown
    <2>1. SUFFICES ASSUME NEW s \in Loose, s \notin flown
                   PROVE  s \in StuckPlans
      OBVIOUS
    <2>2. s \in Slugs /\ plans[s].recon # Nothing /\ ~Names(LineOf(plans[s].recon), s)
      BY <2>1 DEF Loose
    <2>3. \A i \in Procs : route[i].at \in Flying => route[i].slug # s
      BY <2>1, <2>2 DEF InFlight, Flying
    <2>4. ASSUME NEW k \in DOMAIN issues, Names(issues[k], s)
          PROVE  FALSE
      <3>1. plans[s].recon = issues[k].id
        BY <1>1, <2>2, <2>4 DEF Recons
      <3>2. /\ issues[k] \in ToSet(issues)
            /\ \A l \in ToSet(issues) : l.id = issues[k].id => l = issues[k]
        BY <1>1 DEF Shapes, ToSet
      <3>3. LineOf(plans[s].recon) = issues[k]
        BY <3>1, <3>2 DEF LineOf
      <3>4. QED
        BY <2>2, <2>4, <3>3
    <2>5. QED
      BY <2>2, <2>3, <2>4 DEF StuckPlans, Unnamed
  <1>5. /\ Cardinality(Loose) <= Cardinality(StuckPlans) + Cardinality(flown)
        /\ {Cardinality(Loose), Cardinality(StuckPlans), Cardinality(flown)} \subseteq Nat
    <2>1. IsFiniteSet(StuckPlans)
      BY <1>1 DEF PlansCost
    <2> HIDE DEF flown
    <2>2. QED
      BY <1>3, <1>4, <2>1, CountTogether
  <1>6. Cardinality(InFlight) \in Nat /\ Cardinality(StuckPlans) <= faults
    BY <1>1, <1>3, FS_CardinalityType DEF PlansCost
  <1> HIDE DEF flown
  <1>7. Cardinality(Loose) <= faults + Cardinality(InFlight)
    BY <1>1, <1>3, <1>5, <1>6
  <1>8. QED
    BY <1>2, <1>7 DEF PromotionIsWhole

LEMMA NothingLostShown ==
  ASSUME LinesIInv
  PROVE  NothingAppendedIsLost
  <1>1. \A e \in told : IsTrue(e)
    BY LinesAre
  <1>2. MaxLines \in Nat /\ MaxCommands \in Nat
    BY RoutingAssumption, MarkerAssumption
  <1>3. ASSUME NEW id \in 0..MaxLines, Appended(id) \in told
        PROVE  id \in Ids
    <2>1. id \in Nat /\ IsTrue(Appended(id))
      BY <1>1, <1>2, <1>3
    <2>2. QED
      BY <2>1 DEF IsTrue
  <1>4. ASSUME NEW s \in Slugs, NEW n \in 0..MaxCommands, LessonAdded(n, s) \in told
        PROVE  plans[s].lessons >= n
    <2>1. n \in Nat /\ IsTrue(LessonAdded(n, s))
      BY <1>1, <1>2, <1>4
    <2>2. QED
      BY <2>1 DEF IsTrue
  <1>5. QED
    BY <1>3, <1>4 DEF NothingAppendedIsLost

(***************************************************************************)
(* The counter                                                             *)
(***************************************************************************)
LEMMA OneStays ==
  ASSUME Routes, NEW i \in Procs, NEW job, IsRoute(job), Goes(i, job),
         \/ AtOne /\ (job.at \in Window => route[i].at \in Window)
         \/ ~OthersInWindow(i)
  PROVE  AtOne'
  <1>1. route'[i] = job /\ \A k \in Procs : k # i => route'[k] = route[k]
    BY GoesIs
  <1>2. CASE AtOne /\ (job.at \in Window => route[i].at \in Window)
    <2>1. \A k \in Procs : route'[k].at \in Window => route[k].at \in Window
      BY <1>1, <1>2
    <2>2. QED
      BY <1>2, <2>1 DEF AtOne, Window
  <1>3. CASE ~OthersInWindow(i)
    <2>1. \A k \in Procs : k # i => route'[k].at \notin Window
      BY <1>1, <1>3 DEF OthersInWindow
    <2>2. QED
      BY <2>1 DEF AtOne, Window
  <1>4. QED
    BY <1>2, <1>3

(* Counts looks at one command and at the counter.                         *)
LEMMA CountsStay ==
  ASSUME NEW k \in Procs, Counts(k), route'[k] = route[k],
         cells' = cells, counter' = counter, tmp' = tmp, dumped' = dumped
  PROVE  Counts(k)'
  <1>1. Count' = Count
    BY DEF Count
  <1>2. Owed(k)' = Owed(k) /\ (IsReset(k)' <=> IsReset(k))
    BY DEF Owed, IsReset, Reset
  <1>3. QED
    BY <1>1, <1>2 DEF Counts, Window

(* A step that leaves the counter alone.                                   *)
LEMMA CountElsewhere ==
  ASSUME CountIInv, UNCHANGED <<routing, counting>>, faults' = 0 => faults = 0
  PROVE  CountIInv'
  <1>1. /\ route' = route /\ cells' = cells /\ counter' = counter /\ tmp' = tmp
        /\ dumped' = dumped /\ met' = met
    BY DEF routing, counting
  <1>2. ~met' => AtOne'
    BY <1>1 DEF CountIInv, AtOne, Window
  <1>3. ~met' /\ faults' = 0 => Sober'
    <2>1. SUFFICES ASSUME Sober
                   PROVE  Sober'
      BY <1>1 DEF CountIInv
    <2>2. \A k \in Procs : Counts(k)'
      BY <1>1, <2>1, CountsStay DEF Sober
    <2>3. Count' = Count
      BY <1>1 DEF Count
    <2>4. Cells' /\ Uncut' /\ Quiet' /\ InodesAre'
      BY <1>1, <2>1, <2>3 DEF Sober, Cells, Uncut, Quiet, InodesAre, Window, Caps
    <2>5. QED
      BY <2>2, <2>4 DEF Sober
  <1>4. QED
    BY <1>1, <1>2, <1>3 DEF CountIInv

LEMMA CountOutside ==
  ASSUME LinesIInv, CountIInv, NEW i \in Procs, NEW job, IsRoute(job), Goes(i, job),
         UNCHANGED counting, faults' = 0 => faults = 0,
         job.at \notin Window, InodesAre => job.inode = Nothing,
         ~met /\ faults' = 0 => route[i].at \notin Window
  PROVE  CountIInv'
  <1>1. /\ cells' = cells /\ counter' = counter /\ tmp' = tmp
        /\ dumped' = dumped /\ met' = met
    BY DEF counting
  <1>2. Routes /\ route'[i] = job /\ \A k \in Procs : k # i => route'[k] = route[k]
    BY LinesAre, GoesIs
  <1>3. ~met' => AtOne'
    BY <1>1, <1>2, OneStays DEF CountIInv
  <1>4. ~met' /\ faults' = 0 => Sober'
    <2>1. SUFFICES ASSUME Sober, route[i].at \notin Window
                   PROVE  Sober'
      BY <1>1 DEF CountIInv
    <2>2. \A k \in Procs : k # i => Counts(k)'
      BY <1>1, <1>2, <2>1, CountsStay DEF Sober
    <2>3. Counts(i)'
      BY <1>2 DEF Counts, Window
    <2>4. Count' = Count
      BY <1>1 DEF Count
    <2>5. Cells' /\ Uncut'
      BY <1>1, <2>1 DEF Sober, Cells, Uncut, Caps
    <2>6. Quiet'
      BY <1>1, <1>2, <2>1, <2>4 DEF Sober, Quiet, Window
    <2>7. InodesAre'
      BY <1>2, <2>1 DEF Sober, InodesAre
    <2>8. QED
      BY <2>2, <2>3, <2>5, <2>6, <2>7 DEF Sober
  <1>5. QED
    BY <1>1, <1>3, <1>4 DEF CountIInv

(* The only command between check and count.                               *)
LEMMA SoberInside ==
  ASSUME Routes, InodesAre, NEW i \in Procs, NEW job, IsRoute(job), Goes(i, job), AtOne',
         job.at \in Window, job.at \in {"fill", "replace"} \/ job.inode = Nothing,
         Cells', Uncut', Counts(i)'
  PROVE  Sober'
  <1>1. route'[i] = job /\ \A k \in Procs : k # i => route'[k] = route[k]
    BY GoesIs
  <1>2. \A k \in Procs : k # i => route'[k].at \notin Window
    BY <1>1 DEF AtOne, Window
  <1>3. \A k \in Procs : Counts(k)'
    BY <1>2 DEF Counts, Window
  <1>4. Quiet'
    BY <1>1 DEF Quiet, Window
  <1>5. InodesAre'
    BY <1>1 DEF InodesAre
  <1>6. QED
    BY <1>3, <1>4, <1>5 DEF Sober

(* The caps, the inodes and the count are numbers.                         *)
LEMMA CountNumbers ==
  ASSUME Cells
  PROVE  /\ Count \in Nat /\ dumped \in Nat /\ \A cap \in Caps : cap \in Nat
         /\ \A c \in DOMAIN cells : c # Nothing
         /\ DOMAIN cells = 0..(2 * Cardinality(Procs))
  <1>1. Cardinality(Procs) \in Nat
    BY MarkerAssumption, FS_CardinalityType
  <1>2. \A cap \in Caps : cap \in Nat
    BY RoutingAssumption DEF Caps
  <1>3. DOMAIN cells = 0..(2 * Cardinality(Procs)) /\ dumped \in Nat
    BY DEF Cells
  <1>4. \A c \in DOMAIN cells : c \in Nat
    BY <1>1, <1>3
  <1>5. Count \in Nat
    <2>1. counter # Nothing => counter \in DOMAIN cells /\ cells[counter] \in Nat \cup {Nothing}
      BY DEF Cells
    <2>2. QED
      BY <2>1 DEF Count
  <1>6. QED
    BY <1>2, <1>3, <1>4, <1>5, RoutingAssumption

LEMMA CapCounts ==
  ASSUME LinesIInv, CountIInv, NEW i \in Procs, NEW cap \in Caps, CapIsChecked(i, cap)
  PROVE  CountIInv'
  <1> DEFINE job == [route[i] EXCEPT !.at = "append"]
  <1>1. /\ route[i].at = "cap" /\ faults' = faults
        /\ cells' = cells /\ counter' = counter /\ tmp' = tmp /\ dumped' = dumped
        /\ \/ Count < cap /\ Goes(i, job) /\ met' = (met \/ OthersInWindow(i))
           \/ Goes(i, Free) /\ met' = met
    BY DEF CapIsChecked, RouteAt, GoesTo, BelowCap, bounds
  <1>2. Routes
    BY LinesAre
  <1>3. IsRoute(job) /\ job.at = "append" /\ job.inode = route[i].inode
    BY RouteIsAt, JobOf
  <1> HIDE DEF job
  <1>4. CASE Goes(i, Free) /\ met' = met
    BY <1>1, <1>4, FreeIs, CountOutside DEF Window, counting
  <1>5. CASE Count < cap /\ Goes(i, job) /\ met' = (met \/ OthersInWindow(i))
    <2>1. met' \in BOOLEAN /\ (~met' => ~met /\ ~OthersInWindow(i))
      BY <1>5 DEF CountIInv
    <2>2. ~met' => AtOne'
      BY <1>2, <1>3, <1>5, <2>1, OneStays
    <2>3. ASSUME ~met', faults' = 0
          PROVE  Sober'
      <3>1. Sober /\ AtOne'
        BY <1>1, <2>1, <2>2, <2>3 DEF CountIInv
      <3>2. route'[i] = job
        BY <1>2, <1>3, <1>5, GoesIs
      <3>3. \A k \in Procs : route[k].at \notin Window
        BY <1>1, <2>1, <2>3 DEF OthersInWindow, Window
      <3>4. Count = dumped /\ tmp = Nothing /\ InodesAre /\ Cells /\ Uncut
        BY <3>1, <3>3 DEF Sober, Quiet
      <3>5. Count' = Count /\ Count \in Nat
        BY <1>1, <3>4, CountNumbers DEF Count
      <3>6. Cells' /\ Uncut'
        BY <1>1, <3>4 DEF Cells, Uncut, Caps
      <3>7. Counts(i)'
        <4>1. route'[i].at = "append" /\ tmp' = Nothing
          BY <1>1, <1>3, <3>2, <3>4
        <4>2. Owed(i)' = 0 /\ Count' + 0 = dumped'
          BY <1>1, <3>4, <3>5, <4>1 DEF Owed
        <4>3. \E c \in Caps : dumped' < c
          BY <1>1, <1>5, <3>4
        <4>4. Count' + Owed(i)' = dumped'
          BY <4>2
        <4>5. QED
          BY <4>1, <4>3, <4>4 DEF Counts, Caps
      <3>8. job.at \in Window /\ job.inode = Nothing
        BY <1>1, <1>3, <3>4 DEF InodesAre, Window
      <3>9. QED
        BY <1>2, <1>3, <1>5, <3>1, <3>4, <3>6, <3>7, <3>8, SoberInside
    <2>4. QED
      BY <2>1, <2>2, <2>3 DEF CountIInv
  <1>6. QED
    BY <1>1, <1>4, <1>5

LEMMA ResetCounts ==
  ASSUME LinesIInv, CountIInv, NEW i \in Procs, ResetStarts(i)
  PROVE  CountIInv'
  <1> DEFINE job == [Free EXCEPT !.at = "count", !.row = Reset]
  <1>1. /\ route[i].at = "free" /\ faults' = faults /\ Goes(i, job)
        /\ cells' = cells /\ counter' = counter /\ tmp' = tmp /\ dumped' = dumped
        /\ met' = (met \/ OthersInWindow(i))
    BY DEF ResetStarts, Begins, RouteAt
  <1>2. Routes
    BY LinesAre
  <1>3. IsRoute(job) /\ job.at = "count" /\ job.row = Reset /\ job.inode = Nothing
    <2>1. job = WithRow(WithAt(Free, "count"), Reset)
      BY DEF WithRow, WithAt
    <2> HIDE DEF job
    <2>2. job = Job("count", Reset, Nothing, Nothing, 0, <<>>, Nothing)
      BY <2>1, FreeIs, FieldIn
    <2>3. QED
      BY <2>2, JobOf
  <1> HIDE DEF job
  <1>4. met' \in BOOLEAN /\ (~met' => ~met /\ ~OthersInWindow(i))
    BY <1>1 DEF CountIInv
  <1>5. ~met' => AtOne'
    BY <1>1, <1>2, <1>3, <1>4, OneStays
  <1>6. ASSUME ~met', faults' = 0
        PROVE  Sober'
    <2>1. Sober /\ AtOne'
      BY <1>1, <1>4, <1>5, <1>6 DEF CountIInv
    <2>2. route'[i] = job
      BY <1>1, <1>2, <1>3, GoesIs
    <2>3. \A k \in Procs : route[k].at \notin Window
      BY <1>1, <1>4, <1>6 DEF OthersInWindow, Window
    <2>4. Count = dumped /\ tmp = Nothing /\ InodesAre /\ Cells /\ Uncut
      BY <2>1, <2>3 DEF Sober, Quiet
    <2>5. Count' = Count /\ Count \in Nat
      BY <1>1, <2>4, CountNumbers DEF Count
    <2>6. Cells' /\ Uncut'
      BY <1>1, <2>4 DEF Cells, Uncut, Caps
    <2>7. Counts(i)'
      <3>1. route'[i].at = "count" /\ route'[i].row = Reset /\ tmp' = Nothing
        BY <1>1, <1>3, <2>2, <2>4
      <3>2. Owed(i)' = 0
        BY <3>1 DEF Owed, IsReset, Reset
      <3>3. Count' + Owed(i)' = dumped'
        BY <1>1, <2>4, <2>5, <3>2
      <3>4. QED
        BY <3>1, <3>3 DEF Counts
    <2>8. job.at \in Window
      BY <1>3 DEF Window
    <2>9. QED
      BY <1>1, <1>2, <1>3, <2>1, <2>4, <2>6, <2>7, <2>8, SoberInside
  <1>7. QED
    BY <1>4, <1>5, <1>6 DEF CountIInv

(* A step of the command that is between check and count.                  *)
LEMMA WindowStep ==
  ASSUME LinesIInv, CountIInv, NEW i \in Procs, NEW job, IsRoute(job), Goes(i, job),
         route[i].at \in Window, job.at \in Window, met' = met, faults' = faults,
         job.at \in {"fill", "replace"} \/ job.inode = Nothing,
         Sober => Cells' /\ Uncut' /\ Counts(i)'
  PROVE  CountIInv'
  <1>1. Routes
    BY LinesAre
  <1>2. ~met' => AtOne'
    BY <1>1, OneStays DEF CountIInv
  <1>3. ASSUME ~met', faults' = 0
        PROVE  Sober'
    <2>1. Sober /\ AtOne'
      BY <1>2, <1>3 DEF CountIInv
    <2>2. InodesAre
      BY <2>1 DEF Sober
    <2>3. QED
      BY <1>1, <2>1, <2>2, SoberInside
  <1>4. QED
    BY <1>2, <1>3 DEF CountIInv

LEMMA AppendReadsCounts ==
  ASSUME LinesIInv, CountIInv, NEW i \in Procs, AppendReads(i)
  PROVE  CountIInv'
  <1> DEFINE job == [Free EXCEPT !.at = "append_write", !.id = minted + 1, !.copy = issues]
  <1>1. /\ route[i].at = "append" /\ faults' = faults /\ Goes(i, job) /\ met' = met
        /\ cells' = cells /\ counter' = counter /\ tmp' = tmp /\ dumped' = dumped
    BY DEF AppendReads, RouteAt, bounds, counting
  <1>2. job = WithCopy(WithId(WithAt(Free, "append_write"), minted + 1), issues)
    BY DEF WithCopy, WithId, WithAt
  <1> HIDE DEF job
  <1>3. job = Job("append_write", <<>>, minted + 1, Nothing, 0, issues, Nothing)
    BY <1>2, FreeIs, FieldIn
  <1>4. IsRoute(job) /\ job.at = "append_write" /\ job.inode = Nothing
    BY <1>3, JobOf
  <1>5. route'[i] = job
    BY <1>1, <1>4, LinesAre, GoesIs
  <1>6. ASSUME Sober
        PROVE  Cells' /\ Uncut' /\ Counts(i)'
    <2>1. Cells' /\ Uncut'
      BY <1>1, <1>6 DEF Sober, Cells, Uncut, Caps
    <2>2. /\ Count + Owed(i) = dumped /\ tmp = Nothing /\ \E cap \in Caps : dumped < cap
      BY <1>1, <1>6 DEF Sober, Counts, Window
    <2>3. Owed(i)' = 0 /\ Owed(i) = 0 /\ Count' = Count
      BY <1>1, <1>4, <1>5 DEF Owed, Count
    <2>4. Count' + Owed(i)' = dumped'
      BY <1>1, <2>2, <2>3
    <2>5. QED
      BY <1>1, <1>4, <1>5, <2>1, <2>2, <2>4 DEF Counts, Caps
  <1>7. QED
    BY <1>1, <1>4, <1>6, WindowStep DEF Window

LEMMA AppendWritesCounts ==
  ASSUME LinesIInv, CountIInv, NEW i \in Procs, AppendWrites(i)
  PROVE  CountIInv'
  <1> DEFINE id == route[i].id
             job == [Free EXCEPT !.at = "count", !.row = Appended(id)]
  <1>1. /\ route[i].at = "append_write" /\ faults' = faults /\ Goes(i, job) /\ met' = met
        /\ cells' = cells /\ counter' = counter /\ tmp' = tmp /\ dumped' = dumped + 1
    BY DEF AppendWrites, RouteAt, bounds
  <1>2. job = WithRow(WithAt(Free, "count"), Appended(id))
    BY DEF WithRow, WithAt
  <1> HIDE DEF job
  <1>3. job = Job("count", Appended(id), Nothing, Nothing, 0, <<>>, Nothing)
    BY <1>2, FreeIs, FieldIn
  <1>4. IsRoute(job) /\ job.at = "count" /\ job.row = Appended(id) /\ job.inode = Nothing
    BY <1>3, JobOf
  <1> HIDE DEF id
  <1>5. route'[i] = job
    BY <1>1, <1>4, LinesAre, GoesIs
  <1>6. job.row # Reset
    BY <1>4, SilentRows DEF Silent
  <1>7. ASSUME Sober
        PROVE  Cells' /\ Uncut' /\ Counts(i)'
    <2>1. /\ Count \in Nat /\ dumped \in Nat /\ \A cap \in Caps : cap \in Nat
      BY <1>7, CountNumbers DEF Sober
    <2>2. /\ Count + Owed(i) = dumped /\ tmp = Nothing /\ \E cap \in Caps : dumped < cap
      BY <1>1, <1>7 DEF Sober, Counts, Window
    <2>3. Owed(i)' = 1 /\ Owed(i) = 0 /\ Count' = Count
      BY <1>1, <1>4, <1>5, <1>6 DEF Owed, Count, IsReset, Reset
    <2>4. Count' + Owed(i)' = dumped'
      BY <1>1, <2>1, <2>2, <2>3
    <2>5. dumped' \in Nat /\ \E cap \in Caps : dumped' <= cap
      BY <1>1, <2>1, <2>2
    <2>6. Cells' /\ Uncut'
      BY <1>1, <1>7, <2>5 DEF Sober, Cells, Uncut, Caps
    <2>7. QED
      BY <1>1, <1>4, <1>5, <2>2, <2>4, <2>6 DEF Counts
  <1>8. QED
    BY <1>1, <1>4, <1>7, WindowStep DEF Window

(* An inode that no file has is there for the temporary one.               *)
LEMMA InodeIsFree ==
  ASSUME Cells, InodesAre, tmp = Nothing, NEW i \in Procs,
         \A k \in Procs : route[k].at \notin {"fill", "replace"}
  PROVE  FreeInode \in DOMAIN cells /\ FreeInode # counter
  <1>1. InUse \subseteq {counter, Nothing}
    BY DEF InUse, InodesAre
  <1>2. /\ DOMAIN cells = 0..(2 * Cardinality(Procs))
        /\ \A c \in DOMAIN cells : c # Nothing
    BY CountNumbers
  <1>3. Cardinality(Procs) \in Nat /\ Cardinality(Procs) # 0
    BY MarkerAssumption, FS_CardinalityType, FS_EmptySet
  <1>4. 0 \in DOMAIN cells /\ 1 \in DOMAIN cells
    BY <1>2, <1>3
  <1>5. \E c \in DOMAIN cells : c \notin InUse
    BY <1>1, <1>2, <1>4
  <1>6. FreeInode \in DOMAIN cells /\ FreeInode \notin InUse
    BY <1>5 DEF FreeInode
  <1>7. counter \in InUse
    BY DEF InUse
  <1>8. QED
    BY <1>6, <1>7

LEMMA CountReadsCounts ==
  ASSUME LinesIInv, CountIInv, NEW i \in Procs, CountReads(i)
  PROVE  CountIInv'
  <1> DEFINE inode == IF tmp = Nothing THEN FreeInode ELSE tmp
             n == IF IsReset(i) THEN 0 ELSE Count + 1
             job == [route[i] EXCEPT !.at = "fill", !.inode = inode, !.n = n]
  <1>1. /\ route[i].at = "count" /\ faults' = faults /\ Goes(i, job) /\ met' = met
        /\ cells' = [cells EXCEPT ![inode] = Nothing] /\ tmp' = inode
        /\ counter' = counter /\ dumped' = dumped
    BY DEF CountReads, RouteAt, bounds
  <1>2. job = WithN(WithInode(WithAt(route[i], "fill"), inode), n)
    BY DEF WithN, WithInode, WithAt
  <1>3. tmp = Nothing => inode = FreeInode
    OBVIOUS
  <1>4. n = IF IsReset(i) THEN 0 ELSE Count + 1
    OBVIOUS
  <1> HIDE DEF job, n, inode
  <1>5. job = Job("fill", route[i].row, route[i].id, route[i].slug, n, route[i].copy, inode)
    BY <1>2, RouteWithAt, FieldIn
  <1>6. /\ IsRoute(job) /\ job.at = "fill" /\ job.row = route[i].row /\ job.inode = inode
        /\ job.n = n
    BY <1>5, JobOf
  <1>7. Routes /\ route'[i] = job
    BY <1>1, <1>6, LinesAre, GoesIs
  <1>8. ASSUME Sober, AtOne
        PROVE  Cells' /\ Uncut' /\ Counts(i)'
    <2>1. /\ Cells /\ InodesAre /\ Count \in Nat /\ dumped \in Nat
          /\ \A c \in DOMAIN cells : c # Nothing
      BY <1>8, CountNumbers DEF Sober
    <2>2. Count + Owed(i) = dumped /\ tmp = Nothing
      BY <1>1, <1>8 DEF Sober, Counts, Window
    <2>3. \A k \in Procs : route[k].at \notin {"fill", "replace"}
      BY <1>1, <1>8 DEF AtOne, Window
    <2>4. inode \in DOMAIN cells /\ inode # counter
      BY <1>3, <2>1, <2>2, <2>3, InodeIsFree
    <2>5. /\ DOMAIN cells' = DOMAIN cells /\ cells'[inode] = Nothing
          /\ \A c \in DOMAIN cells : c # inode => cells'[c] = cells[c]
      BY <1>1, <2>1, <2>4 DEF Cells
    <2>6. Count' = Count
      <3>1. counter # Nothing => counter \in DOMAIN cells /\ cells'[counter] = cells[counter]
        BY <2>1, <2>4, <2>5 DEF Cells
      <3>2. QED
        BY <1>1, <3>1 DEF Count
    <2>7. Cells' /\ Uncut'
      <3>1. cells' \in [0..(2 * Cardinality(Procs)) -> Nat \cup {Nothing}]
        BY <1>1, <2>1 DEF Cells
      <3>2. QED
        BY <1>1, <1>8, <2>1, <2>5, <3>1 DEF Sober, Cells, Uncut, Caps
    <2>8. (IsReset(i)' <=> IsReset(i)) /\ Owed(i)' = Owed(i)
      BY <1>1, <1>6, <1>7 DEF IsReset, Reset, Owed
    <2>9. Count' + Owed(i)' = dumped'
      BY <1>1, <2>2, <2>6, <2>8
    <2>10. route'[i].n = IF IsReset(i)' THEN 0 ELSE dumped'
      <3>1. CASE IsReset(i)
        BY <1>4, <1>6, <1>7, <2>8, <3>1
      <3>2. CASE ~IsReset(i)
        <4>1. Owed(i) = 1
          BY <1>1, <3>2 DEF Owed
        <4>2. n = dumped
          BY <1>4, <2>1, <2>2, <3>2, <4>1
        <4>3. QED
          BY <1>1, <1>6, <1>7, <2>8, <3>2, <4>2
      <3>3. QED
        BY <3>1, <3>2
    <2>11. tmp' = route'[i].inode /\ tmp' \in DOMAIN cells' /\ tmp' # counter'
      BY <1>1, <1>6, <1>7, <2>4, <2>5
    <2>12. QED
      BY <1>6, <1>7, <2>7, <2>9, <2>10, <2>11 DEF Counts
  <1>9. CASE ~met
    <2>1. AtOne
      BY <1>9 DEF CountIInv
    <2>2. QED
      BY <1>1, <1>6, <1>8, <2>1, WindowStep DEF Window
  <1>10. CASE met
    BY <1>1, <1>10 DEF CountIInv
  <1>11. QED
    BY <1>9, <1>10

LEMMA CountFillsCounts ==
  ASSUME LinesIInv, CountIInv, NEW i \in Procs, CountFills(i)
  PROVE  CountIInv'
  <1> DEFINE job == [route[i] EXCEPT !.at = "replace"]
  <1>1. /\ route[i].at = "fill" /\ faults' = faults /\ Goes(i, job) /\ met' = met
        /\ cells' = [cells EXCEPT ![route[i].inode] = route[i].n] /\ tmp' = tmp
        /\ counter' = counter /\ dumped' = dumped
    BY DEF CountFills, RouteAt, GoesTo, bounds
  <1>2. /\ IsRoute(job) /\ job.at = "replace" /\ job.row = route[i].row
        /\ job.inode = route[i].inode /\ job.n = route[i].n
    BY RouteIsAt, JobOf
  <1> HIDE DEF job
  <1>3. Routes /\ route'[i] = job
    BY <1>1, <1>2, LinesAre, GoesIs
  <1>4. ASSUME Sober
        PROVE  Cells' /\ Uncut' /\ Counts(i)'
    <2>1. Cells /\ Count \in Nat /\ dumped \in Nat
      BY <1>4, CountNumbers DEF Sober
    <2>2. /\ Count + Owed(i) = dumped /\ tmp = route[i].inode /\ tmp \in DOMAIN cells
          /\ tmp # counter /\ route[i].n = IF IsReset(i) THEN 0 ELSE dumped
      BY <1>1, <1>4 DEF Sober, Counts, Window
    <2>3. route[i].n \in Nat
      BY <2>1, <2>2
    <2>4. /\ DOMAIN cells' = DOMAIN cells /\ cells'[tmp] = route[i].n
          /\ \A c \in DOMAIN cells : c # tmp => cells'[c] = cells[c]
      BY <1>1, <2>1, <2>2 DEF Cells
    <2>5. Count' = Count
      <3>1. counter # Nothing => counter \in DOMAIN cells /\ cells'[counter] = cells[counter]
        BY <2>1, <2>2, <2>4 DEF Cells
      <3>2. QED
        BY <1>1, <3>1 DEF Count
    <2>6. Cells' /\ Uncut'
      <3>1. cells' \in [0..(2 * Cardinality(Procs)) -> Nat \cup {Nothing}]
        BY <1>1, <2>1, <2>3 DEF Cells
      <3>2. QED
        BY <1>1, <1>4, <2>1, <2>4, <3>1 DEF Sober, Cells, Uncut, Caps
    <2>7. (IsReset(i)' <=> IsReset(i)) /\ Owed(i)' = Owed(i)
      BY <1>1, <1>2, <1>3 DEF IsReset, Reset, Owed
    <2>8. Count' + Owed(i)' = dumped'
      BY <1>1, <2>2, <2>5, <2>7
    <2>9. /\ tmp' = route'[i].inode /\ tmp' \in DOMAIN cells' /\ tmp' # counter'
          /\ route'[i].n = IF IsReset(i)' THEN 0 ELSE dumped'
          /\ cells'[tmp'] = route'[i].n
      BY <1>1, <1>2, <1>3, <2>2, <2>4, <2>7
    <2>10. QED
      BY <1>2, <1>3, <2>6, <2>8, <2>9 DEF Counts
  <1>5. QED
    BY <1>1, <1>2, <1>4, WindowStep DEF Window

LEMMA CountReplacesCounts ==
  ASSUME LinesIInv, CountIInv, NEW i \in Procs, CountReplaces(i)
  PROVE  CountIInv'
  <1> DEFINE job == Telling(route[i].row)
  <1>1. /\ route[i].at = "replace" /\ faults' = faults /\ Goes(i, job) /\ met' = met
        /\ cells' = cells /\ counter' = tmp /\ tmp' = Nothing /\ tmp # Nothing
        /\ dumped' = IF IsReset(i) THEN 0 ELSE dumped
    BY DEF CountReplaces, RouteAt, bounds
  <1>2. IsRoute(job) /\ job.at = "tell" /\ job.inode = Nothing
    BY TellingIs, JobOf
  <1> HIDE DEF job
  <1>3. Routes /\ route'[i] = job /\ \A k \in Procs : k # i => route'[k] = route[k]
    BY <1>1, <1>2, LinesAre, GoesIs
  <1>4. ~met' => AtOne'
    BY <1>1, <1>2, <1>3, OneStays DEF CountIInv, Window
  <1>5. ASSUME Sober, AtOne
        PROVE  Sober'
    <2>1. Cells /\ Uncut /\ InodesAre /\ dumped \in Nat /\ \A cap \in Caps : cap \in Nat
      BY <1>5, CountNumbers DEF Sober
    <2>2. /\ tmp \in DOMAIN cells /\ route[i].n = (IF IsReset(i) THEN 0 ELSE dumped)
          /\ cells[tmp] = route[i].n
      BY <1>1, <1>5 DEF Sober, Counts, Window
    <2>3. dumped' \in Nat /\ dumped' <= dumped
      BY <1>1, <2>1
    <2>4. Count' = dumped'
      <3>1. counter' # Nothing /\ cells'[counter'] = dumped' /\ dumped' # Nothing
        BY <1>1, <2>2, <2>3, RoutingAssumption
      <3>2. QED
        BY <3>1 DEF Count
    <2>5. Cells'
      BY <1>1, <2>1, <2>2, <2>3 DEF Cells
    <2>6. Uncut'
      <3>1. PICK cap \in Caps : dumped <= cap
        BY <2>1 DEF Uncut
      <3>2. dumped' <= cap
        BY <2>1, <2>3, <3>1
      <3>3. QED
        BY <3>1, <3>2 DEF Uncut, Caps
    <2>7. \A k \in Procs : route'[k].at \notin Window
      BY <1>1, <1>2, <1>3, <1>5 DEF AtOne, Window
    <2>8. Quiet' /\ \A k \in Procs : Counts(k)'
      BY <1>1, <2>4, <2>7 DEF Quiet, Counts, Window
    <2>9. InodesAre'
      BY <1>2, <1>3, <2>1 DEF InodesAre
    <2>10. QED
      BY <2>5, <2>6, <2>8, <2>9 DEF Sober
  <1>6. QED
    BY <1>1, <1>4, <1>5 DEF CountIInv

(* The rename finds no temporary file only when two commands met.          *)
LEMMA GoneCounts ==
  ASSUME LinesIInv, CountIInv, NEW i \in Procs, CountIsGone(i)
  PROVE  CountIInv'
  <1>1. /\ route[i].at = "replace" /\ tmp = Nothing /\ Goes(i, Free) /\ faults' = faults
        /\ UNCHANGED counting
    BY DEF CountIsGone, RouteAt, Ends
  <1>2. ASSUME ~met, faults' = 0
        PROVE  FALSE
    <2>1. Sober
      BY <1>1, <1>2 DEF CountIInv
    <2>2. tmp \in DOMAIN cells /\ Cells
      BY <1>1, <2>1 DEF Sober, Counts, Window
    <2>3. QED
      BY <1>1, <2>2, CountNumbers
  <1>3. QED
    BY <1>1, <1>2, FreeIs, CountOutside DEF Window

LEMMA FailuresCount ==
  ASSUME LinesIInv, CountIInv, NEW i \in Procs, RoutingWriteFails(i) \/ RoutingKilled(i)
  PROVE  CountIInv'
  <1>1. Goes(i, Free) /\ faults' = faults + 1 /\ UNCHANGED counting
    BY DEF RoutingWriteFails, RoutingKilled, Ends, Fault
  <1>2. faults \in Nat
    BY LinesAre
  <1>3. faults' # 0
    BY <1>1, <1>2
  <1>4. QED
    BY <1>1, <1>3, FreeIs, CountOutside DEF Window

(* The other commands of the router never come between check and count.    *)
Apartly(i, job) ==
  /\ IsRoute(job) /\ Goes(i, job) /\ UNCHANGED counting /\ faults' = faults
  /\ route[i].at \notin Window /\ job.at \notin Window
  /\ job.inode = Nothing \/ (job.inode = route[i].inode /\ route[i].at \notin {"fill", "replace"})

LEMMA OthersCount ==
  ASSUME LinesIInv, CountIInv, NEW i \in Procs, NEW job, Apartly(i, job)
  PROVE  CountIInv'
  BY CountOutside DEF Apartly, InodesAre

LEMMA FreeCounts ==
  ASSUME NEW i \in Procs, Goes(i, Free), UNCHANGED counting, faults' = faults,
         route[i].at \notin Window
  PROVE  Apartly(i, Free)
  BY FreeIs DEF Apartly, Window

LEMMA TellingCounts ==
  ASSUME NEW i \in Procs, NEW row, Goes(i, Telling(row)), UNCHANGED counting, faults' = faults,
         route[i].at \notin Window
  PROVE  Apartly(i, Telling(row))
  <1>1. IsRoute(Telling(row)) /\ Telling(row).at = "tell" /\ Telling(row).inode = Nothing
    BY TellingIs, JobOf
  <1>2. QED
    BY <1>1 DEF Apartly, Window

LEMMA StepsCount ==
  ASSUME LinesIInv, NEW i \in Procs,
         \/ TellsDelegated(i) \/ TellsRoute(i) \/ RaisesFile(i) \/ MakesPlan(i) \/ WritesRecon(i)
         \/ PromoteReads(i) \/ MarksLine(i) \/ UndoesPlan(i) \/ LessonReads(i) \/ LessonWrites(i)
  PROVE  \E job : Apartly(i, job)
  <1>1. CASE TellsDelegated(i) \/ TellsRoute(i) \/ UndoesPlan(i)
    <2>1. /\ Goes(i, Free) /\ UNCHANGED counting /\ faults' = faults
          /\ route[i].at \in {"delegated", "tell", "undo"}
      BY <1>1 DEF TellsDelegated, TellsRoute, UndoesPlan, Ends, RouteAt
    <2>2. QED
      BY <2>1, FreeCounts DEF Window
  <1>2. CASE RaisesFile(i) \/ MarksLine(i) \/ LessonWrites(i)
    <2>1. /\ \E row : Goes(i, Telling(row))
          /\ UNCHANGED counting /\ faults' = faults
          /\ route[i].at \in {"raise", "mark", "lesson_write"}
      BY <1>2 DEF RaisesFile, MarksLine, LessonWrites, RouteAt, bounds
    <2>2. QED
      BY <2>1, TellingCounts DEF Window
  <1>3. CASE WritesRecon(i)
    <2> DEFINE job == [route[i] EXCEPT !.at = "promote"]
    <2>1. /\ Goes(i, job) /\ UNCHANGED counting /\ faults' = faults /\ route[i].at = "recon"
      BY <1>3 DEF WritesRecon, RouteAt, GoesTo, bounds
    <2>2. IsRoute(job) /\ job.at = "promote" /\ job.inode = route[i].inode
      BY RouteIsAt, JobOf
    <2> HIDE DEF job
    <2>3. QED
      BY <2>1, <2>2 DEF Apartly, Window
  <1>4. CASE MakesPlan(i)
    <2> DEFINE job == [route[i] EXCEPT !.at = "recon"]
    <2>1. /\ Goes(i, job) \/ Goes(i, Free)
          /\ UNCHANGED counting /\ faults' = faults /\ route[i].at = "mkdir"
      BY <1>4 DEF MakesPlan, RouteAt, GoesTo, bounds
    <2>2. IsRoute(job) /\ job.at = "recon" /\ job.inode = route[i].inode
      BY RouteIsAt, JobOf
    <2> HIDE DEF job
    <2>3. CASE Goes(i, job)
      BY <2>1, <2>2, <2>3 DEF Apartly, Window
    <2>4. CASE Goes(i, Free)
      BY <2>1, <2>4, FreeCounts DEF Window
    <2>5. QED
      BY <2>1, <2>3, <2>4
  <1>5. CASE PromoteReads(i)
    <2> DEFINE at == IF StillOpen(i) THEN "mark" ELSE "undo"
               job == [route[i] EXCEPT !.copy = issues, !.at = at]
    <2>1. /\ Goes(i, job) /\ UNCHANGED counting /\ faults' = faults /\ route[i].at = "promote"
      BY <1>5 DEF PromoteReads, RouteAt, bounds
    <2>2. job = WithAt(WithCopy(route[i], issues), at)
      BY DEF WithAt, WithCopy
    <2>3. at \in {"mark", "undo"}
      OBVIOUS
    <2> HIDE DEF job, at
    <2>4. route[i] = Job(route[i].at, route[i].row, route[i].id, route[i].slug, route[i].n,
                         route[i].copy, route[i].inode)
      BY RouteIsAt, RouteIsJob
    <2>5. WithCopy(route[i], issues)
            = Job(route[i].at, route[i].row, route[i].id, route[i].slug, route[i].n, issues,
                  route[i].inode)
      BY <2>4, FieldIn
    <2>6. job = Job(at, route[i].row, route[i].id, route[i].slug, route[i].n, issues,
                    route[i].inode)
      BY <2>2, <2>5, FieldIn
    <2>7. IsRoute(job) /\ job.at = at /\ job.inode = route[i].inode
      BY <2>6, JobOf
    <2>8. QED
      BY <2>1, <2>3, <2>7 DEF Apartly, Window
  <1>6. CASE LessonReads(i)
    <2> DEFINE m == plans[Slug(i)].lessons
               job == [route[i] EXCEPT !.at = "lesson_write", !.n = m]
    <2>1. /\ Goes(i, job) /\ UNCHANGED counting /\ faults' = faults /\ route[i].at = "lesson"
      BY <1>6 DEF LessonReads, RouteAt, bounds
    <2> HIDE DEF m
    <2>2. job = WithN(WithAt(route[i], "lesson_write"), m)
      BY DEF WithAt, WithN
    <2> HIDE DEF job
    <2>3. job = Job("lesson_write", route[i].row, route[i].id, route[i].slug, m,
                    route[i].copy, route[i].inode)
      BY <2>2, RouteWithAt, FieldIn
    <2>4. IsRoute(job) /\ job.at = "lesson_write" /\ job.inode = route[i].inode
      BY <2>3, JobOf
    <2>5. QED
      BY <2>1, <2>4 DEF Apartly, Window
  <1>7. QED
    BY <1>1, <1>2, <1>3, <1>4, <1>5, <1>6

LEMMA StartsCount ==
  ASSUME LinesIInv, NEW i \in Procs,
         \/ \E type \in {"fix-now", "outstanding", "escalate"}, c \in Contexts :
               RouteStarts(i, type, c)
         \/ \E r \in Requests, c \in Contexts : RouteMarkerStarts(i, r, c)
         \/ \E id \in Ids, slug \in Slugs, c \in Contexts : PromoteStarts(i, id, slug, c)
         \/ \E slug \in Slugs, complete \in BOOLEAN : LessonStarts(i, slug, complete)
  PROVE  \E job : Apartly(i, job)
  <1> DEFINE free(at) == [Free EXCEPT !.at = at]
             fix == Telling(<<"fix_now_logged">>)
             lesson(s) == [Free EXCEPT !.at = "lesson", !.slug = s]
             mkdir(id, s) == [Free EXCEPT !.at = "mkdir", !.id = id, !.slug = s]
  <1>1. /\ route[i].at = "free" /\ UNCHANGED counting /\ faults' = faults
        /\ \/ Goes(i, Free) \/ Goes(i, fix) \/ \E at \in {"cap", "raise", "delegated"} : Goes(i, free(at))
           \/ (\E s : Goes(i, lesson(s))) \/ \E id, s : Goes(i, mkdir(id, s))
    BY DEF RouteStarts, RouteMarkerStarts, PromoteStarts, LessonStarts, Begins, RouteAt,
       CreateStarts, Starts
  <1>2. CASE Goes(i, Free)
    BY <1>1, <1>2, FreeCounts DEF Window
  <1>3. CASE Goes(i, fix)
    BY <1>1, <1>3, TellingCounts DEF Window
  <1>4. CASE \E at \in {"cap", "raise", "delegated"} : Goes(i, free(at))
    <2>1. PICK at \in {"cap", "raise", "delegated"} : Goes(i, free(at))
      BY <1>4
    <2>2. free(at) = WithAt(Free, at)
      BY DEF WithAt
    <2>3. WithAt(Free, at) = Job(at, <<>>, Nothing, Nothing, 0, <<>>, Nothing)
      BY FreeIs, FieldIn
    <2> HIDE DEF free
    <2>4. IsRoute(free(at)) /\ free(at).at = at /\ free(at).inode = Nothing
      BY <2>2, <2>3, JobOf
    <2>5. QED
      BY <1>1, <2>1, <2>4 DEF Apartly, Window
  <1>5. CASE \E s : Goes(i, lesson(s))
    <2>1. PICK s : Goes(i, lesson(s))
      BY <1>5
    <2>2. lesson(s) = WithSlug(WithAt(Free, "lesson"), s)
      BY DEF WithAt, WithSlug
    <2>3. WithSlug(WithAt(Free, "lesson"), s) = Job("lesson", <<>>, Nothing, s, 0, <<>>, Nothing)
      BY FreeIs, FieldIn
    <2> HIDE DEF lesson
    <2>4. IsRoute(lesson(s)) /\ lesson(s).at = "lesson" /\ lesson(s).inode = Nothing
      BY <2>2, <2>3, JobOf
    <2>5. QED
      BY <1>1, <2>1, <2>4 DEF Apartly, Window
  <1>6. CASE \E id, s : Goes(i, mkdir(id, s))
    <2>1. PICK id, s : Goes(i, mkdir(id, s))
      BY <1>6
    <2>2. mkdir(id, s) = WithSlug(WithId(WithAt(Free, "mkdir"), id), s)
      BY DEF WithAt, WithSlug, WithId
    <2>3. WithSlug(WithId(WithAt(Free, "mkdir"), id), s)
            = Job("mkdir", <<>>, id, s, 0, <<>>, Nothing)
      BY FreeIs, FieldIn
    <2> HIDE DEF mkdir
    <2>4. IsRoute(mkdir(id, s)) /\ mkdir(id, s).at = "mkdir" /\ mkdir(id, s).inode = Nothing
      BY <2>2, <2>3, JobOf
    <2>5. QED
      BY <1>1, <2>1, <2>4 DEF Apartly, Window
  <1>7. QED
    BY <1>1, <1>2, <1>3, <1>4, <1>5, <1>6

LEMMA CountBegins ==
  ASSUME Init
  PROVE  CountIInv
  <1>1. /\ cells = [c \in 0..(2 * Cardinality(Procs)) |-> Nothing] /\ counter = Nothing
        /\ tmp = Nothing /\ dumped = 0 /\ met = FALSE /\ route = [i \in Procs |-> Free]
    BY DEF Init
  <1>2. \A i \in Procs : route[i] = Free
    BY <1>1
  <1>3. \A i \in Procs : route[i].at \notin Window /\ route[i].inode = Nothing
    BY <1>2, FreeIs DEF Window
  <1>4. Cells
    BY <1>1 DEF Cells
  <1>5. Uncut
    <2>1. Cap \in Caps /\ Cap \in Nat
      BY RoutingAssumption DEF Caps
    <2>2. dumped <= Cap
      BY <1>1, <2>1
    <2>3. QED
      BY <2>1, <2>2 DEF Uncut
  <1>6. Quiet
    BY <1>1 DEF Quiet, Count
  <1>7. InodesAre /\ AtOne /\ \A i \in Procs : Counts(i)
    BY <1>3 DEF InodesAre, AtOne, Counts
  <1>8. QED
    BY <1>1, <1>4, <1>5, <1>6, <1>7 DEF CountIInv, Sober

LEMMA CountNext ==
  ASSUME LinesIInv, CountIInv, [Next]_vars
  PROVE  CountIInv'
  <1>1. CASE UNCHANGED vars
    <2>1. UNCHANGED <<routing, counting>> /\ faults' = faults
      BY <1>1 DEF vars, bounds
    <2>2. QED
      BY <2>1, CountElsewhere
  <1>2. CASE ByHand
    <2>1. UNCHANGED <<routing, counting>> /\ faults' = faults
      BY <1>2 DEF ByHand, RetiresByHand, ResolvesByHand
    <2>2. QED
      BY <2>1, CountElsewhere
  <1>3. ASSUME NEW i \in Procs, Command(i)
        PROVE  CountIInv'
    <2>1. CASE MarkerStarts(i) /\ UNCHANGED <<routing, lines, counting>>
      BY <2>1, MarkersStartSilent, CountElsewhere
    <2>2. CASE ResetStarts(i)
      BY <2>2, ResetCounts
    <2>3. CASE \/ \E type \in {"fix-now", "outstanding", "escalate"}, c \in Contexts :
                    RouteStarts(i, type, c)
               \/ \E r \in Requests, c \in Contexts : RouteMarkerStarts(i, r, c)
               \/ \E id \in Ids, slug \in Slugs, c \in Contexts : PromoteStarts(i, id, slug, c)
               \/ \E slug \in Slugs, complete \in BOOLEAN : LessonStarts(i, slug, complete)
      BY <2>3, StartsCount, OthersCount
    <2>4. QED
      BY <1>3, <2>1, <2>2, <2>3 DEF Command
  <1>4. ASSUME NEW i \in Procs, Step(i)
        PROVE  CountIInv'
    <2>1. CASE MarkerStep(i) /\ UNCHANGED <<routing, lines, counting>>
      <3>1. faults \in 0..MaxFaults /\ MaxFaults \in Nat
        BY LinesAre, MarkerAssumption DEF Shapes
      <3>2. faults' \in 0..MaxFaults /\ faults <= faults'
        BY <2>1, <3>1, MarkersAreSilent
      <3>3. faults' = 0 => faults = 0
        BY <3>1, <3>2
      <3>4. QED
        BY <2>1, <3>3, CountElsewhere
    <2>2. CASE \E cap \in Caps : CapIsChecked(i, cap)
      BY <2>2, CapCounts
    <2>3. CASE AppendReads(i) \/ AppendWrites(i)
      BY <2>3, AppendReadsCounts, AppendWritesCounts
    <2>4. CASE CountReads(i) \/ CountFills(i) \/ CountReplaces(i) \/ CountIsGone(i)
      BY <2>4, CountReadsCounts, CountFillsCounts, CountReplacesCounts, GoneCounts
    <2>5. CASE RoutingWriteFails(i) \/ RoutingKilled(i)
      BY <2>5, FailuresCount
    <2>6. CASE \/ TellsDelegated(i) \/ TellsRoute(i) \/ RaisesFile(i) \/ MakesPlan(i)
               \/ WritesRecon(i) \/ PromoteReads(i) \/ MarksLine(i) \/ UndoesPlan(i)
               \/ LessonReads(i) \/ LessonWrites(i)
      BY <2>6, StepsCount, OthersCount
    <2>7. QED
      BY <1>4, <2>1, <2>2, <2>3, <2>4, <2>5, <2>6 DEF Step
  <1>5. QED
    BY <1>1, <1>2, <1>3, <1>4 DEF Next

LEMMA CapShown ==
  ASSUME LinesIInv, CountIInv
  PROVE  CapHoldsAlone
  <1>1. faults \in Nat
    BY LinesAre
  <1>2. SUFFICES ASSUME ~met, ~(faults > 0)
                 PROVE  ~\A cap \in Caps : dumped > cap
    BY DEF CapHoldsAlone
  <1>3. Sober
    BY <1>1, <1>2 DEF CountIInv
  <1>4. dumped \in Nat /\ \A cap \in Caps : cap \in Nat
    BY <1>3, CountNumbers DEF Sober
  <1>5. PICK cap \in Caps : dumped <= cap
    BY <1>3 DEF Sober, Uncut
  <1>6. QED
    BY <1>4, <1>5

(* The markers, under every step of the router.                            *)
LEMMA FaultsRange ==
  ASSUME MarkersIInv
  PROVE  /\ left \in 0..MaxCommands /\ faults \in 0..MaxFaults /\ faults <= faults
         /\ Fault => faults' \in 0..MaxFaults /\ faults <= faults'
         /\ left > 0 /\ left' = left - 1 => left' \in 0..MaxCommands
  <1>1. left \in 0..MaxCommands /\ faults \in 0..MaxFaults
    BY DEF MarkersIInv, Files
  <1>2. MaxFaults \in Nat /\ MaxCommands \in Nat
    BY MarkerAssumption
  <1>3. QED
    BY <1>1, <1>2 DEF Fault

LEMMA MarkersNext ==
  ASSUME MarkersIInv, [Next]_vars
  PROVE  MarkersIInv'
  <1>1. /\ left \in 0..MaxCommands /\ faults \in 0..MaxFaults /\ faults <= faults
        /\ Fault => faults' \in 0..MaxFaults /\ faults <= faults'
        /\ left > 0 /\ left' = left - 1 => left' \in 0..MaxCommands
    BY FaultsRange
  <1>2. CASE UNCHANGED vars
    <2>1. UNCHANGED <<cmd, locks, pages>> /\ told' = told /\ left' = left /\ faults' = faults
      BY <1>2 DEF vars, markers, bounds
    <2>2. QED
      BY <1>1, <2>1, ElsewhereIs
  <1>3. CASE ByHand
    <2>1. CASE \E p \in PrefixIds : RetiresByHand(p)
      BY <2>1, PrefixIsRetired
    <2>2. CASE \E id \in Ids : ResolvesByHand(id)
      <3>1. /\ UNCHANGED <<cmd, locks, pages>> /\ told' = told /\ faults' = faults
            /\ left > 0 /\ left' = left - 1
        BY <2>2 DEF ResolvesByHand, markers
      <3>2. QED
        BY <1>1, <3>1, ElsewhereIs
    <2>3. QED
      BY <1>3, <2>1, <2>2 DEF ByHand
  <1>4. ASSUME NEW i \in Procs, Command(i)
        PROVE  MarkersIInv'
    <2>1. CASE MarkerStarts(i) \/ \E r \in Requests, c \in Contexts : RouteMarkerStarts(i, r, c)
      <3>1. MarkerStarts(i)
        BY <2>1 DEF RouteMarkerStarts, MarkerStarts
      <3>2. QED
        BY <3>1, MarkersAreStarted
    <2>2. CASE \/ ResetStarts(i)
               \/ \E type \in {"fix-now", "outstanding", "escalate"}, c \in Contexts :
                    RouteStarts(i, type, c)
               \/ \E id \in Ids, slug \in Slugs, c \in Contexts : PromoteStarts(i, id, slug, c)
               \/ \E slug \in Slugs, complete \in BOOLEAN : LessonStarts(i, slug, complete)
      <3>1. /\ UNCHANGED <<cmd, locks, pages>> /\ told' = told /\ faults' = faults
            /\ left > 0 /\ left' = left - 1
        BY <2>2 DEF ResetStarts, RouteStarts, PromoteStarts, LessonStarts, Begins, markers
      <3>2. QED
        BY <1>1, <3>1, ElsewhereIs
    <2>3. QED
      BY <1>4, <2>1, <2>2 DEF Command
  <1>5. ASSUME NEW i \in Procs, Step(i)
        PROVE  MarkersIInv'
    <2>1. CASE MarkerStep(i)
      BY <2>1, MarkersStep
    <2>2. CASE \/ RaisesFile(i) \/ (\E cap \in Caps : CapIsChecked(i, cap))
               \/ AppendReads(i) \/ AppendWrites(i)
               \/ CountReads(i) \/ CountFills(i) \/ CountReplaces(i)
      <3>1. /\ UNCHANGED <<cmd, locks, pages>> /\ told' = told /\ faults' = faults /\ left' = left
        BY <2>2 DEF RaisesFile, CapIsChecked, AppendReads, AppendWrites, CountReads, CountFills,
           CountReplaces, markers, bounds
      <3>2. QED
        BY <1>1, <3>1, ElsewhereIs
    <2>3. CASE \/ MakesPlan(i) \/ WritesRecon(i) \/ PromoteReads(i) \/ MarksLine(i)
               \/ LessonReads(i) \/ LessonWrites(i)
      <3>1. /\ UNCHANGED <<cmd, locks, pages>> /\ told' = told /\ faults' = faults /\ left' = left
        BY <2>3 DEF MakesPlan, WritesRecon, PromoteReads, MarksLine, LessonReads, LessonWrites,
           markers, bounds
      <3>2. QED
        BY <1>1, <3>1, ElsewhereIs
    <2>4. CASE TellsDelegated(i) \/ TellsRoute(i) \/ CountIsGone(i) \/ UndoesPlan(i)
      <3>1. /\ UNCHANGED <<cmd, locks, pages>> /\ told \subseteq told' /\ faults' = faults
            /\ left' = left
        BY <2>4 DEF TellsDelegated, TellsRoute, CountIsGone, UndoesPlan, Ends, Tells, markers
      <3>2. QED
        BY <1>1, <3>1, ElsewhereIs
    <2>5. CASE RoutingWriteFails(i) \/ RoutingKilled(i)
      <3>1. /\ UNCHANGED <<cmd, locks, pages>> /\ told' = told /\ Fault /\ left' = left
        BY <2>5 DEF RoutingWriteFails, RoutingKilled, Ends, markers
      <3>2. QED
        BY <1>1, <3>1, ElsewhereIs
    <2>6. QED
      BY <1>5, <2>1, <2>2, <2>3, <2>4, <2>5 DEF Step
  <1>6. QED
    BY <1>2, <1>3, <1>4, <1>5 DEF Next

(***************************************************************************)
(* Theorems                                                                *)
(***************************************************************************)
RoutingIInv == MarkersIInv /\ LinesIInv /\ CountIInv

LEMMA InvariantShows ==
  ASSUME RoutingIInv
  PROVE  RoutingInv
  <1>1. MarkersIInv /\ LinesIInv /\ CountIInv
    BY DEF RoutingIInv
  <1>2. NumbersAreBurned /\ RowsAreKept /\ RowsValidate
    BY <1>1 DEF MarkersIInv
  <1>3. TypeOK /\ TracesCostAFault
    BY <1>1, TypesShown, TracesShown
  <1>4. PromotionIsWhole /\ NothingAppendedIsLost /\ CapHoldsAlone
    BY <1>1, PromotionShown, NothingLostShown, CapShown
  <1>5. QED
    BY <1>2, <1>3, <1>4 DEF RoutingInv

(* In every reachable state the list and the registry are as the holders   *)
(* of their flocks rely on them being; the lines and the plans are as the  *)
(* writers and the promotions on their way rely on them being; and as long *)
(* as no two commands met between check and count, and nothing failed, the *)
(* counter says what was appended but for what is still to be counted.     *)
THEOREM RoutingIInvHolds == Spec => []RoutingIInv
  <1>1. Init => RoutingIInv
    <2>1. Init => MarkerInit
      BY DEF Init
    <2>2. QED
      BY <2>1, MarkersBegin, LinesBegin, CountBegins DEF RoutingIInv
  <1>2. RoutingIInv /\ [Next]_vars => RoutingIInv'
    BY MarkersNext, LinesNext, CountNext DEF RoutingIInv
  <1>3. QED
    BY <1>1, <1>2, PTL DEF Spec

(* For any processes, prefixes, requests, plans, caps and bounds: numbers  *)
(* are burned, no row is lost and every row validates, and whatever is     *)
(* orphaned or untold cost a fault (create and close); a promoted line and *)
(* its recon name each other but for a promotion that failed or is on its  *)
(* way; what was appended and told of is there; and the cap holds for      *)
(* commands that do not meet (route_issue and lessons).                    *)
THEOREM RoutingIsSound == Spec => []RoutingInv
  <1>1. RoutingIInv => RoutingInv
    BY InvariantShows
  <1>2. QED
    BY <1>1, RoutingIInvHolds, PTL

LEMMA ClosedStays ==
  ASSUME MarkersIInv, [Next]_vars
  PROVE  list' = list \/ IsPrefix(list.closed, list'.closed)
  <1>1. CASE UNCHANGED vars \/ ByHand
    BY <1>1 DEF vars, markers, pages, ByHand, RetiresByHand, ResolvesByHand
  <1>2. ASSUME NEW i \in Procs, Command(i)
        PROVE  list' = list
    BY <1>2 DEF Command, MarkerStarts, CreateStarts, CloseStarts, RegisterStarts, ResetStarts,
       RouteStarts, RouteMarkerStarts, PromoteStarts, LessonStarts, markers, pages
  <1>3. ASSUME NEW i \in Procs, Step(i)
        PROVE  list' = list \/ IsPrefix(list.closed, list'.closed)
    <2>1. CASE MovesRow(i)
      BY <2>1, RowIsMoved
    <2>2. CASE WritesRow(i)
      <3>1. list'.closed = list.closed
        <4>1. list = [active |-> list.active, closed |-> list.closed]
          BY DEF MarkersIInv, Files
        <4>2. list' = [list EXCEPT !.active = Append(@, Row(i))]
          BY <2>2 DEF WritesRow
        <4>3. QED
          BY <4>1, <4>2
      <3>2. list.closed \in Seq(Entry)
        BY DEF MarkersIInv, Files
      <3>3. QED
        BY <3>1, <3>2, PrefixOfMore
    <2>3. CASE MarkerStep(i) /\ ~MovesRow(i) /\ ~WritesRow(i)
      BY <2>3 DEF MarkerStep, PrefixIsChecked, TellsRefused, CreateLocks, SchemaRefuses,
         WritesDetail, NoHeadings, TellsCreated, CloseLocks, ClosedMeanwhile, TellsClosed,
         RegisterLocks, RegisteredMeanwhile, AddsPrefix, TellsRegistered, MarkerWriteFails,
         Killed, Tells, markers, pages
    <2>4. CASE ~MarkerStep(i)
      BY <1>3, <2>4 DEF Step, TellsDelegated, TellsRoute, RaisesFile, CapIsChecked, AppendReads,
         AppendWrites, CountReads, CountFills, CountReplaces, CountIsGone, MakesPlan, WritesRecon,
         PromoteReads, MarksLine, UndoesPlan, LessonReads, LessonWrites, RoutingWriteFails,
         RoutingKilled, Tells, markers, pages
    <2>5. QED
      BY <2>1, <2>2, <2>3, <2>4
  <1>4. QED
    BY <1>1, <1>2, <1>3 DEF Next

(* No step of any command, and no hand that retires a prefix or resolves a *)
(* line, changes or takes out a row of the closed section (close moves     *)
(* what it read under the flock of the list).                              *)
THEOREM ClosedStaysFinal == Spec => ClosedIsFinal
  <1>1. RoutingIInv /\ [Next]_vars => [IsPrefix(list.closed, list'.closed)]_list
    BY ClosedStays DEF RoutingIInv
  <1>2. QED
    BY <1>1, RoutingIInvHolds, PTL DEF Spec, ClosedIsFinal
=============================================================================
