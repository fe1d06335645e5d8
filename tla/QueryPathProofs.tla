---------------------------- MODULE QueryPathProofs ----------------------------
(***************************************************************************)
(* Proofs about QueryPath.                                                  *)
(*                                                                          *)
(* Two arguments meet here.  One is about the process: a call keeps what it  *)
(* was decided by, and every row of the log, on its way or arrived, is of a  *)
(* call that was decided so (IInv).  The other is about the functions of     *)
(* the planner and of the policy, for every scenario and every request: what *)
(* the planner lets through stays in the bundle of its agent, and what the   *)
(* policy lets through shows no PII that it names.                           *)
(***************************************************************************)
EXTENDS QueryPath, WellFoundedInduction, SequenceTheorems, TLAPS

-----------------------------------------------------------------------------
(* The process *)

Names == UNION {PiiNames(Scenarios[v]) : v \in Versions}

Made ==
    [pc : {"asked", "allowed", "blocked", "rows", "failed", "lost"}, from : Sources,
     by : Versions \cup {0}, checks : SUBSET Checks, masked : SUBSET Names]

\* What decided a call: OPA, at a version, or nobody.
Decided(call) ==
    \/ /\ call.by \in Versions
       /\ call.checks = Verdict[call.from][call.by]
    \/ call.by = 0 /\ call.checks = {"opa_error"}

CallHolds(call) ==
    \/ call \in {Idle, Answered}
    \/ /\ call \in Made
       /\ ~Refused[call.from]
       /\ call.pc \notin {"asked", "lost"} =>
             Decided(call) /\ (call.pc = "blocked" <=> call.checks # {})

LogRows ==
    [call : Calls, from : Sources, allowed : BOOLEAN, error : BOOLEAN,
     by : Versions \cup {0}, revision : Versions, contract : Calls \cup {Null}]

\* The row of a call, as it is sent and as it is stored.
RowHolds(r) ==
    /\ r \in LogRows
    /\ calls[r.call] \in Made /\ calls[r.call].pc # "asked"
    /\ Decided(calls[r.call])
    /\ r.from = calls[r.call].from /\ r.by = calls[r.call].by
    /\ r.allowed <=> calls[r.call].checks = {}
    /\ r.error <=> r.by = 0
    /\ r.contract # Null => r.contract = r.call /\ r.allowed
    /\ built = 1 => r.revision = 1

WriteHolds(w) ==
    \/ /\ w.kind = "insert"
       /\ w.call = w.row.call /\ RowHolds(w.row)
    \/ /\ w.kind = "update"
       /\ w.call \in Calls /\ calls[w.call] \in Made
       /\ calls[w.call].pc # "asked" /\ calls[w.call].checks = {}

\* A copy is no newer than what it was made of; the first build of the policy is the
\* only one there is, until the next build.
BuildsHold ==
    /\ built \in 1 .. yaml
    /\ opa \in 0 .. built
    /\ built = 1 => harness.revision = 1
    /\ \A c \in Calls : calls[c] \in Made => calls[c].by \in 0 .. built

\* The rows of an allowed call are masked by files no older than what allowed it.
MaskHolds(call) ==
    call.pc \in {"allowed", "rows"} =>
        \E v \in Versions : v \in call.by .. yaml /\ call.masked = PiiNames(Scenarios[v])

Types ==
    /\ yaml \in Versions /\ built \in Versions
    /\ opa \in Versions \cup {0}
    /\ harness \in [up : BOOLEAN, registry : Versions, revision : Versions]
    /\ DOMAIN calls = Calls
    /\ faults \in 0 .. MaxFaults

IInv ==
    /\ Types
    /\ BuildsHold
    /\ \A c \in Calls : CallHolds(calls[c]) /\ MaskHolds(calls[c])
    /\ \A w \in pending : WriteHolds(w)
    /\ \A r \in log : RowHolds(r)

\* Versions count the edits.
LEMMA VersionsCount ==
    /\ Versions \subseteq Nat \ {0} /\ 1 \in Versions
    /\ \A v \in Versions : Scenarios[v] \in ToSet(Scenarios)
<1>1. Versions = 1 .. Len(Scenarios) /\ Len(Scenarios) \in Nat
  BY ScenariosAreWellFormed DEF Versions
<1>2. Len(Scenarios) # 0
  BY ScenariosAreWellFormed
<1> QED
  BY <1>1, <1>2 DEF Versions, ToSet

LEMMA ViolationsAreChecks ==
    ASSUME NEW data, NEW input
    PROVE  Violations(data, input) \subseteq Checks \ {"opa_error"}
BY DEF Violations, Checks

LEMMA VerdictsAreChecks ==
    ASSUME NEW from \in Sources, NEW v \in Versions
    PROVE  /\ Verdict[from][v] =
                 IF Refused[from] THEN {} ELSE Violations(DataOf[v], InputOf(from))
           /\ Verdict[from][v] \subseteq Checks \ {"opa_error"}
<1>1. Verdict[from][v] =
          IF Refused[from] THEN {} ELSE Violations(DataOf[v], InputOf(from))
  BY DEF Verdict
<1> QED
  BY <1>1, ViolationsAreChecks

LEMMA Begins == Init => IInv
<1> SUFFICES ASSUME Init PROVE IInv
  OBVIOUS
<1> USE DEF Init
<1>1. Types
  BY VersionsCount, LimitsAreNumbers DEF Types
<1>2. BuildsHold
  BY DEF BuildsHold, Made, Idle
<1>3. \A c \in Calls : CallHolds(calls[c]) /\ MaskHolds(calls[c])
  BY DEF CallHolds, MaskHolds, Idle
<1> QED
  BY <1>1, <1>2, <1>3 DEF IInv

-----------------------------------------------------------------------------
(* The operator, OPA and the start of the harness *)

\* A step that leaves calls, writes and the log alone.
LEMMA RowsStay ==
    ASSUME IInv, UNCHANGED <<calls, pending, log>>, built' = 1 => built = 1,
           yaml' \in {yaml, yaml + 1}
    PROVE  /\ \A c \in Calls : CallHolds(calls[c])' /\ MaskHolds(calls[c])'
           /\ \A w \in pending' : WriteHolds(w)'
           /\ \A r \in log' : RowHolds(r)'
<1>1. \A c \in Calls : CallHolds(calls[c])'
  BY DEF IInv, CallHolds, Decided
<1>2. ASSUME NEW c \in Calls PROVE MaskHolds(calls[c])'
  <2>1. MaskHolds(calls[c])
    BY DEF IInv
  <2>2. \A v \in Versions : v \in calls[c].by .. yaml => v \in calls'[c].by .. yaml'
    BY VersionsCount DEF IInv, Types
  <2> QED
    BY <2>1, <2>2 DEF MaskHolds
<1> QED
  BY <1>1, <1>2 DEF IInv, WriteHolds, RowHolds, Decided

LEMMA DeployKeeps == IInv /\ Deploy => IInv'
<1> SUFFICES ASSUME IInv, Deploy PROVE IInv'
  OBVIOUS
<1>1. Versions \subseteq Nat \ {0} /\ MaxFaults \in Nat
  BY VersionsCount, LimitsAreNumbers
<1>2. CASE EditScenario
  <2>1. Types' /\ BuildsHold'
    BY <1>1, <1>2 DEF IInv, EditScenario, Types, BuildsHold
  <2> QED
    BY <1>2, <2>1, RowsStay DEF EditScenario, IInv
<1>3. CASE Build
  <2>1. built' # 1
    BY <1>1, <1>3 DEF IInv, Build, Types, BuildsHold
  <2>2. Types' /\ BuildsHold'
    BY <1>1, <1>3, <2>1 DEF IInv, Build, Types, BuildsHold
  <2> QED
    BY <1>3, <2>1, <2>2, RowsStay DEF Build, IInv
<1>4. CASE OpaStops
  <2>1. Types' /\ BuildsHold'
    BY <1>1, <1>4 DEF IInv, OpaStops, Types, BuildsHold
  <2> QED
    BY <1>4, <2>1, RowsStay DEF OpaStops, IInv
<1>5. CASE OpaStarts
  <2>1. Types' /\ BuildsHold'
    BY <1>1, <1>5 DEF IInv, OpaStarts, Types, BuildsHold
  <2> QED
    BY <1>5, <2>1, RowsStay DEF OpaStarts, IInv
<1>6. CASE HarnessStarts
  <2>1. Types' /\ BuildsHold'
    BY <1>1, <1>6 DEF IInv, HarnessStarts, Types, BuildsHold, policyCopies
  <2> QED
    BY <1>6, <2>1, RowsStay DEF HarnessStarts, IInv, policyCopies
<1>7. CASE HarnessStops
  <2> USE DEF HarnessStops, policyCopies
  <2>1. /\ DOMAIN calls' = Calls
        /\ \A c \in Calls :
              calls'[c] = IF calls[c].pc \in {"asked", "allowed"}
                          THEN [calls[c] EXCEPT !.pc = "lost"] ELSE calls[c]
    BY <1>7
  <2>2. ASSUME NEW c \in Calls
        PROVE  /\ CallHolds(calls'[c])
               /\ calls[c] \in Made =>
                     /\ calls'[c] \in Made
                     /\ calls'[c].from = calls[c].from /\ calls'[c].by = calls[c].by
                     /\ calls'[c].checks = calls[c].checks
                     /\ calls[c].pc # "asked" => calls'[c].pc # "asked"
               /\ calls[c] \notin Made => calls'[c] = calls[c]
    <3>1. CASE calls[c].pc \in {"asked", "allowed"}
      <4>1. calls[c] \in Made /\ ~Refused[calls[c].from]
        BY <3>1 DEF IInv, CallHolds, Idle, Answered
      <4>2. calls'[c] = [calls[c] EXCEPT !.pc = "lost"]
        BY <2>1, <3>1
      <4> QED
        BY <4>1, <4>2 DEF Made, CallHolds
    <3>2. CASE calls[c].pc \notin {"asked", "allowed"}
      BY <2>1, <3>2 DEF IInv
    <3> QED
      BY <3>1, <3>2
  <2>3. \A c \in Calls : CallHolds(calls[c])' /\ MaskHolds(calls[c])'
    <3>1. ASSUME NEW c \in Calls PROVE CallHolds(calls[c])'
      BY <2>2 DEF CallHolds, Decided
    <3>2. ASSUME NEW c \in Calls, calls'[c].pc \in {"allowed", "rows"}
          PROVE  calls'[c] = calls[c] /\ yaml' = yaml /\ MaskHolds(calls[c])
      <4>1. CallHolds(calls[c]) /\ MaskHolds(calls[c])
        BY DEF IInv
      <4>2. CASE calls[c].pc \in {"asked", "allowed"}
        <5>1. calls[c] \in Made
          BY <4>1, <4>2 DEF CallHolds, Idle, Answered
        <5>2. calls'[c].pc = "lost"
          BY <2>1, <4>2, <5>1 DEF Made
        <5> QED
          BY <3>2, <5>2
      <4> QED
        BY <1>7, <2>1, <4>1, <4>2
    <3> QED
      BY <3>1, <3>2 DEF MaskHolds
  <2>4. ASSUME NEW r \in log' PROVE RowHolds(r)'
    <3>1. RowHolds(r) /\ r.call \in Calls
      BY <1>7 DEF IInv, RowHolds, LogRows
    <3> QED
      BY <1>7, <2>2, <3>1 DEF RowHolds, Decided
  <2>5. Types'
    <3>1. harness' \in [up : BOOLEAN, registry : Versions, revision : Versions]
      BY <1>7 DEF IInv, Types
    <3>2. faults' \in 0 .. MaxFaults
      BY <1>7, <1>1 DEF IInv, Types, Fault
    <3> QED
      BY <1>7, <2>1, <3>1, <3>2 DEF IInv, Types
  <2>6. BuildsHold'
    BY <1>7, <2>2 DEF IInv, BuildsHold, Types
  <2> QED
    BY <1>7, <2>3, <2>4, <2>5, <2>6 DEF IInv
<1> QED
  BY <1>2, <1>3, <1>4, <1>5, <1>6, <1>7 DEF Deploy

-----------------------------------------------------------------------------
(* A call *)

\* A call moves, and what it was decided by stays if it was decided.
LEMMA CallMoves ==
    ASSUME IInv, NEW c \in Calls, NEW call,
           CallHolds(call), MaskHolds(call),
           calls[c] \in Made /\ calls[c].pc # "asked" =>
               /\ call \in Made /\ call.pc # "asked"
               /\ call.from = calls[c].from /\ call.by = calls[c].by
               /\ call.checks = calls[c].checks,
           call \in Made => call.by \in 0 .. built,
           calls' = [calls EXCEPT ![c] = call],
           UNCHANGED <<policyCopies, harness, log, faults>>,
           \A w \in pending' : w \in pending \/ WriteHolds(w)'
    PROVE  IInv'
<1> USE DEF policyCopies
<1>1. /\ DOMAIN calls' = Calls
      /\ \A d \in Calls : calls'[d] = IF d = c THEN call ELSE calls[d]
  BY DEF IInv, Types
<1>2. Types'
  BY <1>1 DEF IInv, Types
<1>3. BuildsHold'
  BY <1>1 DEF IInv, BuildsHold
<1>4. ASSUME NEW d \in Calls PROVE CallHolds(calls[d])' /\ MaskHolds(calls[d])'
  <2>1. CallHolds(calls'[d]) /\ MaskHolds(calls'[d])
    BY <1>1 DEF IInv
  <2> QED
    BY <2>1 DEF CallHolds, MaskHolds, Decided
<1>5. ASSUME NEW r, RowHolds(r) PROVE RowHolds(r)'
  <2>1. r.call \in Calls
    BY <1>5 DEF RowHolds, LogRows
  <2>2. CASE r.call = c
    BY <1>1, <1>5, <2>1, <2>2 DEF RowHolds, Decided
  <2>3. CASE r.call # c
    BY <1>1, <1>5, <2>1, <2>3 DEF RowHolds, Decided
  <2> QED
    BY <2>2, <2>3
<1>6. ASSUME NEW w \in pending' PROVE WriteHolds(w)'
  <2>1. CASE WriteHolds(w)'
    BY <2>1
  <2>2. CASE WriteHolds(w)
    <3>1. CASE w.kind = "insert" /\ w.call = w.row.call /\ RowHolds(w.row)
      BY <1>5, <3>1 DEF WriteHolds
    <3>2. CASE /\ w.kind = "update"
               /\ w.call \in Calls /\ calls[w.call] \in Made
               /\ calls[w.call].pc # "asked" /\ calls[w.call].checks = {}
      BY <1>1, <3>2 DEF WriteHolds
    <3> QED
      BY <2>2, <3>1, <3>2 DEF WriteHolds
  <2> QED
    BY <2>1, <2>2 DEF IInv
<1> QED
  BY <1>2, <1>3, <1>4, <1>5, <1>6 DEF IInv

LEMMA CallToolKeeps ==
    ASSUME IInv, NEW c \in Calls, NEW q \in DOMAIN Queries, CallTool(c, q)
    PROVE  IInv'
<1> DEFINE from == [query |-> q, registry |-> harness.registry, planned |-> yaml]
           asked == [pc |-> "asked", from |-> from, by |-> 0, checks |-> {}, masked |-> {}]
           call == IF Refused[from] THEN Answered ELSE asked
<1>1. from \in Sources
  BY DEF IInv, Types, Sources
<1>2. asked \in Made /\ asked.pc = "asked" /\ asked.from = from /\ asked.by = 0
  BY <1>1 DEF Made
<1>3. CallHolds(call)
  BY <1>2 DEF CallHolds
<1>4. /\ call \in Made => call.by \in 0 .. built
      /\ MaskHolds(call)
  BY <1>2 DEF Made, Answered, MaskHolds, IInv, BuildsHold
<1>5. ~(calls[c] \in Made)
  BY DEF CallTool, Idle, Made
<1>6. calls' = [calls EXCEPT ![c] = call]
  BY DEF CallTool
<1>7. UNCHANGED <<policyCopies, harness, pending, log, faults>>
  BY DEF CallTool
<1> HIDE DEF call
<1> QED
  BY <1>3, <1>4, <1>5, <1>6, <1>7, CallMoves

\* A statement runs or fails.
LEMMA EndKeeps ==
    ASSUME IInv, NEW c \in Calls, Runs(c) \/ Fails(c)
    PROVE  IInv'
<1>1. PICK pc \in {"rows", "failed"} : calls' = [calls EXCEPT ![c].pc = pc]
  BY DEF Runs, Fails
<1> DEFINE call == [calls[c] EXCEPT !.pc = pc]
<1>2. calls[c].pc = "allowed" /\ UNCHANGED <<policyCopies, harness, pending, log, faults>>
  BY DEF Runs, Fails
<1>3. calls[c] \in Made /\ CallHolds(calls[c])
  BY <1>2 DEF IInv, CallHolds, Idle, Answered
<1>4. /\ call \in Made /\ call.pc = pc /\ call.from = calls[c].from
      /\ call.by = calls[c].by /\ call.checks = calls[c].checks
  BY <1>3 DEF Made
<1>5. CallHolds(call)
  <2>1. ~(calls[c] \in {Idle, Answered})
    BY <1>2 DEF Idle, Answered
  <2>2. ~Refused[calls[c].from] /\ Decided(calls[c]) /\ calls[c].checks = {}
    BY <1>2, <1>3, <2>1 DEF CallHolds
  <2> HIDE DEF call
  <2>3. Decided(call)
    BY <1>4, <2>2 DEF Decided
  <2> QED
    BY <1>1, <1>4, <2>2, <2>3 DEF CallHolds
<1>6. calls' = [calls EXCEPT ![c] = call]
  BY <1>1
<1>7. call.by \in 0 .. built /\ MaskHolds(call)
  <2>1. MaskHolds(calls[c]) /\ call.masked = calls[c].masked
    BY <1>3 DEF IInv, Made
  <2> HIDE DEF call
  <2> QED
    BY <1>2, <1>3, <1>4, <2>1 DEF IInv, BuildsHold, MaskHolds
<1> HIDE DEF call
<1> QED
  BY <1>2, <1>4, <1>5, <1>6, <1>7, CallMoves

\* A call that was asked is decided, and its writes are sent.
LEMMA DecideKeeps ==
    ASSUME IInv, NEW c \in Calls, calls[c].pc = "asked",
           NEW checks, NEW by, Decide(c, checks, by),
           \/ by \in Versions /\ checks = Verdict[calls[c].from][by] /\ by = opa
           \/ by = 0 /\ checks = {"opa_error"},
           UNCHANGED <<policyCopies, harness, log, faults>>
    PROVE  IInv'
<1> DEFINE masked == IF checks = {} THEN Masked ELSE {}
           call == [calls[c] EXCEPT !.pc = IF checks = {} THEN "allowed" ELSE "blocked",
                                    !.by = by, !.checks = checks, !.masked = masked]
<1>1. calls[c] \in Made /\ calls[c].from \in Sources /\ ~Refused[calls[c].from]
  BY DEF IInv, CallHolds, Idle, Answered, Made
<1>2. Versions \subseteq Nat \ {0}
  BY VersionsCount
<1>3. checks \subseteq Checks /\ by \in Versions \cup {0} /\ ("opa_error" \in checks <=> by = 0)
  BY <1>1, <1>2, VerdictsAreChecks DEF Checks
<1>4. masked \subseteq Names
  BY DEF IInv, Types, Masked, Names
<1> HIDE DEF masked
<1>5. /\ call \in Made /\ call.from = calls[c].from
      /\ call.by = by /\ call.checks = checks /\ call.masked = masked
      /\ call.pc = IF checks = {} THEN "allowed" ELSE "blocked"
  BY <1>1, <1>3, <1>4 DEF Made
<1>6. calls' = [calls EXCEPT ![c] = call]
  BY DEF Decide, masked
<1> HIDE DEF call
<1>7. Decided(call)
  BY <1>5 DEF Decided
<1>8. CallHolds(call) /\ call.pc # "asked"
  BY <1>1, <1>5, <1>7 DEF CallHolds
<1>9. by \in 0 .. built /\ MaskHolds(call)
  <2>1. by \in 0 .. built /\ built \in 1 .. yaml /\ yaml \in Versions
    BY <1>2 DEF IInv, Types, BuildsHold
  <2>2. checks = {} => masked = PiiNames(Scenarios[yaml])
    BY DEF masked, Masked
  <2>3. yaml \in by .. yaml
    BY <1>2, <2>1
  <2> QED
    BY <1>5, <2>1, <2>2, <2>3 DEF MaskHolds
<1>10. calls'[c] = call
  BY <1>6 DEF IInv, Types
<1>11. ASSUME NEW w \in Sent(c, checks, by) PROVE WriteHolds(w)'
  <2>0. PICK row : row = [call |-> c, from |-> calls[c].from, allowed |-> checks = {},
                          error |-> "opa_error" \in checks, by |-> by,
                          revision |-> harness.revision, contract |-> Null]
    OBVIOUS
  <2>1. row \in LogRows
    BY <1>1, <1>3, <2>0 DEF IInv, Types, LogRows
  <2>2. /\ row.call = c /\ row.from = call.from /\ row.by = call.by
        /\ (row.allowed <=> call.checks = {}) /\ (row.error <=> row.by = 0)
        /\ row.contract = Null /\ row.revision = harness.revision
    BY <1>3, <1>5, <2>0
  <2>3. built = 1 => row.revision = 1
    BY <2>2 DEF IInv, BuildsHold
  <2>4. \/ w = [kind |-> "insert", call |-> c, row |-> row]
        \/ checks = {} /\ w = [kind |-> "update", call |-> c]
    BY <1>11, <2>0 DEF Sent
  <2>5. RowHolds(row)'
    BY <1>5, <1>7, <1>8, <1>10, <2>1, <2>2, <2>3 DEF RowHolds, Decided, policyCopies
  <2>6. CASE w = [kind |-> "insert", call |-> c, row |-> row]
    BY <2>2, <2>5, <2>6 DEF WriteHolds
  <2>7. CASE checks = {} /\ w = [kind |-> "update", call |-> c]
    BY <1>5, <1>8, <1>10, <2>7 DEF WriteHolds
  <2> QED
    BY <2>4, <2>6, <2>7
<1>12. \A w \in pending' : w \in pending \/ WriteHolds(w)'
  BY <1>11 DEF Decide
<1> QED
  BY <1>5, <1>6, <1>8, <1>9, <1>12, CallMoves

LEMMA ProceedKeeps ==
    ASSUME IInv, NEW c \in Calls, Proceed(c)
    PROVE  IInv'
<1>1. CASE OpaAnswers(c)
  <2>1. opa \in Versions
    BY <1>1 DEF OpaAnswers, IInv, Types
  <2> QED
    BY <1>1, <2>1, DecideKeeps DEF OpaAnswers
<1>2. CASE OpaFails(c)
  BY <1>2, DecideKeeps DEF OpaFails
<1>3. CASE Runs(c) \/ Fails(c)
  BY <1>3, EndKeeps
<1> QED
  BY <1>1, <1>2, <1>3 DEF Proceed

-----------------------------------------------------------------------------
(* The log *)

LEMMA WriteKeeps ==
    ASSUME IInv, NEW w \in pending, WriteArrives(w) \/ WriteIsLost(w)
    PROVE  IInv'
<1>1. UNCHANGED <<policyCopies, harness, calls>> /\ pending' = pending \ {w}
  BY DEF WriteArrives, WriteIsLost
<1>2. Types'
  <2>1. faults' \in 0 .. MaxFaults
    BY LimitsAreNumbers DEF IInv, Types, WriteArrives, WriteIsLost, Fault
  <2> QED
    BY <1>1, <2>1 DEF IInv, Types, policyCopies
<1>3. BuildsHold'
  BY <1>1 DEF IInv, BuildsHold, policyCopies
<1>4. \A c \in Calls : CallHolds(calls[c])' /\ MaskHolds(calls[c])'
  BY <1>1 DEF IInv, CallHolds, MaskHolds, Decided, policyCopies
<1>5. \A r : RowHolds(r) => RowHolds(r)'
  BY <1>1 DEF RowHolds, Decided, policyCopies
<1>6. ASSUME NEW u \in pending' PROVE WriteHolds(u)'
  <2>1. WriteHolds(u)
    BY <1>1 DEF IInv
  <2> QED
    BY <1>1, <1>5, <2>1 DEF WriteHolds
<1>7. ASSUME NEW r \in log' PROVE RowHolds(r)'
  <2>1. CASE r \in log
    BY <1>5, <2>1 DEF IInv
  <2>2. CASE w.kind = "insert" /\ r = w.row
    BY <1>5, <2>2 DEF IInv, WriteHolds
  <2>3. CASE /\ w.kind = "update"
             /\ \E old \in log : old.call = w.call
                                   /\ r = [old EXCEPT !.contract = w.call]
    <3>1. PICK old \in log : old.call = w.call /\ r = [old EXCEPT !.contract = w.call]
      BY <2>3
    <3>2. /\ w.call \in Calls /\ calls[w.call] \in Made
          /\ calls[w.call].checks = {}
      BY <2>3 DEF IInv, WriteHolds
    <3>3. RowHolds(old)
      BY DEF IInv
    <3>4. /\ r \in LogRows /\ r.call = old.call /\ r.from = old.from /\ r.by = old.by
          /\ r.allowed = old.allowed /\ r.error = old.error
          /\ r.revision = old.revision /\ r.contract = old.call
      BY <3>1, <3>2, <3>3 DEF RowHolds, LogRows
    <3>5. RowHolds(r)
      BY <3>1, <3>2, <3>3, <3>4 DEF RowHolds
    <3> QED
      BY <1>5, <3>5
  <2>4. r \in log \/ (w.kind = "insert" /\ r = w.row)
          \/ (w.kind = "update" /\ \E old \in log : old.call = w.call
                                   /\ r = [old EXCEPT !.contract = w.call])
    <3>1. w.kind \in {"insert", "update"}
      BY DEF IInv, WriteHolds
    <3>2. CASE WriteIsLost(w)
      BY <3>2 DEF WriteIsLost
    <3>3. CASE WriteArrives(w)
      BY <3>1, <3>3 DEF WriteArrives, Write
    <3> QED
      BY <3>2, <3>3
  <2> QED
    BY <2>1, <2>2, <2>3, <2>4
<1> QED
  BY <1>2, <1>3, <1>4, <1>6, <1>7 DEF IInv

LEMMA StepKeeps == IInv /\ [Next]_vars => IInv'
<1> SUFFICES ASSUME IInv, [Next]_vars PROVE IInv'
  OBVIOUS
<1>1. CASE Deploy
  BY <1>1, DeployKeeps
<1>2. CASE \E c \in Calls, q \in DOMAIN Queries : CallTool(c, q)
  BY <1>2, CallToolKeeps
<1>3. CASE \E c \in Calls : Proceed(c)
  BY <1>3, ProceedKeeps
<1>4. CASE \E w \in pending : WriteArrives(w) \/ WriteIsLost(w)
  BY <1>4, WriteKeeps
<1>5. CASE UNCHANGED vars
  <2>1. Types' /\ BuildsHold'
    BY <1>5 DEF IInv, Types, BuildsHold, vars, policyCopies
  <2> QED
    BY <1>5, <2>1, RowsStay DEF vars, policyCopies, IInv
<1> QED
  BY <1>1, <1>2, <1>3, <1>4, <1>5 DEF Next

\* The invariant: a call keeps the verdict of the version that decided it, and a
\* row of the log, arrived or on its way, is the row of a call decided so.
THEOREM QueryPathInvariant == Spec => []IInv
BY Begins, StepKeeps, PTL DEF Spec

\* Every variable stays in its type.
THEOREM QueryPathTypes == Spec => []TypeOK
<1>1. IInv => TypeOK
  <2> SUFFICES ASSUME IInv PROVE TypeOK
    OBVIOUS
  <2>1. \A c \in Calls : CallOK(calls[c])
    BY DEF IInv, CallHolds, CallOK, Made
  <2>2. \A w \in pending : w.call \in Calls /\ w.kind \in {"insert", "update"}
    BY DEF IInv, WriteHolds, RowHolds, LogRows
  <2>3. \A r \in log : /\ r.call \in Calls /\ r.revision \in Versions
                       /\ r.contract \in Calls \cup {Null}
    BY DEF IInv, RowHolds, LogRows
  <2> QED
    BY <2>1, <2>2, <2>3 DEF TypeOK, IInv, Types
<1> QED
  BY <1>1, QueryPathInvariant, PTL

\* recordDecision and recordContract are not waited for, may arrive in either
\* order or never: still a row of decision_logs says what the agent was told, and
\* carries no contract but that of its own allowed call; until a rebuild, it names
\* the bundle that decided.
THEOREM LogStaysFaithful == Spec => []LogIsFaithful
<1>1. IInv => LogIsFaithful
  <2> SUFFICES ASSUME IInv, NEW r \in log
               PROVE  /\ r.allowed = (calls[r.call].checks = {})
                      /\ r.contract # Null => r.contract = r.call /\ r.allowed
                      /\ (built = 1 /\ ~r.error) => r.revision = r.by
    BY DEF LogIsFaithful
  <2>1. RowHolds(r) /\ r \in LogRows /\ r.call \in Calls
    BY DEF IInv, RowHolds, LogRows
  <2>2. r.allowed = (calls[r.call].checks = {})
    BY <2>1 DEF RowHolds, LogRows
  <2>3. (built = 1 /\ ~r.error) => r.by = 1 /\ r.revision = 1
    BY <2>1 DEF RowHolds, IInv, BuildsHold
  <2> QED
    BY <2>1, <2>2, <2>3 DEF RowHolds
<1> QED
  BY <1>1, QueryPathInvariant, PTL

\* replay_outcome and policy_drift_report: a decision of the log comes out otherwise
\* only when OPA has loaded another version than the one that decided.
THEOREM DriftStaysCaused == Spec => []DriftHasCause
<1>1. IInv => DriftHasCause
  <2> SUFFICES ASSUME IInv, NEW row \in log, opa # 0, PolicyChanged(row)
               PROVE  opa # row.by
    BY DEF DriftHasCause
  <2>1. RowHolds(row) /\ row \in LogRows
    BY DEF IInv, RowHolds
  <2>2. ASSUME opa = row.by
        PROVE  FALSE
    <3>1. calls[row.call].checks = Verdict[row.from][opa]
      BY <2>1, <2>2 DEF RowHolds, Decided
    <3>2. row.allowed = (calls[row.call].checks = {})
      BY <2>1 DEF RowHolds, LogRows
    <3> QED
      BY <3>1, <3>2 DEF PolicyChanged
  <2> QED
    BY <2>2
<1> QED
  BY <1>1, QueryPathInvariant, PTL

-----------------------------------------------------------------------------
(* Sequences: the first and the last element of a set *)

LEMMA LeastNumber ==
    ASSUME NEW S \in SUBSET Nat, S # {}
    PROVE  \E n \in S : \A m \in S : n <= m
<1> DEFINE R == {p \in Nat \X Nat : p[1] < p[2]}
<1>1. IsWellFoundedOn(R, Nat)
  BY NatLessThanWellFounded DEF OpToRel
<1>2. PICK n \in S : \A m \in S : ~(<<m, n>> \in R)
  BY <1>1, WFMin
<1>3. ASSUME NEW m \in S PROVE n <= m
  <2>1. m \in Nat /\ n \in Nat /\ ~(m < n)
    BY <1>2
  <2> QED
    BY <2>1
<1> QED
  BY <1>3

LEMMA GreatestNumber ==
    ASSUME NEW N \in Nat, NEW S \in SUBSET (1 .. N), S # {}
    PROVE  \E n \in S : \A m \in S : n >= m
<1> DEFINE Rest == {N - n : n \in S}
<1>1. Rest \in SUBSET Nat /\ Rest # {}
  <2>1. \A n \in S : n \in 1 .. N /\ N - n \in Nat
    OBVIOUS
  <2>2. PICK n : n \in S
    OBVIOUS
  <2>3. N - n \in Rest
    BY <2>2
  <2> QED
    BY <2>1, <2>3
<1>2. PICK k \in Rest : \A l \in Rest : k <= l
  BY <1>1, LeastNumber
<1>3. PICK n \in S : k = N - n
  OBVIOUS
<1>4. ASSUME NEW m \in S PROVE n >= m
  <2>1. N - n <= N - m
    BY <1>2, <1>3
  <2> QED
    BY <2>1
<1> QED
  BY <1>4

LEMMA FirstIsInIt ==
    ASSUME NEW T, NEW seq \in Seq(T), NEW S
    PROVE  /\ FirstIn(seq, S) # <<>> =>
                 FirstIn(seq, S)[1] \in S \cap ToSet(seq)
           /\ (\E x \in ToSet(seq) : x \in S) => FirstIn(seq, S) # <<>>
<1> DEFINE I == {i \in DOMAIN seq : seq[i] \in S}
<1>1. I \in SUBSET Nat
  OBVIOUS
<1>2. ASSUME I # {} PROVE Min(I) \in I
  <2>1. \E n \in I : \A m \in I : n <= m
    BY <1>1, <1>2, LeastNumber
  <2> QED
    BY <2>1 DEF Min
<1>3. FirstIn(seq, S) = IF I = {} THEN <<>> ELSE <<seq[Min(I)]>>
  BY DEF FirstIn
<1>4. \A x \in ToSet(seq) : x \in S => I # {}
  BY DEF ToSet
<1> HIDE DEF I
<1>5. CASE I = {}
  BY <1>3, <1>4, <1>5
<1>6. CASE I # {}
  <2>1. seq[Min(I)] \in S \cap ToSet(seq)
    BY <1>2, <1>6 DEF I, ToSet
  <2> QED
    BY <1>3, <1>6, <2>1
<1> QED
  BY <1>5, <1>6

LEMMA LastIsInIt ==
    ASSUME NEW T, NEW seq \in Seq(T), NEW S
    PROVE  LastIn(seq, S) # <<>> => LastIn(seq, S)[1] \in S \cap ToSet(seq)
<1> DEFINE I == {i \in DOMAIN seq : seq[i] \in S}
<1>1. I \in SUBSET (1 .. Len(seq)) /\ Len(seq) \in Nat
  OBVIOUS
<1>2. ASSUME I # {} PROVE Max(I) \in I
  <2>1. \E n \in I : \A m \in I : n >= m
    BY <1>1, <1>2, GreatestNumber
  <2> QED
    BY <2>1 DEF Max
<1>3. LastIn(seq, S) = IF I = {} THEN <<>> ELSE <<seq[Max(I)]>>
  BY DEF LastIn
<1> HIDE DEF I
<1>4. CASE I = {}
  BY <1>3, <1>4
<1>5. CASE I # {}
  <2>1. seq[Max(I)] \in S \cap ToSet(seq)
    BY <1>2, <1>5 DEF I, ToSet
  <2> QED
    BY <1>3, <1>5, <2>1
<1> QED
  BY <1>4, <1>5

-----------------------------------------------------------------------------
(* The planner: two joined models are each the model of its table *)

Unique(models) ==
    /\ models \in Seq(ToSet(models))
    /\ \A a, b \in ToSet(models) : a.name = b.name => a = b

LEMMA ModelOfItsTable ==
    ASSUME NEW models, Unique(models), NEW table, ModelByTable(models, table) # <<>>
    PROVE  /\ ModelByTable(models, table)[1] \in ToSet(models)
           /\ ModelByTable(models, table)[1].table = table
BY LastIsInIt DEF ModelByTable, Unique

\* What the edge of a join connects.
LEMMA EdgeEnds ==
    ASSUME NEW models, Unique(models), NEW join, EdgeOf(models, join) # <<>>,
           NEW m \in ToSet(models),
           m.name \in {EdgeOf(models, join)[1].left, EdgeOf(models, join)[1].right}
    PROVE  ModelByTable(models, m.table)[1] = m
<1> DEFINE left == ModelByTable(models, join.left[1])
           right == ModelByTable(models, join.right[1])
<1>1. left # <<>> /\ right # <<>>
  BY DEF EdgeOf
<1>2. EdgeOf(models, join)[1].left = left[1].name
      /\ EdgeOf(models, join)[1].right = right[1].name
  BY <1>1 DEF EdgeOf
<1>3. left[1] \in ToSet(models) /\ left[1].table = join.left[1]
  BY <1>1, ModelOfItsTable
<1>4. right[1] \in ToSet(models) /\ right[1].table = join.right[1]
  BY <1>1, ModelOfItsTable
<1>5. CASE m.name = left[1].name
  BY <1>3, <1>5 DEF Unique
<1>6. CASE m.name = right[1].name
  BY <1>4, <1>6 DEF Unique
<1> QED
  BY <1>2, <1>5, <1>6

WellFormed(registry) ==
    /\ Unique(registry.models)
    /\ registry.joins \in Seq(ToSet(registry.joins))
    /\ \A joins \in ToSet(registry.joins) : joins \in Seq(ToSet(joins))

Connected(models, join, a, b) ==
    LET edge == EdgeOf(models, join)
    IN edge # <<>> /\ {edge[1].left, edge[1].right} = {a, b}

LEMMA JoinConnects ==
    ASSUME NEW registry, WellFormed(registry), NEW a, NEW b,
           GetJoin(registry, a, b) # <<>>
    PROVE  \E join : Connected(registry.models, join, a, b)
<1> DEFINE Connects(join) == Connected(registry.models, join, a, b)
           WithOne == {js \in ToSet(registry.joins) : \E j \in ToSet(js) : Connects(j)}
           bundle == FirstIn(registry.joins, WithOne)
           Those == {j \in ToSet(bundle[1]) : Connects(j)}
           chosen == FirstIn(bundle[1], Those)
<1>1. GetJoin(registry, a, b) =
          IF bundle = <<>> THEN <<>> ELSE EdgeOf(registry.models, chosen[1])
  BY DEF GetJoin, FirstThat, Connected
<1>2. bundle # <<>>
  BY <1>1
<1>3. bundle[1] \in WithOne
  BY <1>2, FirstIsInIt DEF WellFormed
<1>4. bundle[1] \in Seq(ToSet(bundle[1])) /\ \E j \in ToSet(bundle[1]) : j \in Those
  BY <1>3 DEF WellFormed
<1>5. chosen[1] \in Those
  BY <1>4, FirstIsInIt
<1>6. Connects(chosen[1])
  BY <1>5
<1> QED
  BY <1>1, <1>2, <1>6

\* What a request that is not refused has passed.
LEMMA Unrefused ==
    ASSUME NEW registry, NEW request, NEW scope,
           Refusal(registry, request, scope) = "none"
    PROVE  /\ \A m \in PlannedModels(registry, request) : m.table \in scope.tables
           /\ \A m \in PlannedModels(registry, request) \ {Primary(registry, request)} :
                 JoinAllowedInScope(registry, scope, Primary(registry, request), m)
           /\ ~TimeFilterMissing(registry, request, scope)
BY DEF Refusal

LEMMA PrimaryIsPlanned ==
    ASSUME NEW registry, WellFormed(registry), NEW request,
           PlannedModels(registry, request) # {}
    PROVE  Primary(registry, request) \in PlannedModels(registry, request)
<1>1. registry.models \in Seq(ToSet(registry.models))
  BY DEF WellFormed, Unique
<1>2. \E m \in ToSet(registry.models) : m \in PlannedModels(registry, request)
  BY DEF PlannedModels
<1>3. FirstIn(registry.models, PlannedModels(registry, request)) # <<>>
  BY <1>1, <1>2, FirstIsInIt
<1> QED
  BY <1>1, <1>3, FirstIsInIt DEF Primary

\* Two models of one table have no join between them: the star of a planned
\* statement has at most one of them.
LEMMA OneModelPerTable ==
    ASSUME NEW registry, WellFormed(registry), NEW request, NEW scope,
           Refusal(registry, request, scope) = "none",
           NEW a \in PlannedModels(registry, request),
           NEW b \in PlannedModels(registry, request), a.table = b.table
    PROVE  a = b
<1> DEFINE primary == Primary(registry, request)
           planned == PlannedModels(registry, request)
<1>1. primary \in planned /\ planned \subseteq ToSet(registry.models)
  BY PrimaryIsPlanned DEF PlannedModels
<1>2. ASSUME NEW m \in planned \ {primary}
      PROVE  /\ ModelByTable(registry.models, m.table)[1] = m
             /\ ModelByTable(registry.models, primary.table)[1] = primary
  <2>1. GetJoin(registry, primary.name, m.name) # <<>>
    BY <1>2, Unrefused DEF JoinAllowedInScope
  <2> HIDE DEF primary, planned
  <2>2. PICK join : Connected(registry.models, join, primary.name, m.name)
    BY <2>1, JoinConnects
  <2> QED
    BY <1>1, <1>2, <2>2, EdgeEnds DEF WellFormed, Connected
<1> HIDE DEF primary
<1> QED
  BY <1>2

\* The predicates are a sequence.
LEMMA WhereIsSequence ==
    ASSUME NEW registry, NEW request, request.filters \in Seq(ToSet(request.filters))
    PROVE  \E T : Where(registry, request) \in Seq(T)
<1> DEFINE range == IF WithTime(registry, request) = <<>> THEN <<>>
                    ELSE RangePredicates(WithTime(registry, request)[1], request.range)
           filters == FilterPredicates(registry, request.filters)
           T == ToSet(range) \cup ToSet(filters)
<1>1. range \in Seq(ToSet(range))
  <2>1. range = <<>> \/ \E p, q : range = <<p, q>>
    BY DEF RangePredicates
  <2> HIDE DEF range
  <2>2. CASE range = <<>>
    BY <2>2
  <2>3. CASE \E p, q : range = <<p, q>>
    <3>1. PICK p, q : range = <<p, q>>
      BY <2>3
    <3>2. p \in ToSet(range) /\ q \in ToSet(range)
      <4>1. ToSet(<<p, q>>) = {p, q}
        BY DEF ToSet
      <4> QED
        BY <3>1, <4>1
    <3>3. <<p, q>> \in Seq(ToSet(range))
      BY <3>2
    <3> QED
      BY <3>1, <3>3
  <2> QED
    BY <2>1, <2>2, <2>3
<1>2. filters \in Seq(ToSet(filters))
  <2>1. DOMAIN filters = 1 .. Len(request.filters) /\ Len(request.filters) \in Nat
    BY DEF FilterPredicates
  <2>2. filters = [i \in 1 .. Len(request.filters) |-> filters[i]]
    BY <2>1 DEF FilterPredicates
  <2> HIDE DEF filters
  <2>3. \A i \in 1 .. Len(request.filters) : filters[i] \in ToSet(filters)
    BY <2>1 DEF ToSet
  <2> QED
    BY <2>1, <2>2, <2>3
<1>3. Where(registry, request) = range \o filters
  BY DEF Where
<1> HIDE DEF range, filters
<1>4. range \in Seq(T) /\ filters \in Seq(T)
  BY <1>1, <1>2
<1>5. range \o filters \in Seq(T)
  BY <1>4
<1> QED
  BY <1>3, <1>5

LEMMA AllowedIsBounded ==
    ASSUME NEW T, NEW where \in Seq(T), NEW column, NEW days,
           WindowAllowed(where, column, days)
    PROVE  Bounded(where, column, days)
<1> DEFINE Lowers == {p \in ToSet(where) : p.column = column /\ Lower(p)}
           Uppers == {p \in ToSet(where) : p.column = column /\ Upper(p)}
           lower == FirstIn(where, Lowers)
           upper == FirstIn(where, Uppers)
<1>1. /\ lower # <<>> /\ upper # <<>>
      /\ lower[1].kind = "date" /\ upper[1].kind = "date"
      /\ WidthInDays(lower[1].at, upper[1].at) <= days
  BY DEF WindowAllowed, FirstThat
<1>2. lower[1] \in Lowers /\ upper[1] \in Uppers
  BY <1>1, FirstIsInIt
<1> QED
  BY <1>1, <1>2 DEF Bounded

\* What the planner lets through stays in the scope it was planned for.
LEMMA PlanStaysInScope ==
    ASSUME NEW registry, WellFormed(registry), NEW request, NEW scope,
           request.filters \in Seq(ToSet(request.filters)),
           Refusal(registry, request, scope) = "none"
    PROVE  LET plan == Plan(registry, request, scope)
           IN /\ \A m \in plan.from : m.table \in scope.tables
              /\ \A e \in plan.joins : JoinIsInBundleScope(e, scope)
              /\ \A required \in ToSet(scope.time_filters) : \A m \in plan.from :
                    m.table = required.table =>
                        Bounded(plan.where, <<m.name, required.column>>, required.max_days)
<1> DEFINE planned == PlannedModels(registry, request)
           primary == Primary(registry, request)
           plan == Plan(registry, request, scope)
<1>1. /\ plan.from = planned
      /\ plan.joins = {GetJoin(registry, primary.name, m.name)[1] : m \in planned \ {primary}}
      /\ plan.where = Where(registry, request)
  BY DEF Plan
<1>2. \A m \in planned : m.table \in scope.tables
  BY Unrefused
<1>3. \A m \in planned \ {primary} :
         JoinIsInBundleScope(GetJoin(registry, primary.name, m.name)[1], scope)
  BY Unrefused DEF JoinAllowedInScope
<1>4. ASSUME NEW required \in ToSet(scope.time_filters), NEW m \in planned,
             m.table = required.table
      PROVE  Bounded(Where(registry, request), <<m.name, required.column>>,
                     required.max_days)
  <2> DEFINE There == {n \in planned : n.table = required.table}
             model == FirstIn(registry.models, There)
  <2>1. registry.models \in Seq(ToSet(registry.models)) /\ m \in ToSet(registry.models)
    BY DEF WellFormed, Unique, PlannedModels
  <2>2. model # <<>> /\ model[1] \in There
    BY <1>4, <2>1, FirstIsInIt
  <2>3. model[1] = m
    BY <1>4, <2>2, OneModelPerTable
  <2>4. WindowAllowed(Where(registry, request), <<model[1].name, required.column>>,
                      required.max_days)
    BY <2>2, Unrefused DEF TimeFilterMissing
  <2>5. PICK T : Where(registry, request) \in Seq(T)
    BY WhereIsSequence
  <2> QED
    BY <2>3, <2>4, <2>5, AllowedIsBounded
<1> HIDE DEF plan, planned, primary
<1>5. /\ \A m \in plan.from : m.table \in scope.tables
      /\ \A e \in plan.joins : JoinIsInBundleScope(e, scope)
      /\ \A required \in ToSet(scope.time_filters) : \A m \in plan.from :
            m.table = required.table =>
                Bounded(plan.where, <<m.name, required.column>>, required.max_days)
  BY <1>1, <1>2, <1>3, <1>4
<1> QED
  BY <1>5 DEF plan

LEMMA RegistryIsWellFormed ==
    ASSUME NEW v \in Versions
    PROVE  RegistryOf[v] = Registry(Scenarios[v]) /\ WellFormed(RegistryOf[v])
<1>1. RegistryOf[v] = Registry(Scenarios[v])
  BY DEF RegistryOf
<1>2. PICK s \in ToSet(Scenarios) : s = Scenarios[v]
  BY VersionsCount
<1>3. /\ s.models \in Seq(ToSet(s.models))
      /\ \A i, j \in DOMAIN s.models : s.models[i].name = s.models[j].name => i = j
      /\ s.bundles \in Seq(ToSet(s.bundles))
      /\ \A i \in DOMAIN s.bundles : s.bundles[i].joins \in Seq(ToSet(s.bundles[i].joins))
  BY <1>2, ScenariosAreWellFormed
<1> DEFINE registry == Registry(s)
           joins == [i \in DOMAIN s.bundles |-> s.bundles[i].joins]
<1>4. registry.models = s.models /\ registry.joins = joins
  BY DEF Registry
<1>5. Unique(s.models)
  BY <1>3 DEF Unique, ToSet
<1>6. joins \in Seq(ToSet(joins)) /\ \A js \in ToSet(joins) : js \in Seq(ToSet(js))
  <2>1. DOMAIN s.bundles = 1 .. Len(s.bundles) /\ Len(s.bundles) \in Nat
    BY <1>3
  <2>2. joins = [i \in 1 .. Len(s.bundles) |-> s.bundles[i].joins]
    BY <2>1
  <2>3. \A i \in 1 .. Len(s.bundles) : joins[i] \in ToSet(joins)
    BY <2>1 DEF ToSet
  <2>4. \A js \in ToSet(joins) : \E i \in DOMAIN s.bundles : js = s.bundles[i].joins
    BY DEF ToSet
  <2>5. joins \in [1 .. Len(s.bundles) -> ToSet(joins)]
    BY <2>2, <2>3
  <2> HIDE DEF joins
  <2>6. joins \in Seq(ToSet(joins))
    BY <2>1, <2>5
  <2> QED
    BY <1>3, <2>4, <2>6
<1> HIDE DEF registry
<1>7. WellFormed(registry)
  BY <1>4, <1>5, <1>6 DEF WellFormed
<1> QED
  BY <1>1, <1>2, <1>7 DEF registry

\* Every statement of the planner stays in the bundle of its agent.
LEMMA PlansAreInBundle == \A from \in Sources : PlanInBundle[from]
<1> SUFFICES ASSUME NEW from \in Sources, Planned(from), ~Refused[from]
             PROVE  LET scope == Scope(from.planned, QueryOf(from).agent)
                        plan == PlanOf(from)
                    IN /\ \A m \in plan.from : m.table \in scope.tables
                       /\ \A e \in plan.joins : JoinIsInBundleScope(e, scope)
                       /\ \A required \in ToSet(scope.time_filters) : \A m \in plan.from :
                             m.table = required.table =>
                                 Bounded(plan.where, <<m.name, required.column>>,
                                         required.max_days)
  BY DEF PlanInBundle
<1> DEFINE registry == RegistryOf[from.registry]
           request == QueryOf(from).of
           scope == Scope(from.planned, QueryOf(from).agent)
<1>1. WellFormed(registry)
  BY RegistryIsWellFormed DEF Sources
<1>2. Refusal(registry, request, scope) = "none"
  BY DEF Refused, RefusedBy
<1>3. request.filters \in Seq(ToSet(request.filters))
  <2>1. QueryOf(from) \in ToSet(Queries)
    BY DEF Sources, QueryOf, ToSet
  <2> QED
    BY <2>1, QueriesAreWellFormed DEF Planned
<1>4. PlanOf(from) = Plan(registry, request, scope)
  BY DEF PlanOf
<1> HIDE DEF registry, request, scope
<1>5. LET plan == Plan(registry, request, scope)
      IN /\ \A m \in plan.from : m.table \in scope.tables
         /\ \A e \in plan.joins : JoinIsInBundleScope(e, scope)
         /\ \A required \in ToSet(scope.time_filters) : \A m \in plan.from :
               m.table = required.table =>
                   Bounded(plan.where, <<m.name, required.column>>, required.max_days)
  BY <1>1, <1>2, <1>3, PlanStaysInScope
<1> QED
  BY <1>4, <1>5 DEF scope

\* No statement reaches the database before OPA, as it was loaded then, has
\* allowed this very call; and what query_metrics executes, in which the gate finds
\* no table, stays in the tables, joins and time windows of the agent's bundle.
THEOREM GateStaysBeforeDatabase == Spec => []GateBeforeDatabase
<1>1. IInv => GateBeforeDatabase
  <2> SUFFICES ASSUME IInv, NEW c \in Calls, calls[c].pc \in {"rows", "failed"}
               PROVE  /\ calls[c].by # 0
                      /\ Verdict[calls[c].from][calls[c].by] = {}
                      /\ PlanInBundle[calls[c].from]
    BY DEF GateBeforeDatabase
  <2>1. calls[c] \in Made /\ Decided(calls[c]) /\ calls[c].checks = {}
    BY DEF IInv, CallHolds, Idle, Answered
  <2>2. calls[c].by \in Versions /\ Verdict[calls[c].from][calls[c].by] = {}
    BY <2>1 DEF Decided
  <2>3. calls[c].by # 0
    BY <2>2, VersionsCount
  <2>4. calls[c].from \in Sources
    BY <2>1 DEF Made
  <2> QED
    BY <2>2, <2>3, <2>4, PlansAreInBundle
<1> QED
  BY <1>1, QueryPathInvariant, PTL

-----------------------------------------------------------------------------
(* The planner and the gate *)

\* What the policy finds in the statement of the planner: no table and no join.
LEMMA InputOfPlan ==
    ASSUME NEW from \in Sources, Planned(from)
    PROVE  LET input == InputOf(from)
               sql == input.sql
               limit == PlanOf(from).limit
           IN /\ input.agent_id = QueryOf(from).agent
              /\ sql.tables = {} /\ sql.joins = {} /\ sql.statements = 1
              /\ sql.words = Identifiers(RegistryOf[from.registry], QueryOf(from).of,
                                         PlanOf(from))
              /\ limit # Null => input.limit = limit
BY DEF InputOf, OpaInput, Compile

\* The limit of a plan is a number, and no more than the policy allows.
LEMMA LimitIsClamped ==
    ASSUME NEW limit \in Nat \cup {Null}, NEW max \in 1 .. MaxLimit
    PROVE  ClampLimit(limit, max) \in Int /\ ClampLimit(limit, max) <= max
           /\ ClampLimit(limit, max) # Null
<1>1. MaxLimit \in Nat /\ Null \notin Int /\ max \in Nat /\ max > 0
  BY LimitsAreNumbers
<1>2. SmallerOf(max, MaxLimit) = max
  BY <1>1 DEF SmallerOf
<1>3. ClampLimit(limit, max) = IF limit = Null THEN max ELSE SmallerOf(limit, max)
  BY <1>1, <1>2 DEF ClampLimit
<1> QED
  BY <1>1, <1>3 DEF SmallerOf

\* The planner has a table to look up, so that its agent is known.
LEMMA PlannedAgentIsKnown ==
    ASSUME NEW registry, NEW request, NEW scenario, NEW agent,
           request.measures \in Seq(ToSet(request.measures)),
           Refusal(registry, request, AgentScope(scenario, agent)) = "none"
    PROVE  agent \in DOMAIN scenario.agents
<1> DEFINE scope == AgentScope(scenario, agent)
<1>1. /\ request.measures # <<>>
      /\ \A r \in ToSet(request.measures) : IsMeasure(registry, r)
      /\ \A m \in PlannedModels(registry, request) : m.table \in scope.tables
  BY DEF Refusal
<1>2. request.measures[1] \in ToSet(request.measures)
  <2>1. Len(request.measures) # 0 /\ Len(request.measures) \in Nat
    BY <1>1
  <2> QED
    BY <2>1 DEF ToSet
<1>3. PICK m \in ToSet(registry.models) : m.name = request.measures[1][1]
  BY <1>1, <1>2 DEF IsMeasure, HasModel
<1>4. m \in PlannedModels(registry, request)
  BY <1>2, <1>3 DEF PlannedModels, Participating
<1>5. scope.tables # {}
  BY <1>1, <1>4
<1> QED
  BY <1>5 DEF AgentScope

\* What the policy finds wrong with a planned statement, for the version it was
\* planned with.
LEMMA PlannedIsBlockedFor ==
    ASSUME NEW from \in Sources, Planned(from), ~Refused[from]
    PROVE  Verdict[from][from.planned] \subseteq
               {"can_query", "pii_check", "read_only", "execution_permission"}
<1> DEFINE v == from.planned
           data == DataOf[v]
           input == InputOf(from)
           request == QueryOf(from).of
           agent == QueryOf(from).agent
           limit == PlanOf(from).limit
<1>1. v \in Versions /\ from.registry \in Versions /\ Scenarios[v] \in ToSet(Scenarios)
  BY VersionsCount DEF Sources
<1>2. /\ data.agents = Scenarios[v].agents /\ data.policy = Scenarios[v].policy
  BY <1>1 DEF DataOf, BuildData
<1>3. /\ request.measures \in Seq(ToSet(request.measures))
      /\ request.limit \in Nat \cup {Null}
  <2>1. QueryOf(from) \in ToSet(Queries)
    BY DEF Sources, QueryOf, ToSet
  <2> QED
    BY <2>1, QueriesAreWellFormed DEF Planned
<1>4. Refusal(RegistryOf[from.registry], request, AgentScope(Scenarios[v], agent)) = "none"
  BY DEF Refused, RefusedBy, Scope
<1> HIDE DEF input, data, request, agent, limit
<1>5. agent \in DOMAIN data.agents
  BY <1>2, <1>3, <1>4, PlannedAgentIsKnown
<1>6. limit \in Int /\ limit <= data.policy.max_rows /\ limit # Null
  <2>1. data.policy.max_rows \in 1 .. MaxLimit
    BY <1>1, <1>2, LimitsAreNumbers
  <2>2. limit = ClampLimit(request.limit, data.policy.max_rows)
    BY <1>2 DEF limit, PlanOf, Plan, Scope, AgentScope, request
  <2> QED
    BY <1>3, <2>1, <2>2, LimitIsClamped
<1>7. /\ input.agent_id = agent /\ input.limit = limit
      /\ input.sql.tables = {} /\ input.sql.joins = {} /\ input.sql.statements = 1
  BY <1>6, InputOfPlan DEF agent, limit, input
<1>8. Verdict[from][v] = Violations(data, input)
  BY <1>1, VerdictsAreChecks DEF data, input
<1>9. ~(input.limit > data.policy.max_rows)
  BY <1>1, <1>2, <1>6, <1>7, LimitsAreNumbers
<1>10. Violations(data, input) \subseteq
           {"can_query", "pii_check", "read_only", "execution_permission"}
  <2>1. "authenticate" \notin Violations(data, input)
    BY <1>5, <1>7 DEF Violations, KnownAgent
  <2>2. "single_statement" \notin Violations(data, input)
    <3>1. ~(input.sql.statements > 1)
      BY <1>7
    <3> QED
      BY <3>1 DEF Violations
  <2>3. "bundle_scope" \notin Violations(data, input)
    BY <1>7 DEF Violations
  <2>4. "join_allowlist" \notin Violations(data, input)
    BY <1>7 DEF Violations
  <2>5. "limit_check" \notin Violations(data, input)
    BY <1>6, <1>7 DEF Violations
  <2>6. "limit_value" \notin Violations(data, input)
    BY <1>9 DEF Violations
  <2> QED
    BY <2>1, <2>2, <2>3, <2>4, <2>5, <2>6, ViolationsAreChecks DEF Checks
<1> QED
  BY <1>8, <1>10

\* planner.ts:53-57: of what the planner emits the gate blocks, when both go by one
\* version of the policy, only what it blocks for who asks, for PII, for a word of
\* the statement or because execution is switched off.
THEOREM PlannedStaysPassing == Spec => []PlannedPassesGate
<1>1. IInv => PlannedPassesGate
  <2> SUFFICES ASSUME IInv, NEW c \in Calls, calls[c].pc = "blocked",
                      Planned(calls[c].from), calls[c].by = calls[c].from.planned
               PROVE  calls[c].checks \subseteq
                          {"can_query", "pii_check", "read_only", "execution_permission"}
    BY DEF PlannedPassesGate
  <2>1. calls[c] \in Made /\ Decided(calls[c]) /\ ~Refused[calls[c].from]
    BY DEF IInv, CallHolds, Idle, Answered
  <2>2. calls[c].from \in Sources /\ calls[c].from.planned \in Versions
    BY <2>1 DEF Made, Sources
  <2>3. calls[c].checks = Verdict[calls[c].from][calls[c].from.planned]
    BY <2>1, <2>2, VersionsCount DEF Decided
  <2> QED
    BY <2>1, <2>2, <2>3, PlannedIsBlockedFor
<1> QED
  BY <1>1, QueryPathInvariant, PTL

\* A statement that the policy allows while it blocks PII is not planned and does not
\* name the PII column that it shows.
LEMMA PiiIsUnnamed ==
    ASSUME NEW from \in Sources, ~Refused[from], NEW v \in Versions,
           Verdict[from][v] = {}, DataOf[v].policy.pii_mode = "block",
           NEW k \in DOMAIN KeysOf(from), KeysOf(from)[k] \in PiiNames(Scenarios[v])
    PROVE  ~Planned(from) /\ KeysOf(from)[k] \notin QueryOf(from).of.sql.words
<1> DEFINE data == DataOf[v]
           input == InputOf(from)
           column == KeysOf(from)[k]
           query == QueryOf(from)
<1>1. Violations(data, input) = {}
  BY VerdictsAreChecks
<1>2. PICK t \in DOMAIN data.pii_columns : column \in data.pii_columns[t]
  BY DEF PiiNames, DataOf, BuildData
<1> HIDE DEF data, input, column
<1>3. "pii_check" \notin Violations(data, input)
  BY <1>1
<1>4. ~PiiHit(input.sql, t, column)
  BY <1>2, <1>3 DEF Violations, data
<1>5. column \notin input.sql.words
  BY <1>4 DEF PiiHit
<1>6. ASSUME Planned(from) PROVE FALSE
  <2> DEFINE registry == RegistryOf[from.registry]
             refs == ToSet(query.of.measures) \cup ToSet(query.of.dimensions)
             Shown(ref) == IF IsMeasure(registry, ref) THEN Measure(registry, ref).column
                           ELSE DimensionColumn(registry, ref)
  <2>1. KeysOf(from) = [field \in {ref[2] : ref \in refs} |->
                           Shown(CHOOSE ref \in refs : ref[2] = field)]
    BY <1>6 DEF KeysOf
  <2> HIDE DEF Shown
  <2>2. PICK ref \in refs : column = Shown(ref)
    BY <2>1 DEF column
  <2>3. column \in Identifiers(registry, query.of, PlanOf(from))
    BY <2>2 DEF Identifiers, Shown
  <2> QED
    BY <1>5, <1>6, <2>3, InputOfPlan DEF input
<1>7. input.sql = query.of.sql
  BY <1>6 DEF InputOf, OpaInput, input
<1> QED
  BY <1>5, <1>6, <1>7 DEF column

\* What of PII passes the gate and filterPiiFromResults: no planned statement, no
\* statement that names it, and under its own name only what the files read since the
\* decision have dropped from PII.
THEOREM PiiStaysUnnamed == Spec => []PiiPassesOnlyRenamed
<1>1. IInv => PiiPassesOnlyRenamed
  <2> SUFFICES ASSUME IInv, NEW c \in Calls, calls[c].pc = "rows",
                      DataOf[calls[c].by].policy.pii_mode = "block",
                      NEW k \in DOMAIN KeysOf(calls[c].from),
                      KeysOf(calls[c].from)[k] \in PiiNames(Scenarios[calls[c].by])
               PROVE  /\ ~Planned(calls[c].from)
                      /\ KeysOf(calls[c].from)[k] \notin QueryOf(calls[c].from).of.sql.words
                      /\ (\A v \in calls[c].by .. yaml : k \in PiiNames(Scenarios[v]))
                           => k \in calls[c].masked
    BY DEF PiiPassesOnlyRenamed
  <2>1. calls[c] \in Made /\ ~Refused[calls[c].from] /\ Decided(calls[c])
        /\ calls[c].checks = {}
    BY DEF IInv, CallHolds, Idle, Answered
  <2>2. calls[c].by \in Versions /\ Verdict[calls[c].from][calls[c].by] = {}
    BY <2>1 DEF Decided
  <2>3. calls[c].from \in Sources
    BY <2>1 DEF Made
  <2>4. /\ ~Planned(calls[c].from)
        /\ KeysOf(calls[c].from)[k] \notin QueryOf(calls[c].from).of.sql.words
    BY <2>1, <2>2, <2>3, PiiIsUnnamed
  <2>5. \E v \in calls[c].by .. yaml : calls[c].masked = PiiNames(Scenarios[v])
    BY DEF IInv, MaskHolds
  <2> QED
    BY <2>4, <2>5
<1> QED
  BY <1>1, QueryPathInvariant, PTL
===============================================================================
