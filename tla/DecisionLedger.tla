--------------------------- MODULE DecisionLedger ---------------------------
(***************************************************************************)
(* What a durable decision workflow promises, without steps, checkpoints,    *)
(* statements or crashes: the ledger of a decision gets each of its entries  *)
(* at most once, each entry after those it rests on, an action only under a  *)
(* favourable verdict, and it is closed only when it is complete.            *)
(*                                                                          *)
(* DecisionWorkflow implements it (DecisionWorkflow!Ledger).                 *)
(***************************************************************************)
EXTENDS Naturals

CONSTANT Decisions

VARIABLES
    entries,        \* how many rows of each kind a decision has
    verdict,        \* "none", "approved" or "rejected"
    closed          \* decisions whose run is completed

vars == <<entries, verdict, closed>>

Kinds == {"run", "proposal", "vote", "action", "outcome"}

\* The entries that a new one rests on; the outcome of an approved decision
\* rests on its action too.
Basis(kind, v) ==
    CASE kind = "run" -> {}
      [] kind = "proposal" -> {"run"}
      [] kind = "vote" -> {"run", "proposal"}
      [] kind = "action" -> {"run", "proposal", "vote"}
      [] kind = "outcome" ->
            {"run", "proposal", "vote"} \cup (IF v = "approved" THEN {"action"} ELSE {})

Init ==
    /\ entries = [d \in Decisions |-> [k \in Kinds |-> 0]]
    /\ verdict = [d \in Decisions |-> "none"]
    /\ closed = {}

Enter(d, kind) ==
    /\ entries[d][kind] = 0
    /\ \A k \in Basis(kind, verdict[d]) : entries[d][k] = 1
    /\ kind = "action" => verdict[d] = "approved"
    /\ entries' = [entries EXCEPT ![d][kind] = 1]
    /\ IF kind = "vote"
       THEN \E v \in {"approved", "rejected"} : verdict' = [verdict EXCEPT ![d] = v]
       ELSE UNCHANGED verdict
    /\ UNCHANGED closed

Close(d) ==
    /\ d \notin closed
    /\ entries[d]["outcome"] = 1
    /\ closed' = closed \cup {d}
    /\ UNCHANGED <<entries, verdict>>

Next == \E d \in Decisions : Close(d) \/ \E kind \in Kinds : Enter(d, kind)

Spec == Init /\ [][Next]_vars
=============================================================================
