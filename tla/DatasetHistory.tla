--------------------------- MODULE DatasetHistory ---------------------------
(***************************************************************************)
(* What a dataset promises its writers, without locks, files or crashes: a *)
(* transaction is opened against the current head and is later committed   *)
(* or aborted in one step, never both and never twice; committing extends  *)
(* the linear version history by one, and a SNAPSHOT commits only on top   *)
(* of the very version it was opened against.                              *)
(*                                                                         *)
(* DatasetTransactions is shown to implement this specification.           *)
(***************************************************************************)
EXTENDS Naturals, Sequences

CONSTANT Runs     \* the writers' transactions

VARIABLES
    history,   \* the committed transactions, oldest first
    outcome,   \* "none" before the transaction is opened, then its state
    kind,      \* "SNAPSHOT" or "APPEND"
    base       \* how many versions there were when it was opened

histVars == <<history, outcome, kind, base>>

TxTypes == {"SNAPSHOT", "APPEND"}

Init ==
    /\ history = << >>
    /\ outcome = [r \in Runs |-> "none"]
    /\ kind = [r \in Runs |-> "APPEND"]
    /\ base = [r \in Runs |-> 0]

Open(r) ==
    /\ outcome[r] = "none"
    /\ outcome' = [outcome EXCEPT ![r] = "open"]
    /\ \E t \in TxTypes : kind' = [kind EXCEPT ![r] = t]
    /\ base' = [base EXCEPT ![r] = Len(history)]
    /\ UNCHANGED history

Commit(r) ==
    /\ outcome[r] = "open"
    /\ kind[r] = "SNAPSHOT" => base[r] = Len(history)
    /\ outcome' = [outcome EXCEPT ![r] = "committed"]
    /\ history' = Append(history, r)
    /\ UNCHANGED <<kind, base>>

Abort(r) ==
    /\ outcome[r] = "open"
    /\ outcome' = [outcome EXCEPT ![r] = "aborted"]
    /\ UNCHANGED <<history, kind, base>>

Next == \E r \in Runs : Open(r) \/ Commit(r) \/ Abort(r)

Spec == Init /\ [][Next]_histVars
=============================================================================
