--------------------------- MODULE DeliveryLedger ---------------------------
(***************************************************************************)
(* What a notification channel promises about one job per recipient and    *)
(* message, whatever its workers do: a job is opened once, stays open      *)
(* until it is sent, given up or cancelled, never comes back after that,   *)
(* and is called sent only when a notification has really left.            *)
(* Email and Ntfy are shown to implement it.                               *)
(***************************************************************************)
EXTENDS Naturals

CONSTANT Jobs

VARIABLES verdict,      \* per job: none, open, sent, failed or cancelled
          left          \* per job: whether a notification has left the server

LedgerInit == /\ verdict = [j \in Jobs |-> "none"]
              /\ left = [j \in Jobs |-> FALSE]

Open(S) == /\ \A j \in S : verdict[j] = "none"
           /\ verdict' = [j \in Jobs |-> IF j \in S THEN "open" ELSE verdict[j]]
           /\ UNCHANGED left

(* A worker that was overtaken may still notify after the verdict.         *)
Leave(j) == /\ verdict[j] # "none"
            /\ left' = [left EXCEPT ![j] = TRUE]
            /\ UNCHANGED verdict

Decide(S, v) == /\ \A j \in S : verdict[j] = "open" /\ (v = "sent" => left[j])
                /\ verdict' = [j \in Jobs |-> IF j \in S THEN v ELSE verdict[j]]
                /\ UNCHANGED left

LedgerNext == \/ \E S \in SUBSET Jobs : Open(S)
              \/ \E j \in Jobs : Leave(j)
              \/ \E S \in SUBSET Jobs, v \in {"sent", "failed", "cancelled"} : Decide(S, v)

LedgerSpec == LedgerInit /\ [][LedgerNext]_<<verdict, left>>
=============================================================================
