------------------------------ MODULE MCContext ------------------------------
(* Three mails: two fit into the budget and only the better one is mounted. *)
EXTENDS ContextLedger

Item(id, score, time, tokens) == [id |-> id, score |-> score, time |-> time, tokens |-> tokens]
MCCorpus == <<Item("old", 1, 1, 2), Item("best", 3, 1, 2), Item("long", 2, 2, 4)>>
MCResponses == {"yes", "no"}
\* One answer names a mounted source, the mail itself and one that is only selected.
MCClaims == [r \in MCResponses |-> IF r = "yes" THEN {Email, "best", "old"} ELSE {"best"}]
=============================================================================
