---------------------------- MODULE DigestLedger ----------------------------
(***************************************************************************)
(* What digest_sent_log promises, whoever sends: the life of a week is      *)
(* none -> delivered -> logged.  The row follows an e-mail that was         *)
(* accepted, it is written once, and it is never taken back, so whoever     *)
(* finds it may skip the week without losing the digest.                    *)
(***************************************************************************)
EXTENDS Naturals

CONSTANT MaxWeek

Week == 1 .. MaxWeek

VARIABLE status

Init == status = [w \in Week |-> "none"]

Deliver(w) == status[w] = "none" /\ status' = [status EXCEPT ![w] = "delivered"]

Log(w) == status[w] = "delivered" /\ status' = [status EXCEPT ![w] = "logged"]

Next == \E w \in Week : Deliver(w) \/ Log(w)

Spec == Init /\ [][Next]_status
=============================================================================
