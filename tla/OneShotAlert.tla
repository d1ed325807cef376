---------------------------- MODULE OneShotAlert ----------------------------
(***************************************************************************)
(* What a reminder promises, whatever sends it: an alert is raised once,   *)
(* tried at most Limit times, and ends delivered, given up or withdrawn.   *)
(* Each of the three is final: a delivered alert is not tried again, and   *)
(* one that has been withdrawn is never delivered.  Of an alert the sender *)
(* has lost track of, while or after it was tried, nothing is promised.    *)
(***************************************************************************)
EXTENDS Naturals

CONSTANTS Alerts, Limit

VARIABLES phase, tries

vars == <<phase, tries>>

Init == /\ phase = [a \in Alerts |-> "none"]
        /\ tries = [a \in Alerts |-> 0]

Raise(a) ==
    /\ phase[a] = "none"
    /\ phase' = [phase EXCEPT ![a] = "waiting"]
    /\ UNCHANGED tries

\* One round over the channels: somebody got it, or nobody did.
Try(a) ==
    /\ phase[a] = "waiting"
    /\ tries[a] < Limit
    /\ tries' = [tries EXCEPT ![a] = @ + 1]
    /\ phase' \in { [phase EXCEPT ![a] = "delivered"],
                    [phase EXCEPT ![a] = IF tries[a] + 1 = Limit THEN "failed" ELSE "waiting"] }

\* The reason for the alerts of W is gone, and track of those of L is lost: two
\* senders had them in hand, or one ended with an outcome it did not record.
Drop(W, L) ==
    /\ W \cup L # {}
    /\ \A a \in W : phase[a] = "waiting"
    /\ \A a \in L : phase[a] \in {"waiting", "delivered", "failed"}
    /\ phase' = [a \in Alerts |-> IF a \in L THEN "unsure"
                                 ELSE IF a \in W THEN "withdrawn" ELSE phase[a]]
    /\ tries' = [a \in Alerts |-> IF a \in L THEN 0 ELSE tries[a]]

Next == \/ \E a \in Alerts : Raise(a) \/ Try(a)
        \/ \E W, L \in SUBSET Alerts : Drop(W, L)

Spec == Init /\ [][Next]_vars
=============================================================================
