------------------------------ MODULE MsgList ------------------------------
(***************************************************************************)
(* What a message base promises to the program that alone uses it: a list  *)
(* of messages.  A new one gets a number higher than any before, and goes  *)
(* to the end; one may be removed; saving one changes what it says but not *)
(* its place, its number or which message it is.                           *)
(***************************************************************************)
EXTENDS Integers, Sequences, SequencesExt

CONSTANT Author

VARIABLES list,   \* the messages, in order
          last    \* the highest number given to any so far

vars == <<list, last>>

Message == [msgno : Nat, by : Author]

Init ==
    /\ list \in Seq(Message) /\ last \in Nat
    /\ \A i \in DOMAIN list : list[i].msgno <= last
    /\ \A i, j \in DOMAIN list : i < j => list[i].msgno < list[j].msgno

Post ==
    \E a \in Author :
        /\ last' = last + 1
        /\ list' = Append(list, [msgno |-> last + 1, by |-> a])

Drop ==
    \E i \in DOMAIN list :
        /\ list' = RemoveAt(list, i)
        /\ UNCHANGED last

Next == Post \/ Drop

Spec == Init /\ [][Next]_vars
=============================================================================
