------------------------------- MODULE MCAccess -------------------------------
(***************************************************************************)
(* An instance of Access for TLC: the email of one registration and the      *)
(* username of another one are taken by the first.                           *)
(***************************************************************************)
EXTENDS Access

CONSTANTS r1, r2, r3, l1, e1, e2, n1, n2, p1, p2, s1, m1, m2

Forms ==
  [r \in Registrations |->
     CASE r = r1 -> [email |-> e1, username |-> n1, password |-> p1]
       [] r = r2 -> [email |-> e1, username |-> n2, password |-> p1]
       [] r = r3 -> [email |-> e2, username |-> n1, password |-> p2]]

FirstEmail == [l \in Logins |-> [email |-> e1, password |-> p1]]
=============================================================================
