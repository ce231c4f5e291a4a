-------------------------- MODULE MCJenkinsReplay --------------------------
(***************************************************************************)
(* A small instance of JenkinsReplay: q1 and q2 send one build twice, q3   *)
(* is another build that is sent with q1's nonce, q4 a third build.        *)
(***************************************************************************)
EXTENDS JenkinsReplay

CONSTANTS q1, q2, q3, q4

MCNonceOf    == [q \in Requests |-> IF q = q2 THEN 2 ELSE IF q = q4 THEN 4 ELSE 1]
MCDeliveryOf == [q \in Requests |-> IF q = q3 THEN 13 ELSE IF q = q4 THEN 14 ELSE 11]
MCSentAt     == [q \in Requests |-> IF q = q2 THEN 1 ELSE 0]
=============================================================================
