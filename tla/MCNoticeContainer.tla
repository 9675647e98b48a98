-------------------------- MODULE MCNoticeContainer --------------------------
(***************************************************************************)
(* A worker capped at two occurrences and one per rule, and a report       *)
(* capped at three and two: small enough to be full in every way.          *)
(***************************************************************************)
EXTENDS NoticeContainer

MCOccurrences == [rule_id : Rules, serial : 1..MaxSerial]

MCCaps == [b \in Boxes |-> IF b = "worker" THEN <<2, 1>> ELSE <<3, 2>>]

=============================================================================
