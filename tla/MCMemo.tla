------------------------------- MODULE MCMemo -------------------------------
(***************************************************************************)
(* A walk, two structures that share a name, one of which decodes texts,   *)
(* and the decoder of texts, over two addresses.                           *)
(***************************************************************************)
EXTENDS Memo

CONSTANTS walk, shapes, namesake, polyline

MCCalls ==
  [b \in {walk, shapes, namesake, polyline} |->
     IF b = shapes THEN {polyline} ELSE {}]

MCName ==
  [b \in {walk, shapes, namesake, polyline} |->
     IF b = namesake THEN shapes ELSE b]

=============================================================================
