-------------------------- MODULE MCCrobotHardware --------------------------
(* Replies for TLC: an encoder at 19 and, later, at 20, with a place to tear  *)
(* the number in two, and every text of that form (29 is one of them).       *)
EXTENDS CrobotHardware, TLC

Openings == {"{1", "{2"}
Pieces   == Openings \cup {"9}", "0}"}
Objects  == {<<tens, ones>> : tens \in Openings, ones \in {"9}", "0}"}}

Counting == (0 :> <<"{1", "9}">>) @@ (1 :> <<"{2", "0}">>)
=============================================================================
