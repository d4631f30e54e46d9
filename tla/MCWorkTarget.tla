---------------------------- MODULE MCWorkTarget ----------------------------
(* WorkTarget with bytes of two bits and numbers of 16. As in the code, the  *)
(* highest target times a quarter of a cycle is more than a number can hold. *)
EXTENDS WorkTarget

(* Backwards, none, and around a quarter, the whole and the fourfold cycle. *)
CycleTimes == {-1, 0, 71, 73, 200, 287, 288, 289, 500, 1152, 1153}
=============================================================================
