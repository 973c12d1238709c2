---------------------------- MODULE MCStorePlan ----------------------------
(* One full attention group and two sliding windows, the wider of them shared *)
(* by two groups. *)
EXTENDS StorePlan

MCBlockSizes == <<2, 1, 1, 1>>
MCWindows == <<0, 2, 3, 3>>
=============================================================================
