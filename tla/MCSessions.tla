----------------------------- MODULE MCSessions -----------------------------
(* The instance of Sessions for TLC: no definition orders or names          *)
(* transactions or sessions.                                                *)
EXTENDS Sessions, TLC
Interchangeable == Permutations(Tx) \cup Permutations(Session)
=============================================================================
