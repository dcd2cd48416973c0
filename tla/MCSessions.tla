----------------------------- MODULE MCSessions -----------------------------
(***************************************************************************)
(* A phone with two requests at once, one of which may lose its app; other *)
(* devices are the logins it has left behind.                              *)
(***************************************************************************)
EXTENDS Sessions, TLC

CONSTANTS t1, t2, t3, t4, phone, c1, c2

TokensDef == {t1, t2, t3, t4}
JarsDef == {phone}
CallsDef == {c1, c2}
JarOfDef == [c \in CallsDef |-> phone]
TabOfDef == [c \in CallsDef |-> 1]
Symmetry == Permutations(TokensDef) \cup Permutations(CallsDef)
=============================================================================
