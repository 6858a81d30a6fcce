--------------------------- MODULE MCConnMgrProv ---------------------------
(* A small neighbourhood for TLC.                                           *)
EXTENDS ConnMgrProv

NoneToTwo == {<<>>, <<2>>, <<3, 1>>}
AllOrEach == {0, 1}
=============================================================================
