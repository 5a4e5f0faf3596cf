------------------------------ MODULE MCLkSync ------------------------------
(* An instance of LkSync: three threads on one cpu or two, none or one of    *)
(* them with timeouts.                                                      *)
EXTENDS LkSync

MCTimed == {{}, {"t1"}}
=============================================================================
