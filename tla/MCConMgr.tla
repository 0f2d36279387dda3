------------------------------ MODULE MCConMgr ------------------------------
(* ConMgr for TLC: programs from tidy to reckless. *)
EXTENDS ConMgr

MCPrograms == {{"stdinClosed"}, {"initFails", "mgrDies"}, Conduct \ {"stdinClosed"}}
MCPosting  == {{"dtorUsesMgr"}}
=============================================================================
