--------------------------- MODULE MCOfflineOutbox ---------------------------
(* One device, two creations of one user, two refreshes at a time.          *)
EXTENDS OfflineOutbox

CONSTANTS u1, m1, m2, t1, t2
=============================================================================
