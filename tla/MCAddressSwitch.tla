--------------------------- MODULE MCAddressSwitch ---------------------------
(* A full table: every slot is in use, so that the scan wraps past idle, and *)
(* three processes, so that stale translations may be of two of them.        *)
EXTENDS AddressSwitch, SchedulerRefinement
=============================================================================
