------------------------------ MODULE MCVpnSidecars ------------------------------
(* Small instances of VpnSidecars for TLC.                                        *)
EXTENDS VpnSidecars
==================================================================================
