------------------------------ MODULE MCPlaybooks ------------------------------
(* Small instances of Playbooks for TLC.                                        *)
EXTENDS Playbooks
================================================================================
