---------------------------- MODULE MCSaiServer ----------------------------
(* SaiServer for TLC.                                                        *)
EXTENDS SaiServer
=============================================================================
