---------------------------- MODULE MCVideoPass ----------------------------
(* Small instances of VideoPass.                                            *)
EXTENDS VideoPass
=============================================================================
