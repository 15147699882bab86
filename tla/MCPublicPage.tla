---------------------------- MODULE MCPublicPage ----------------------------
(* Instances of PublicPage for TLC.                                        *)
EXTENDS PublicPage
=============================================================================
