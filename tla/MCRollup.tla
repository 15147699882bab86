------------------------------ MODULE MCRollup ------------------------------
(* Instances of Rollup for TLC.                                            *)
EXTENDS Rollup, TLC

(* Views and what is derived from them, what another task records, and what *)
(* web requests insert and delete.                                          *)
OfEachKind == <<"views", "unique_visitors", "link_clicks", "enquiries">>

(* One of each without the derived column, for the longer run.              *)
OneOfEach == <<"views", "link_clicks", "enquiries">>
=============================================================================
