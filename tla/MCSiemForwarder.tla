-------------------------- MODULE MCSiemForwarder --------------------------
(* SiemForwarder for model checking: one id for every publication and one   *)
(* for every revision a gap can be found at, one owner for every process.   *)
EXTENDS SiemForwarder

MCIds == 1 .. MaxEvents + MaxRevision
MCOwners == 1 .. MaxLives
=============================================================================
