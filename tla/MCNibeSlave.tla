---------------------------- MODULE MCNibeSlave ----------------------------
(* Small instances of NibeSlave for TLC.                                   *)
EXTENDS NibeSlave

\* The YAML's registers and the entities' overlap in one, and the entity
\* comes first of its kind: the search in ensure_polled stops half way.
MCExtra    == <<10012, 40940>>
MCEntities == <<10012, 40033>>
=============================================================================
