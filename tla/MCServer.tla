------------------------------- MODULE MCServer -------------------------------
(* Three requests at a time on a pool of two connections.                    *)
EXTENDS Server

MCNodes == [k \in {"chat", "digest"} |-> 1]
=============================================================================
