---------------------------- MODULE MCRegistry -----------------------------
(* A registry with a few servers and a short clock.                        *)
EXTENDS Registry
=============================================================================
