----------------------------- MODULE SchemaVersion -----------------------------
(***************************************************************************)
(* What the database promises about its schema: it has a version, which    *)
(* goes up one by one; a power failure may undo the steps that had not     *)
(* reached the disk, never half a step.                                    *)
(***************************************************************************)
EXTENDS Naturals

CONSTANT Latest

VARIABLES version, durable

schemaVars == <<version, durable>>

Init == version = 0 /\ durable = 0

Upgrade == version < Latest /\ version' = version + 1 /\ UNCHANGED durable

Persist == durable' = version /\ UNCHANGED version

PowerLoss == version' = durable /\ UNCHANGED durable

Next == Upgrade \/ Persist \/ PowerLoss

Spec == Init /\ [][Next]_schemaVars
================================================================================
