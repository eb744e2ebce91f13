--------------------------- MODULE MCSuspendCore ----------------------------
(* SuspendCore for TLC: one owner of wake locks in each context.           *)
EXTENDS SuspendCore, TLC

CONSTANTS task, kthread, irq, work

MCContext == (task :> "user") @@ (kthread :> "kthread") @@ (irq :> "irq") @@ (work :> "nofreeze")
=============================================================================
