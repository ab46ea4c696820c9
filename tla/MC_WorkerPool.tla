----------------------------- MODULE MC_WorkerPool -----------------------------
(* Four calls over two slots and a queue of one, with either adapter. *)
EXTENDS WorkerPool
MCAdapters == {"own promise", "shared child"}
=============================================================================
