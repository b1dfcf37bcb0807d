------------------------------- MODULE MCTools -------------------------------
(* A batch of two Tool calls, on small instances. *)
EXTENDS ToolExecutor

Batch(mode, one, two, nested) == [mode |-> mode, kind |-> <<one, two, nested>>]
MCBatches == {Batch("serial", "sideEffecting", "readOnly", "missing"),
              Batch("serial", "missing", "sideEffecting", "missing"),
              Batch("concurrent", "sideEffecting", "sideEffecting", "missing"),
              Batch("serial", "composite", "missing", "sideEffecting")}
=============================================================================
