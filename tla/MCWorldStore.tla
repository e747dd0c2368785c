---------------------------- MODULE MCWorldStore ----------------------------
(***************************************************************************)
(* WorldStore for TLC.  The editors and the savers of the cfg files are    *)
(* model values: one editor stands for every goroutine that changes a      *)
(* block, the savers are the ticker, and the goroutine that stops the pod. *)
(***************************************************************************)
EXTENDS WorldStore
=============================================================================
