----------------------------- MODULE MCActionRun -----------------------------
(* ActionRun for TLC. *)
EXTENDS ActionRun

\* The two deployments that differ most: a child process, and a driver in the
\* worker with a before-commit effect.
ChildOrEffect == {<<TRUE, FALSE>>, <<FALSE, TRUE>>}

\* A plain contract, driven in a child process or in the worker.
InChild == {<<TRUE, FALSE>>}
InProcess == {<<FALSE, FALSE>>}
=============================================================================
