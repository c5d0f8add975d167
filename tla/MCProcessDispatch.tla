-------------------------- MODULE MCProcessDispatch --------------------------
(* Workflows and clients on which ProcessDispatch is model-checked. *)
EXTENDS ProcessDispatch, TLC

\* A step that may fail, a step that waits for a user, and the end.
InputKind == <<"plain", "input", "done">>

\* Only a step that waits for a user.
WaitKind == <<"input", "done">>

\* A step that is retried by the clean-up task, and one that waits for a user.
RetryKind == <<"retry", "input", "done">>

\* Workers are interchangeable, and so are users.
Symmetry == Permutations(Workers) \cup Permutations(Users)
=============================================================================
