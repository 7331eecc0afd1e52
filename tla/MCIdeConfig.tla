---- MODULE MCIdeConfig ----
(* Small instances of IdeConfig for TLC. *)
EXTENDS IdeConfig

\* Absent, or with comments and an entry of an older version.
MCInitialFiles == {Missing, [Empty EXCEPT !.notes = TRUE, !.ours = {"stale"}]}
====
