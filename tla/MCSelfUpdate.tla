---- MODULE MCSelfUpdate ----
(* Small instances of SelfUpdate for TLC. *)
EXTENDS SelfUpdate, TLC

V(core, pre, meta) == [core |-> core, pre |-> pre, meta |-> meta]

\* 4.0.0+dirty is installed; dev, 4.0-rc (twice below 4.0.0) and 4.1.0 exist.
Dirty == V(<<4, 0, 0>>, 0, TRUE)
Releases == {V(<<>>, 0, FALSE), V(<<4, 0>>, 1, FALSE), V(<<4, 1, 0>>, 0, FALSE)}

Symmetry == Permutations(Updaters)
====
