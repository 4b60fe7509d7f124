--------------------------- MODULE MC_ProgManager ---------------------------
(* Instances of ProgManager for TLC.                                       *)
EXTENDS ProgManager, TLC

Symmetry == Permutations(Reqs) \cup Permutations(Progs)

Asks(ops, names, zeros) == [op : ops, name : names, zero : zeros]

\* Every request, and the requests for registered programs with a sound interval.
AllInputs ==
  Asks({"Load"}, Progs \cup {Unknown}, BOOLEAN)
    \cup Asks({"Unload"}, Progs \cup {Unknown}, {FALSE})
SoundInputs == Asks({"Load", "Unload"}, Progs, {FALSE})
=============================================================================
