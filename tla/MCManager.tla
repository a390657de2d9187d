----------------------------- MODULE MCManager -----------------------------
(* Small instances of Manager.  Runners, probes, addresses, threads and     *)
(* the values of a configuration part are interchangeable.                  *)
EXTENDS Manager, TLC

Symmetry == Permutations(Publics) \cup Permutations(Privates)
              \cup Permutations(Runners) \cup Permutations(Probes)
              \cup Permutations(Threads)
              \cup Permutations(Binds) \cup Permutations(Rests)
=============================================================================
