--------------------------- MODULE MCProjectKernel --------------------------
(***************************************************************************)
(* Instances of ProjectKernel.tla for TLC: symmetry for the safety runs.   *)
(***************************************************************************)
EXTENDS ProjectKernel, TLC

\* Handlers are interchangeable, and so are commands of one kind.
Symmetric ==
  Permutations(Handlers) \union Permutations(Edits) \union Permutations(Notes)
    \union Permutations(Undos) \union Permutations(Redos)

\* Bound of kernel_race: besides edits and undos a session has one command.
OneOther ==
  Cardinality(({log[i].command : i \in DOMAIN log} \union {req[h].command : h \in Handlers})
                \ (Edits \union Undos \union {NoCommand})) <= 1
=============================================================================
