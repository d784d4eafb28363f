---------------------------- MODULE MCRepositories ----------------------------
EXTENDS Repositories, TLC

\* Systems and files are only ever compared.
Symmetry == Permutations(Systems) \union Permutations(Files)
=============================================================================
