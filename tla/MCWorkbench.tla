---------------------------- MODULE MCWorkbench ----------------------------
EXTENDS Workbench

CONSTANTS a, b, n

Students == {a, b}
Names == {n}
Either == Permutations(Students)
=============================================================================
