---------------------------- MODULE MCGenerations ----------------------------
EXTENDS Generations, TLC

CONSTANTS b1, b2, c1, c2

PathSymmetry == Permutations({b1, b2}) \cup Permutations({c1, c2})
\* Only TypeOK binds a state in which a file has changed under its handler, and
\* any later one: TLC goes on from there where nothing else has gone wrong.  Any
\* other mishap is followed to the second upset and no further.
Binding == /\ "raced" \in amiss => upsets = 0
           /\ amiss # {} => upsets <= 1
=============================================================================
