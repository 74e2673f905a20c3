----------------------------- MODULE MCContainers -----------------------------
(* The containers of core/, each of them alone: a behaviour is about one of  *)
(* them, and the others rest in their initial state.                        *)
EXTENDS List, Vector, String, Arena, TLC

VARIABLE subject

mcVars == <<subject, listVars, vecVars, strVars, arenaVars>>

MCInit ==
    /\ subject \in {"list", "vector", "string", "arena"}
    /\ ListInit /\ VectorEmpty /\ StringNone /\ ArenaNone

MCNext ==
    /\ UNCHANGED subject
    /\ \/ /\ subject = "list" /\ ListNext
          /\ UNCHANGED <<vecVars, strVars, arenaVars>>
       \/ /\ subject = "vector" /\ VectorNext
          /\ UNCHANGED <<listVars, strVars, arenaVars>>
       \/ /\ subject = "string" /\ StringNext
          /\ UNCHANGED <<listVars, vecVars, arenaVars>>
       \/ /\ subject = "arena" /\ ArenaNext
          /\ UNCHANGED <<listVars, vecVars, strVars>>

MCSpec == MCInit /\ [][MCNext]_mcVars

ArenaSymmetry == Permutations(Block) \cup Permutations(Arena)
=============================================================================
