----------------------------- MODULE ContainerBase -----------------------------
(***************************************************************************)
(* What the sequential containers of core/ share: their items, the indices *)
(* their callers pass, and the form of an answer.                          *)
(***************************************************************************)
EXTENDS Integers

CONSTANTS
    Item,   \* the items that are stored
    Zero,   \* the item whose bytes are 0
    Index,  \* the indices and sizes callers pass
    Word,   \* usize arithmetic is modulo Word
    NULL

ASSUME ContainerAssumption ==
    /\ Zero \in Item /\ NULL \notin Item
    /\ Index \subseteq Nat
    /\ Word \in Nat \ {0}

Answer(question, value) == [question |-> question, value |-> value]
NoAnswer == Answer(<<>>, NULL)
=============================================================================
