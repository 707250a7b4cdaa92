--------------------------- MODULE GrowingForest ---------------------------
(***************************************************************************)
(* What every algorithm for minimum spanning trees does: it grows a forest *)
(* by one edge at a time, a lightest one of those that cross some cut that *)
(* no edge of the forest crosses yet.  By the cut property the forest then *)
(* stays part of a minimum spanning forest.                                *)
(*                                                                         *)
(* An edge is [ends |-> {u, v}, weight |-> w].                             *)
(***************************************************************************)
EXTENDS Integers

VARIABLES
  edges,    \* the edges to choose from
  forest    \* the edges chosen

Touched == UNION {e.ends : e \in edges}

Crosses(e, S) == e.ends \cap S # {} /\ ~(e.ends \subseteq S)

Init == forest = {}

AddLightest ==
  /\ \E e \in edges \ forest :
       /\ forest' = forest \cup {e}
       /\ \E S \in SUBSET Touched :
            /\ Crosses(e, S)
            /\ \A f \in forest : ~Crosses(f, S)
            /\ \A f \in edges : Crosses(f, S) => e.weight <= f.weight
  /\ UNCHANGED edges

Spec == Init /\ [][AddLightest]_<<edges, forest>>
=============================================================================
