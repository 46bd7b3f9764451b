------------------------------- MODULE MCBoot -------------------------------
(* A small instance of Boot for TLC. *)
EXTENDS Boot

Symmetry == Permutations(Agents)

(* A report of two agents and of the reserve's own name, with a count over  *)
(* the cap and one below zero; an install; an update.                       *)
MCSent ==
    {[kind |-> "report", sessions |-> MaxCount + 1,
      agents |-> <<<<a, MaxCount + 1>>, <<b, 1>>, <<Other, -1>>>>] :
        <<a, b>> \in {p \in Agents \X Agents : p[1] # p[2]}}
    \cup {[kind |-> "install", sessions |-> 0, agents |-> <<<<a, 1>>>>] : a \in Agents}
    \cup {[kind |-> "update", sessions |-> 0, agents |-> <<>>]}
=============================================================================
