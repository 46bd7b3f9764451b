----------------------------- MODULE MCRegistry -----------------------------
(* A small instance of Registry for TLC. *)
EXTENDS Registry, TLC

V(core, pre) == [core |-> core, pre |-> pre]
Alpha == [num |-> FALSE, val |-> 1]
Beta == [num |-> FALSE, val |-> 2]
Num(n) == [num |-> TRUE, val |-> n]

(* The ordering table of packages/server/test/update-semantics.test.js:17, *)
(* which the precedence rule has to reproduce.                             *)
Table == <<V(<<0, 9, 9>>, <<>>),
           V(<<1, 0, 0>>, <<Alpha, Num(1)>>), V(<<1, 0, 0>>, <<Alpha, Num(10)>>),
           V(<<1, 0, 0>>, <<Beta>>), V(<<1, 0, 0>>, <<>>), V(<<1, 0, 1>>, <<>>), V(<<1, 4, 1>>, <<>>),
           V(<<1, 5, 0>>, <<Alpha, Num(1)>>), V(<<1, 5, 0>>, <<>>), V(<<2, 0, 0>>, <<>>)>>

ASSUME TableAssumption == \A i, j \in DOMAIN Table : Precedes(Table[i], Table[j]) <=> i < j

(* A paid release, another content under its version, and free releases.   *)
MCPackages ==
    {[version |-> Table[i], paid |-> FALSE, body |-> 1] : i \in {2, 3}}
        \cup {[version |-> Table[5], paid |-> TRUE, body |-> b] : b \in {1, 2}}
        \cup {[version |-> Table[6], paid |-> FALSE, body |-> 1]}

Symmetry == Permutations(Submissions) \cup Permutations(Tokens) \cup Permutations(Codes)
=============================================================================
