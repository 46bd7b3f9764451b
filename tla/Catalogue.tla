----------------------------- MODULE Catalogue -----------------------------
(***************************************************************************)
(* What the catalogue promises a buyer's CLI about one skill: the listing  *)
(* only ever moves to a release above it, and what is listed under one     *)
(* version is one content.                                                 *)
(***************************************************************************)
CONSTANTS
    Packages,        \* the releases that may be submitted
    Above(_, _),     \* the order of their versions
    NoPackage        \* nothing is listed yet

VARIABLE listed

Init == listed = NoPackage

Release(p) ==
    /\ listed = NoPackage \/ Above(p.version, listed.version)
    /\ listed' = p

Next == \E p \in Packages : Release(p)

Spec == Init /\ [][Next]_listed
=============================================================================
