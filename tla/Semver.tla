------------------------------- MODULE Semver -------------------------------
(***************************************************************************)
(* The version order of packages/core/src/semver.js.  A version is what    *)
(* parseSemver returns: its numbers and its prerelease identifiers; build  *)
(* metadata is dropped by the parser.  An alphanumeric identifier is       *)
(* represented by its place in the lexical order.                          *)
(***************************************************************************)
EXTENDS Integers, Sequences

Identifiers == [num : BOOLEAN, val : Nat]
SemVersions == [core : Nat \X Nat \X Nat, pre : Seq(Identifiers)]

Sign(a, b) == IF a < b THEN -1 ELSE IF a > b THEN 1 ELSE 0

(* Numeric identifiers compare as numbers and below alphanumeric ones. *)
CmpIdentifier(x, y) ==
    IF x.num = y.num THEN Sign(x.val, y.val) ELSE IF x.num THEN -1 ELSE 1

(* The first place where two sequences differ, 0 if one begins the other.  *)
FirstDifference(s, t) ==
    LET differ == {i \in DOMAIN s \cap DOMAIN t : s[i] # t[i]}
    IN  IF differ = {} THEN 0 ELSE CHOOSE i \in differ : \A j \in differ : i <= j

(* Fewer identifiers sort first. *)
CmpIdentifiers(s, t) ==
    LET i == FirstDifference(s, t)
    IN  IF i = 0 THEN Sign(Len(s), Len(t)) ELSE CmpIdentifier(s[i], t[i])

CmpPreByLength(s, t) == CmpIdentifiers(s, t)          \* mutant of CmpPrerelease

(* A release sorts above its prereleases. *)
CmpPrerelease(s, t) ==
    IF s = <<>> \/ t = <<>> THEN Sign(Len(t), Len(s)) ELSE CmpIdentifiers(s, t)

CmpSemver(a, b) ==
    LET i == FirstDifference(a.core, b.core)
    IN  IF i = 0 THEN CmpPrerelease(a.pre, b.pre) ELSE Sign(a.core[i], b.core[i])

GtSemver(a, b) == CmpSemver(a, b) > 0

-----------------------------------------------------------------------------
(* The precedence that semver.js announces, in the words of the rule rather *)
(* than by comparing in turn (Semantic Versioning 2.0.0, section 11).      *)

(* Where two sequences differ for the first time. *)
DifferFirst(s, t, i) ==
    /\ i \in DOMAIN s \cap DOMAIN t
    /\ s[i] # t[i]
    /\ \A k \in 1..(i - 1) : s[k] = t[k]

Begins(s, t) == Len(s) < Len(t) /\ \A k \in DOMAIN s : s[k] = t[k]

IdentifierPrecedes(x, y) == (x.num /\ ~y.num) \/ (x.num = y.num /\ x.val < y.val)

PrereleasePrecedes(s, t) ==
    /\ s # <<>>
    /\ \/ t = <<>>
       \/ Begins(s, t)
       \/ \E i \in DOMAIN s : DifferFirst(s, t, i) /\ IdentifierPrecedes(s[i], t[i])

Precedes(a, b) ==
    \/ \E i \in 1..3 : DifferFirst(a.core, b.core, i) /\ a.core[i] < b.core[i]
    \/ a.core = b.core /\ PrereleasePrecedes(a.pre, b.pre)
=============================================================================
