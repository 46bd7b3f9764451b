------------------------------ MODULE MCTracing ------------------------------
(* Small instances of Tracing for TLC: sources in the manner of the example *)
(* skill (examples/pg-auditor/SKILL.md).                                    *)
EXTENDS Tracing, TLC

ThePhrases ==
    {"before merging", "prior to merging", "before you merge", "ahead of merging",
     "hot tables", "busy tables", "flag", "call out", "surface", "need", "require",
     "large", "big", "take", "takes", "grab", "grabs", "risk", "issue"}
TheWithin == {<<"take", "takes">>, <<"grab", "grabs">>}

Before == <<"before merging", "prior to merging">>
Merging == Before \o <<"before you merge", "ahead of merging">>
Tables == <<"hot tables", "busy tables">>
Flags  == <<"flag", "call out">>
Needs  == <<"need", "require">>
Sizes  == <<"large", "big">>

Plain   == [marks |-> <<Before, Tables, Flags, Needs>>, text |-> {"risk"}]
Revised == [marks |-> <<Flags \o <<"surface">>, Merging, Tables, Needs>>, text |-> {"risk"}]
Other   == [marks |-> <<Sizes, <<"take", "grab">>, <<"risk", "issue">>>>, text |-> {}]
Lone    == [marks |-> <<<<"issue">>, Tables, Sizes, Needs>>, text |-> {}]
(* Two slots of the same options, as in the example skill's list. *)
Echo    == [marks |-> <<Flags, Sizes, Sizes, Tables>>, text |-> {}]
Stems   == [marks |-> <<<<"take", "grab">>, <<"takes", "grabs">>, Flags, Tables>>, text |-> {}]

AllSources   == {Plain, Revised, Other, Lone}
EchoSources  == {Echo, Stems}

(* Some authors use zero-width characters; those of Lone, a word joiner.    *)
AuthorsHide ==
    [s \in AllSources |->
        CASE s = Other -> [before |-> <<>>, after |-> <<1>>]
          [] s = Lone -> [before |-> <<MARK>>, after |-> <<>>]
          [] OTHER -> [before |-> <<>>, after |-> <<>>]]
NobodyHides == [s \in EchoSources |-> [before |-> <<>>, after |-> <<>>]]

(* In either set, the second and third give the same copy of Other; Revised *)
(* consumes one bit more than they have.                                    *)
SomeFingerprints == {<<0, 0, 0, 0>>, <<1, 1, 1, 0>>, <<1, 1, 1, 1>>}
EchoFingerprints == {<<0, 0, 0, 0>>, <<0, 1, 0, 0>>, <<0, 1, 0, 1>>}

Symmetry == Permutations(OrderIds) \cup Permutations(Skills)
=============================================================================
