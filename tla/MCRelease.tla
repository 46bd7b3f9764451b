------------------------------ MODULE MCRelease ------------------------------
(* Small instances of Release for TLC. *)
EXTENDS Release

ThePhrases == {"busy", "hot", "large", "big", "index", "lock", "curl", "fetch"}
TheCritical == {"curl"}
TheDistrusted == {"curl", "fetch"}

Basics == {"name", "description", "metadata"}
Meta(name, version, price) ==
    [fields |-> Basics, name |-> name, version |-> version, price |-> price,
     splits |-> 0, body |-> TRUE]
Blank == [Meta("", 0, 0) EXCEPT !.fields = {}]

Doc(meta, front, style, marks, text) ==
    [meta |-> meta, front |-> front, style |-> style, marks |-> marks, words |-> <<>>,
     text |-> text, license |-> "none"]
Skill(name, version, price, marks) ==
    Doc(Meta(name, version, price), "metadata", "plain", marks, {"index"})
Notes(text) == Doc(Blank, "none", "plain", <<>>, text)

Locks == [mustMention |-> {"lock"}, mustNotMention |-> {}]
Calm  == [mustMention |-> {}, mustNotMention |-> {"big"}]

Files(main, notes, tasks) == (SKILL :> main) @@ ("notes.md" :> notes) @@ (TASKS :> tasks)
Free(main) == (SKILL :> main)

Tables == <<"hot", "busy">>
Sizes  == <<"large", "big">>

First    == Files(Skill("pg", 1, 29, <<Tables>>), Notes({}), {Locks, Calm})
(* Reworded where copies vary, and nowhere else but in the version. *)
Reworded == Files(Skill("pg", 2, 29, <<Sizes>>), Notes({}), {Locks, Calm})
(* Another wording of the first, with more options at its mark: at the      *)
(* first fingerprint it takes the second, which the first has, too.        *)
Widened  == Files(Skill("pg", 1, 29, <<<<"big", "busy", "large", "index">>>>), Notes({}), {Locks, Calm})
(* A word of it trips the scan: as the second option, or in the notes for  *)
(* one engine, beside a mark.                                              *)
Harmful  == Files(Skill("pg", 2, 29, <<<<"hot", "curl">>>>), Notes({}), {Locks})
Dubious  == Files(Skill("pg", 2, 29, <<>>), [Notes({"fetch"}) EXCEPT !.marks = <<Tables>>], {Locks})
(* Frontmatter and newlines that stripping does not restore. *)
Inline   == (SKILL :> [Skill("pg", 1, 0, <<>>) EXCEPT !.front = "inline-metadata",
                                                      !.style = "mixed-newlines"]) @@ (TASKS :> {Calm})
(* A mark with a single option. *)
Lone     == Free(Skill("pg", 1, 0, <<Tables, <<"index">>>>))
(* Not for the gates: misnamed, not in the CLI's alphabet, of the old      *)
(* form, with all of the price given away.                                 *)
Unicode  == Free(Skill("nonascii", 1, 0, <<>>))
Old      == Free([Skill("pg", 1, 0, <<>>) EXCEPT !.meta.fields = Basics \cup {"price"}])
Given    == Free([Skill("pg", 1, 0, <<>>) EXCEPT !.meta.splits = 100])

Draft(dir, files) == [dir |-> dir, files |-> files]
TheDrafts == {Draft("pg", f) : f \in {First, Reworded, Widened, Harmful, Dubious, Inline, Lone, Old, Given}}
                \cup {Draft("nonascii", Unicode), Draft("elsewhere", Inline)}

TheTranscripts == {{"lock"}, {"lock", "big"}}
TheFingerprints == <<<<0, 1>>, <<1, 0>>>>
TheAnswers == {[answered |-> FALSE, severities |-> <<>>],
               [answered |-> TRUE, severities |-> <<"warn", "critical">>],
               [answered |-> TRUE, severities |-> <<"critical">>]}
=============================================================================
