------------------------------- MODULE Canary -------------------------------
(***************************************************************************)
(* The semantic fingerprint (packages/core/src/canary.js): the seller marks *)
(* slots that offer equivalent phrasings, a buyer's copy takes one option   *)
(* per slot by the bits of its fingerprint, and tracing compares what a     *)
(* suspect document still shows with what every buyer was given.            *)
(*                                                                         *)
(* A document is the set of phrases in it; its case and white space, which  *)
(* the comparison ignores, are left out.                                    *)
(***************************************************************************)
EXTENDS Integers, Sequences, FiniteSets, SequencesExt

CONSTANTS
    Phrases,          \* normalised phrases
    Within,           \* pairs <<p, q>>: the text of p is a part of the text of q
    FingerprintBits   \* 64: sixteen hexadecimal digits

ASSUME WithinAssumption == Within \subseteq Phrases \X Phrases
ASSUME FingerprintBitsAssumption == FingerprintBits \in Nat \ {0}

MIN_OBSERVED_SLOTS == 3

Fingerprints == [1..FingerprintBits -> {0, 1}]

(* A source: the options of each {{~ ... }}, in order, and the phrases of   *)
(* the text around them.                                                    *)
IsSource(s) ==
    /\ DOMAIN s = {"marks", "text"}
    /\ s.marks \in Seq(Seq(Phrases)) /\ \A i \in DOMAIN s.marks : s.marks[i] # <<>>
    /\ s.text \subseteq Phrases

-----------------------------------------------------------------------------
(* Rendering *)

(* A mark with a single option is rendered but is no slot.  This recursion  *)
(* and the two below stand for SelectSeq and FoldLeft, into which the       *)
(* prover cannot look.                                                      *)
ParseSlots(source) ==
    LET slots[i \in 0..Len(source.marks)] ==
            IF i = 0 THEN <<>>
            ELSE IF Len(source.marks[i]) >= 2 THEN Append(slots[i - 1], source.marks[i])
            ELSE slots[i - 1]
    IN  slots[Len(source.marks)]

(* Bits a mark consumes: the logarithm of its options, rounded down, which  *)
(* is how many powers of two fit.                                           *)
BitsOf(options) == Cardinality({k \in 1..Len(options) : 2^k <= Len(options)})

CapacityBits(slots) ==
    LET bits[i \in 0..Len(slots)] == IF i = 0 THEN 0 ELSE bits[i - 1] + BitsOf(slots[i])
    IN  bits[Len(slots)]

(* The number that a sequence of bits denotes. *)
Number(bits) ==
    LET value[i \in 0..Len(bits)] == IF i = 0 THEN 0 ELSE 2 * value[i - 1] + bits[i]
    IN  value[Len(bits)]

(* A fingerprint shorter than the capacity repeats. *)
Bit(fp, j) == fp[((j - 1) % FingerprintBits) + 1]

(* The option of the i-th mark: the next bits, as a number. *)
Picked(source, fp, i) ==
    LET cursor == CapacityBits(SubSeq(source.marks, 1, i - 1))
        next   == [k \in 1..BitsOf(source.marks[i]) |-> Bit(fp, cursor + k)]
    IN  1 + (Number(next) % Len(source.marks[i]))

Selection(source, fp) == [i \in DOMAIN source.marks |-> Picked(source, fp, i)]

(* The phrase at each mark of a copy. *)
Rendered(source, fp) ==
    [i \in DOMAIN source.marks |-> source.marks[i][Selection(source, fp)[i]]]

-----------------------------------------------------------------------------
(* Tracing *)

Shows(doc, phrase) == \E p \in doc : p = phrase \/ <<phrase, p>> \in Within

Unknown == 0

(* Per slot: its one option that the document shows, if there is just one.  *)
Observed(doc, slots) ==
    [i \in DOMAIN slots |->
        LET hits == {o \in DOMAIN slots[i] : Shows(doc, slots[i][o])}
        IN  IF Cardinality(hits) = 1 THEN CHOOSE o \in hits : TRUE ELSE Unknown]

Surviving(observed) == {i \in DOMAIN observed : observed[i] # Unknown}

(* The marks of a copy that count, and those that agree.  The code pairs    *)
(* the marks with the slots by position, so marks past the last slot count. *)
Comparable(source, observed) == DOMAIN source.marks \ (DOMAIN observed \ Surviving(observed))
Matches(source, fp, observed) ==
    {i \in Surviving(observed) : observed[i] = Selection(source, fp)[i]}

MoreThanMinimum(observed) ==                            \* mutant of Enough
    Cardinality(Surviving(observed)) > MIN_OBSERVED_SLOTS

Enough(observed) == Cardinality(Surviving(observed)) >= MIN_OBSERVED_SLOTS

NoEvidence == [verdict |-> "no-match", consistent |-> {}, bits |-> 0]

(* fpOf: the candidates' fingerprints.  Agreement with at least four fifths *)
(* of the marks is a strong partial match.                                  *)
TraceCanary(doc, source, fpOf) ==
    LET slots    == ParseSlots(source)
        observed == Observed(doc, slots)
        count    == Cardinality(Comparable(source, observed))
        agreeing == [c \in DOMAIN fpOf |-> Cardinality(Matches(source, fpOf[c], observed))]
        consistent == {c \in DOMAIN fpOf : count = Cardinality(Surviving(observed))
                                              /\ count > 0 /\ agreeing[c] = count}
        bits == FoldLeft(LAMBDA n, i : IF observed[i] = Unknown THEN n ELSE n + BitsOf(slots[i]),
                         0, [i \in DOMAIN slots |-> i])
    IN  [verdict |->
            CASE Surviving(observed) = {} -> "no-match"
              [] Surviving(observed) # {} /\ ~Enough(observed) -> "insufficient-evidence"
              [] Enough(observed) /\ Cardinality(consistent) = 1 -> "identified"
              [] Enough(observed) /\ Cardinality(consistent) > 1 -> "inconclusive"
              [] OTHER -> IF \E c \in DOMAIN fpOf : 5 * agreeing[c] >= 4 * count
                          THEN "inconclusive" ELSE "no-match",
         consistent |-> consistent, bits |-> bits]

=============================================================================
