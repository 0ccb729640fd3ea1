------------------------- MODULE CredentialEncoding -------------------------
(***************************************************************************)
(* How CredentialUtils encodes the raw value of an attribute for indy, and *)
(* how a verifier checks the encoding.                                     *)
(*                                                                         *)
(* A value is written as a text: a numeral, canonical or not ("7", "07",   *)
(* " 7", "0x7", and "  " for 0), or a word, which Number() makes NaN; of   *)
(* the empty text Number() makes 0.                                        *)
(***************************************************************************)
EXTENDS Integers

CONSTANTS
  MaxInt,       \* the greatest integer encoded as itself: in the code 2147483647
  Words         \* texts that are no numeral, "None" among them

MinInt == -MaxInt - 1

ASSUME MaxIntAssumption == MaxInt \in Nat \ {0}
ASSUME WordsAssumption == "None" \in Words

Numeral(form, n) == [form |-> form, number |-> n]
Word(w) == [form |-> "word", word |-> w]
Empty == Numeral("empty", 0)

Numerals == {Numeral(form, n) : form \in {"canonical", "other", "fraction"}, n \in Int}
Texts == Numerals \cup {Empty} \cup {Word(w) : w \in Words}

\* A raw value with the text JavaScript writes it as: a number in canonical form or as
\* a fraction, true as 1; null is taken for 'None'.
Raw(type, text) == [type |-> type, text |-> text]
IsRaw(raw) ==
  \/ \E t \in Texts : raw = Raw("string", t)
  \/ \E t \in Numerals : t.form # "other" /\ raw = Raw("number", t)
  \/ \E b \in {0, 1} : raw = Raw("boolean", Numeral("canonical", b))
  \/ raw = Raw("null", Word("None"))

\* External: sha256, which no two texts of interest share.
Hash(text) == [hash |-> text]

\* Mutant: an unsigned upper limit.
IsInt32_Wide(text) ==
  text.form \in {"canonical", "other", "empty"} /\ text.number \in MinInt .. MaxInt + 1

IsInt32(text) ==
  text.form \in {"canonical", "other", "empty"} /\ text.number \in MinInt .. MaxInt

\* A boolean, an int32 and a string that reads as one stay as they are written;
\* anything else becomes its hash.
Encode(raw) ==
  IF \/ raw.type = "boolean"
     \/ raw.type = "number" /\ IsInt32(raw.text)
     \/ raw.type = "string" /\ raw.text # Empty /\ IsInt32(raw.text)
  THEN raw.text
  ELSE Hash(raw.text)

CheckValidEncoding(raw, encoded) == encoded = Encode(raw)

-----------------------------------------------------------------------------
\* Issuer and verifier may see one value with different types (true, 1 and "1"): the
\* check accepts the encoding of another value exactly if both are written alike.
ChecksWhatIsWritten(raw, other) ==
  CheckValidEncoding(raw, Encode(other)) <=> raw.text = other.text

\* A value is encoded as itself exactly if it reads as an integer that fits, one that
\* is not changed by being cut to the width of MinInt .. MaxInt in two's complement.
Cut(n) == ((n - MinInt) % (MaxInt - MinInt + 1)) + MinInt

PlainIffFits(raw) ==
  Encode(raw) = raw.text <=>
    /\ raw.text.form \in {"canonical", "other"}
    /\ Cut(raw.text.number) = raw.text.number
=============================================================================
