-------------------------- MODULE MCProofExchange --------------------------
(* ProofExchange for TLC, with the contents of its messages: raw values up  *)
(* to twice the range that is encoded as itself.                            *)
EXTENDS ProofExchange, PresentationContent, CredentialEncoding

RawTexts ==
  {Numeral(form, n) : form \in {"canonical", "other", "fraction"},
                      n \in 2 * MinInt .. 2 * MaxInt + 2}
RawValues ==
  {Raw("string", t) : t \in RawTexts \cup {Empty} \cup {Word(w) : w \in Words}}
    \cup {Raw("number", t) : t \in {u \in RawTexts : u.form # "other"}}
    \cup {Raw("boolean", Numeral("canonical", b)) : b \in {0, 1}}
    \cup {Raw("null", Word("None"))}

EncodingsFit ==
  \A raw \in RawValues :
    /\ PlainIffFits(raw)
    /\ \A other \in RawValues : ChecksWhatIsWritten(raw, other)

\* When a verifier has judged a presentation, the encodings it compared agree exactly
\* for raw values that are written alike, whatever types issuer and verifier see, and
\* the limits of what is encoded as itself are those of two's complement.
EncodingCorrect ==
  \A r \in DOMAIN records[Verifier] :
    records[Verifier][r].isVerified # "unknown" => EncodingsFit
=============================================================================
