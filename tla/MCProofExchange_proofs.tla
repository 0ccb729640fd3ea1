------------------------ MODULE MCProofExchange_proofs ------------------------
(***************************************************************************)
(* Proofs about the contents of the messages of a proof exchange: how raw  *)
(* values are encoded, for any width of integers and any texts, and what a *)
(* prover selects, for proposals and wallets of any length.                *)
(***************************************************************************)
EXTENDS MCProofExchange, WellFoundedInduction, TLAPS

-----------------------------------------------------------------------------
(* Encodings                                                                 *)

LEMMA RawType ==
  ASSUME NEW raw, IsRaw(raw)
  PROVE  /\ raw.text \in Texts
         /\ raw.type \in {"string", "number", "boolean", "null"}
<1>1. CASE \E t \in Texts : raw = Raw("string", t)
  BY <1>1 DEF Raw
<1>2. CASE \E t \in Numerals : t.form # "other" /\ raw = Raw("number", t)
  BY <1>2 DEF Raw, Texts
<1>3. CASE \E b \in {0, 1} : raw = Raw("boolean", Numeral("canonical", b))
  BY <1>3 DEF Raw, Texts, Numerals
<1>4. CASE raw = Raw("null", Word("None"))
  BY <1>4, WordsAssumption DEF Raw, Texts
<1> QED BY <1>1, <1>2, <1>3, <1>4 DEF IsRaw

LEMMA TextNotHash ==
  ASSUME NEW t \in Texts, NEW u
  PROVE  t # Hash(u)
<1>1. "form" \in DOMAIN t
  BY DEF Texts, Numerals, Numeral, Empty, Word
<1>2. "form" \notin DOMAIN Hash(u)
  BY DEF Hash
<1> QED BY <1>1, <1>2

LEMMA HashInjective ==
  ASSUME NEW t, NEW u, Hash(t) = Hash(u)
  PROVE  t = u
<1>1. Hash(t).hash = t /\ Hash(u).hash = u
  BY DEF Hash
<1> QED BY <1>1

\* Whether a value is encoded as itself depends on its text alone.
Plain(text) == text # Empty /\ IsInt32(text)

LEMMA EncodeByText ==
  ASSUME NEW raw, IsRaw(raw)
  PROVE  Encode(raw) = IF Plain(raw.text) THEN raw.text ELSE Hash(raw.text)
<1>1. CASE \E t \in Texts : raw = Raw("string", t)
  BY <1>1 DEF Raw, Encode, Plain
<1>2. CASE \E t \in Numerals : t.form # "other" /\ raw = Raw("number", t)
  <2>1. PICK t \in Numerals : raw = Raw("number", t)
    BY <1>2
  <2>2. t.form # "empty"
    BY DEF Numerals, Numeral
  <2>3. t # Empty
    BY <2>2 DEF Empty, Numeral
  <2> QED BY <2>1, <2>3 DEF Raw, Encode, Plain
<1>3. CASE \E b \in {0, 1} : raw = Raw("boolean", Numeral("canonical", b))
  <2>1. PICK b \in {0, 1} : raw = Raw("boolean", Numeral("canonical", b))
    BY <1>3
  <2>2. Numeral("canonical", b) # Empty
    BY DEF Empty, Numeral
  <2>3. IsInt32(Numeral("canonical", b))
    BY MaxIntAssumption DEF IsInt32, Numeral, MinInt
  <2> QED BY <2>1, <2>2, <2>3 DEF Raw, Encode, Plain
<1>4. CASE raw = Raw("null", Word("None"))
  <2>1. ~IsInt32(Word("None"))
    BY DEF IsInt32, Word
  <2> QED BY <1>4, <2>1 DEF Raw, Encode, Plain
<1> QED BY <1>1, <1>2, <1>3, <1>4 DEF IsRaw

\* Two raw values, whatever their types, verify with each other's encoding exactly if
\* they are written alike (checkValidEncoding against encode).
THEOREM EncodingFaithful ==
  ASSUME NEW raw, NEW other, IsRaw(raw), IsRaw(other)
  PROVE  ChecksWhatIsWritten(raw, other)
<1>1. raw.text \in Texts /\ other.text \in Texts
  BY RawType
<1>2. Encode(raw) = IF Plain(raw.text) THEN raw.text ELSE Hash(raw.text)
  BY EncodeByText
<1>3. Encode(other) = IF Plain(other.text) THEN other.text ELSE Hash(other.text)
  BY EncodeByText
<1>4. raw.text # Hash(other.text) /\ other.text # Hash(raw.text)
  BY <1>1, TextNotHash
<1>5. Hash(raw.text) = Hash(other.text) => raw.text = other.text
  BY HashInjective
<1> QED BY <1>2, <1>3, <1>4, <1>5 DEF ChecksWhatIsWritten, CheckValidEncoding

LEMMA CutIffInRange ==
  ASSUME NEW n \in Int
  PROVE  Cut(n) = n <=> n \in MinInt .. MaxInt
<1> DEFINE k == MaxInt - MinInt + 1
           d == n - MinInt
<1>1. k \in Nat \ {0} /\ d \in Int /\ MinInt \in Int /\ MaxInt \in Int /\ k = MaxInt - MinInt + 1
  BY MaxIntAssumption DEF MinInt
<1>2. d % k \in 0 .. k - 1
  BY <1>1
<1>3. d \in 0 .. k - 1 => d % k = d
  BY <1>1
<1>4. Cut(n) = (d % k) + MinInt
  BY DEF Cut
<1> QED BY <1>1, <1>2, <1>3, <1>4

\* A value stays as it is written exactly if it reads as an integer between the limits,
\* which are those of two's complement (isInt32).
THEOREM PlainFits ==
  ASSUME NEW raw, IsRaw(raw)
  PROVE  PlainIffFits(raw)
<1> DEFINE t == raw.text
<1>1. t \in Texts
  BY RawType
<1>2. Encode(raw) = t <=> Plain(t)
  BY <1>1, EncodeByText, TextNotHash
<1>3. CASE t \in Numerals
  <2>1. t.number \in Int /\ t.form \in {"canonical", "other", "fraction"}
    BY <1>3 DEF Numerals, Numeral
  <2>2. t # Empty
    BY <2>1 DEF Empty, Numeral
  <2>3. Cut(t.number) = t.number <=> t.number \in MinInt .. MaxInt
    BY <2>1, CutIffInRange
  <2> QED BY <1>2, <2>1, <2>2, <2>3 DEF PlainIffFits, Plain, IsInt32
<1>4. CASE t = Empty
  BY <1>2, <1>4 DEF PlainIffFits, Plain, Empty, Numeral
<1>5. CASE \E w \in Words : t = Word(w)
  BY <1>2, <1>5 DEF PlainIffFits, Plain, IsInt32, Word
<1> QED BY <1>1, <1>3, <1>4, <1>5 DEF Texts

-----------------------------------------------------------------------------
(* Selections                                                                *)

LEMMA LeastElement ==
  ASSUME NEW S, S \subseteq Nat, S # {}
  PROVE  \E n \in S : \A k \in S : n <= k
<1> DEFINE R == OpToRel(<, Nat)
<1>1. \E n \in S : \A k \in S : <<k, n>> \notin R
  <2> HIDE DEF R
  <2>1. IsWellFoundedOn(R, Nat)
    BY NatLessThanWellFounded DEF R
  <2> QED BY <2>1, WFMin
<1>2. ASSUME NEW n \in S, NEW k \in S, <<k, n>> \notin R
      PROVE  n <= k
  <2>1. <<k, n>> \in Nat \X Nat
    OBVIOUS
  <2>2. ~ (k < n)
    BY <1>2, <2>1 DEF OpToRel
  <2> QED BY <2>2
<1> QED BY <1>1, <1>2

LEMMA ProposalPositions ==
  ASSUME NEW proposal \in Seq(Attribute), NEW ref
  PROVE  /\ Group(proposal, ref) \subseteq DOMAIN proposal
         /\ DOMAIN proposal \subseteq Nat
         /\ \A i \in DOMAIN proposal : proposal[i] \in Attribute
BY DEF Group

\* What is asked for a referent: the names proposed for it, of the definition one of its
\* attributes names.
LEMMA RequestAsks ==
  ASSUME NEW proposal \in Seq(Attribute), NEW ref \in DOMAIN RequestFrom(proposal)
  PROVE  LET asked == RequestFrom(proposal)[ref] IN
         /\ asked.names = {proposal[i].name : i \in Group(proposal, ref)}
         /\ \E i \in Group(proposal, ref) : asked.credDef = proposal[i].credDef
<1> DEFINE group == Group(proposal, ref)
           first == CHOOSE i \in group : \A j \in group : i <= j
           asked == RequestFrom(proposal)[ref]
<1>1. ref \in {Referent(proposal, i) : i \in DOMAIN proposal}
  BY DEF RequestFrom
<1>2. group # {} /\ group \subseteq Nat /\ group \subseteq DOMAIN proposal
  BY <1>1, ProposalPositions DEF Group
<1>3. asked = [names |-> {proposal[i].name : i \in group}, credDef |-> proposal[first].credDef]
  BY <1>1 DEF RequestFrom
<1>4. first \in group
  <2> HIDE DEF group
  <2> QED BY <1>2, LeastElement
<1> HIDE DEF first
<1> QED BY <1>3, <1>4

\* When some credential fits a clear referent, one that matches agrees with the proposal
\* exactly if it fits too.
LEMMA AgreesIffFits ==
  ASSUME NEW proposal \in Seq(Attribute), NEW ref \in DOMAIN RequestFrom(proposal),
         Clear(proposal, ref),
         NEW f, Fits(f, proposal, ref),
         NEW c, RequestFrom(proposal)[ref].credDef \in {Absent, c.credDef}
  PROVE  Agrees(c, RequestFrom(proposal)[ref], proposal) <=> Fits(c, proposal, ref)
<1> DEFINE group == Group(proposal, ref)
           asked == RequestFrom(proposal)[ref]
<1>1. /\ asked.names = {proposal[i].name : i \in group}
      /\ group \subseteq DOMAIN proposal
  BY RequestAsks, ProposalPositions
<1>2. \A i \in group : proposal[i].credDef = f.credDef /\ f.credDef # Absent
  BY DEF Fits, Clear
<1>3. \A i \in group : proposal[i].credDef = c.credDef
  <2>1. PICK i \in group : asked.credDef = proposal[i].credDef
    BY RequestAsks
  <2> QED BY <1>2, <2>1
<1>4. ASSUME Agrees(c, asked, proposal), NEW i \in group
      PROVE  proposal[i].value \in {Absent, c.values[proposal[i].name]}
  <2>1. proposal[i].name \in asked.names /\ i \in DOMAIN proposal
    BY <1>1
  <2>2. PICK j \in DOMAIN proposal : /\ proposal[j].name = proposal[i].name
                                     /\ proposal[j].credDef = c.credDef
                                     /\ proposal[j].value \in {Absent, c.values[proposal[i].name]}
    BY <1>4, <2>1 DEF Agrees
  <2>3. proposal[j].value = proposal[i].value
    BY <1>3, <2>2 DEF Clear
  <2> QED BY <2>2, <2>3
<1>5. ASSUME Fits(c, proposal, ref), NEW name \in asked.names
      PROVE  \E i \in DOMAIN proposal : /\ proposal[i].name = name
                                        /\ proposal[i].credDef = c.credDef
                                        /\ proposal[i].value \in {Absent, c.values[name]}
  <2>1. PICK i \in group : proposal[i].name = name
    BY <1>1
  <2> QED BY <1>1, <1>3, <1>5, <2>1 DEF Fits
<1> QED BY <1>3, <1>4, <1>5 DEF Agrees, Fits

\* However long the proposal and the wallet are, what is selected for a clear referent is
\* a credential that has what was proposed for it, if there is one
\* (createProofRequestFromProposal, getRequestedCredentialsForProofRequest).
THEOREM SelectionAlwaysFits ==
  ASSUME NEW proposal \in Seq(Attribute), NEW wallet \in Seq(Credential)
  PROVE  SelectionFits(proposal, wallet)
<1> SUFFICES ASSUME NEW ref \in DOMAIN RequestFrom(proposal), Clear(proposal, ref),
                    NEW f \in DOMAIN wallet, Fits(wallet[f], proposal, ref)
             PROVE  LET selected == Selected(wallet, RequestFrom(proposal)[ref], proposal)
                    IN selected # {} /\ \A c \in selected : Fits(c, proposal, ref)
  BY DEF SelectionFits
<1> DEFINE asked == RequestFrom(proposal)[ref]
           matching == Matching(wallet, asked)
           agreeing == {n \in matching : Agrees(wallet[n], asked, proposal)}
           eligible == IF \E n \in matching : matching = {n} THEN matching ELSE agreeing
<1>1. DOMAIN wallet \subseteq Nat
  OBVIOUS
<1>2. \A n : n \in matching <=> n \in DOMAIN wallet /\ asked.credDef \in {Absent, wallet[n].credDef}
  BY DEF Matching
<1>3. \A n \in matching : Agrees(wallet[n], asked, proposal) <=> Fits(wallet[n], proposal, ref)
  <2> TAKE n \in matching
  <2>1. asked.credDef \in {Absent, wallet[n].credDef}
    BY <1>2
  <2> HIDE DEF matching
  <2> QED BY <2>1, AgreesIffFits
<1>4. f \in matching
  <2>1. PICK i \in Group(proposal, ref) : asked.credDef = proposal[i].credDef
    BY RequestAsks
  <2>2. proposal[i].credDef \in {Absent, wallet[f].credDef}
    BY DEF Fits
  <2> QED BY <1>2, <2>1, <2>2
<1>5. f \in eligible /\ eligible \subseteq matching
  BY <1>3, <1>4
<1>6. \A n \in eligible : Fits(wallet[n], proposal, ref)
  BY <1>3, <1>4
<1>7. Selected(wallet, asked, proposal)
        = {wallet[n] : n \in {n \in eligible : \A k \in eligible : n <= k}}
  BY DEF Selected
<1>8. \E n \in eligible : \A k \in eligible : n <= k
  <2>1. eligible \subseteq Nat /\ eligible # {}
    BY <1>1, <1>2, <1>5
  <2> HIDE DEF eligible
  <2> QED BY <2>1, LeastElement
<1> HIDE DEF eligible, asked
<1> QED BY <1>6, <1>7, <1>8 DEF asked

\* However long the proposal and the wallet are, a name that is only proposed without a
\* definition makes the selection throw, unless a single credential matches.
THEOREM UndefinedIsNeverChosen ==
  ASSUME NEW proposal \in Seq(Attribute), NEW wallet \in Seq(Credential)
  PROVE  UndefinedIsNotChosen(proposal, wallet)
<1> SUFFICES ASSUME NEW ref \in DOMAIN RequestFrom(proposal),
                    NEW i \in Group(proposal, ref),
                    \A j \in DOMAIN proposal :
                      proposal[j].name = proposal[i].name => proposal[j].credDef = Absent,
                    ~ \E n \in DOMAIN wallet : Matching(wallet, RequestFrom(proposal)[ref]) = {n}
             PROVE  Selected(wallet, RequestFrom(proposal)[ref], proposal) = {}
  BY DEF UndefinedIsNotChosen
<1> PICK asked : asked = RequestFrom(proposal)[ref]
  OBVIOUS
<1>1. proposal[i].name \in asked.names
  BY RequestAsks
<1>2. \A n \in DOMAIN wallet : wallet[n].credDef # Absent
  <2> SUFFICES ASSUME NEW n \in DOMAIN wallet PROVE wallet[n].credDef # Absent
    OBVIOUS
  <2>1. wallet[n] \in Credential
    OBVIOUS
  <2>2. wallet[n].credDef \in CredDefs
    BY <2>1 DEF Credential
  <2> QED BY <2>2, AbsentAssumption
<1>3. ASSUME NEW n \in DOMAIN wallet PROVE ~Agrees(wallet[n], asked, proposal)
  BY <1>1, <1>2 DEF Agrees
<1>4. Matching(wallet, asked) \subseteq DOMAIN wallet
  BY DEF Matching
<1>5. {n \in Matching(wallet, asked) : Agrees(wallet[n], asked, proposal)} = {}
  BY <1>3, <1>4
<1> QED BY <1>4, <1>5 DEF Selected

-----------------------------------------------------------------------------
(* The property of the run                                                   *)

LEMMA RawValuesAreRaw == \A raw \in RawValues : IsRaw(raw)
<1>1. RawTexts \subseteq Numerals
  BY MaxIntAssumption DEF RawTexts, Numerals, MinInt
<1>2. \A t \in RawTexts \cup {Empty} \cup {Word(w) : w \in Words} : IsRaw(Raw("string", t))
  BY <1>1 DEF IsRaw, Texts
<1>3. \A t \in {u \in RawTexts : u.form # "other"} : IsRaw(Raw("number", t))
  BY <1>1 DEF IsRaw
<1>4. \A b \in {0, 1} : IsRaw(Raw("boolean", Numeral("canonical", b)))
  BY DEF IsRaw
<1>5. IsRaw(Raw("null", Word("None")))
  BY DEF IsRaw
<1> QED BY <1>2, <1>3, <1>4, <1>5 DEF RawValues

\* Whatever exchange led there, a judged presentation was compared by encodings that
\* agree exactly for values written alike, whatever the width of the integers.
THEOREM EncodingAlwaysCorrect == Spec => []EncodingCorrect
<1>1. EncodingCorrect
  BY RawValuesAreRaw, EncodingFaithful, PlainFits DEF EncodingCorrect, EncodingsFit
<1> QED BY <1>1, PTL
=============================================================================
