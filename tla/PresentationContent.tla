------------------------ MODULE PresentationContent ------------------------
(***************************************************************************)
(* What ProofService puts into a request made from a proposal, and how it  *)
(* picks the credentials for a request.                                    *)
(*                                                                         *)
(* A proposed attribute names a referent, and those of one referent are    *)
(* asked for together, of one credential.  An attribute without a referent *)
(* gets a fresh one: its position in the proposal.                         *)
(***************************************************************************)
EXTENDS Naturals, Sequences

CONSTANTS Names, Referents, CredDefs, Values, Absent

ASSUME AbsentAssumption == Absent \notin Referents \cup CredDefs \cup Values

Attribute == [name: Names, referent: Referents \cup {Absent},
              credDef: CredDefs \cup {Absent}, value: Values \cup {Absent}]
Credential == [credDef: CredDefs, values: [Names -> Values]]

\* The referent of the i-th attribute of a proposal.
Referent(proposal, i) ==
  <<proposal[i].referent, IF proposal[i].referent = Absent THEN i ELSE 0>>

Group(proposal, ref) == {i \in DOMAIN proposal : Referent(proposal, i) = ref}

\* createProofRequestFromProposal: the restriction is that of the first attribute of
\* the referent, whatever the others say.
RequestFrom(proposal) ==
  [ref \in {Referent(proposal, i) : i \in DOMAIN proposal} |->
     LET group == Group(proposal, ref)
         first == CHOOSE i \in group : \A j \in group : i <= j
     IN [names |-> {proposal[i].name : i \in group},
         credDef |-> proposal[first].credDef]]

\* External: the credentials of the wallet, by position, that have the attributes and
\* are of the definition asked for, if one is.
Matching(wallet, asked) ==
  {n \in DOMAIN wallet : asked.credDef \in {Absent, wallet[n].credDef}}

\* The credential has, for each attribute asked for, what some proposed attribute of
\* that name says.
Agrees(c, asked, proposal) ==
  \A name \in asked.names : \E i \in DOMAIN proposal :
    /\ proposal[i].name = name
    /\ proposal[i].credDef = c.credDef
    /\ proposal[i].value \in {Absent, c.values[name]}

\* getRequestedCredentialsForProofRequest for one referent: the only credential that
\* matches, or the first that agrees, as a set; empty when it throws.
Selected(wallet, asked, proposal) ==
  LET matching == Matching(wallet, asked)
      agreeing == {n \in matching : Agrees(wallet[n], asked, proposal)}
      eligible == IF \E n \in matching : matching = {n} THEN matching ELSE agreeing
  IN {wallet[n] : n \in {n \in eligible : \A k \in eligible : n <= k}}

-----------------------------------------------------------------------------
(* What a selection is worth                                                 *)

\* The credential has what is proposed under the referent: the definition, where an
\* attribute names one, and the value, where it gives one.
Fits(c, proposal, ref) ==
  \A i \in Group(proposal, ref) :
    /\ proposal[i].credDef \in {Absent, c.credDef}
    /\ proposal[i].value \in {Absent, c.values[proposal[i].name]}

\* Every attribute of the referent names a definition, and no attribute of the proposal
\* asks another value of the same name and definition.
Clear(proposal, ref) ==
  \A i \in Group(proposal, ref) :
    /\ proposal[i].credDef # Absent
    /\ \A j \in DOMAIN proposal :
         /\ proposal[j].name = proposal[i].name
         /\ proposal[j].credDef = proposal[i].credDef
         => proposal[j].value = proposal[i].value

\* Proposal, request and selection go together: when the verifier makes its request from
\* a proposal and the prover selects for it, a clear referent gets a credential that has
\* what was proposed for it, if the wallet has one.
SelectionFits(proposal, wallet) ==
  \A ref \in DOMAIN RequestFrom(proposal) :
    LET selected == Selected(wallet, RequestFrom(proposal)[ref], proposal)
    IN /\ Clear(proposal, ref)
       /\ \E n \in DOMAIN wallet : Fits(wallet[n], proposal, ref)
       => selected # {} /\ \A c \in selected : Fits(c, proposal, ref)

\* An attribute may be proposed without a definition, but then the comparison with the
\* definition of a credential never succeeds: a name that is only proposed so is given a
\* credential when a single one matches, and otherwise the selection throws, whatever the
\* wallet has.
UndefinedIsNotChosen(proposal, wallet) ==
  \A ref \in DOMAIN RequestFrom(proposal) :
    LET asked == RequestFrom(proposal)[ref]
    IN /\ \E i \in Group(proposal, ref) : \A j \in DOMAIN proposal :
            proposal[j].name = proposal[i].name => proposal[j].credDef = Absent
       /\ ~ \E n \in DOMAIN wallet : Matching(wallet, asked) = {n}
       => Selected(wallet, asked, proposal) = {}
=============================================================================
