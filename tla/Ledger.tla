------------------------------- MODULE Ledger -------------------------------
(***************************************************************************)
(* An agent that starts up (Agent.init, IndyWallet.init) and registers     *)
(* schemas and credential definitions (LedgerModule, LedgerService), and   *)
(* the indy ledger it writes to.                                           *)
(*                                                                         *)
(* The configuration has a public DID seed and a genesis path.  A          *)
(* definition is named by its template, its keys by the order they were    *)
(* made in; an agreement is the version of its text and that of its        *)
(* acceptance mechanisms.  Left out: the reads of schemas, definitions and *)
(* DIDs, which change nothing.                                             *)
(***************************************************************************)
EXTENDS Integers, FiniteSets

CONSTANTS
  Schemas, CredDefs,   \* what the application registers
  Calls,               \* calls of the application that may overlap
  MaxCalls,            \* bound: calls made
  MaxFaults,           \* bound: how often something goes wrong
  Faults               \* what may go wrong, of FaultKinds

\* early: a call before init has ended.  refuse: a call of indy fails.  lose: the
\* answer to a write, or the write, gets lost.  amend: the ledger's agreement changes.
FaultKinds == {"early", "crash", "refuse", "lose", "amend"}

ASSUME LedgerAssumption ==
  /\ MaxCalls \in Nat
  /\ MaxFaults \in Nat
  /\ Faults \subseteq FaultKinds
  /\ Schemas \cap CredDefs = {}

Items == Schemas \cup CredDefs
Nobody == 0

VARIABLES
  disk,       \* what survives the process: the wallet, the master secret in it and
              \* the configuration of the pool
  keys,       \* for each definition, the call that made its keys in the wallet
  agent,      \* how far init has come
  memory,     \* the fields the process has set
  cache,      \* authorAgreement
  call,       \* what each call is doing
  calls,      \* calls made so far
  written,    \* the ledger: for each item, the call that wrote it
  agreement,  \* the agreement in force
  returned,   \* history: the items whose registration returned without an error
  mishaps,    \* how often something has gone wrong
  happened    \* the kinds of fault that have occurred so far

agentVars == <<disk, agent, memory>>
ledgerVars == <<written, agreement>>
faultVars == <<mishaps, happened>>
vars == <<disk, keys, agent, memory, cache, call, calls, written, agreement, returned,
          mishaps, happened>>

Things == {"wallet", "masterSecret", "pool"}
Fields == {"walletHandle", "masterSecretId", "publicDid", "poolHandle"}
Steps == {"off", "createWallet", "openWallet", "createMasterSecret", "initPublicDid",
          "createPool", "openPool", "started", "failed"}

\* The ledger's answer that there is no agreement, and a field not yet set.
NoAgreement == [text |-> 0, mechanisms |-> 0]
Undefined == [text |-> -1, mechanisms |-> -1]
Agreement == [text: -1 .. MaxFaults + 1, mechanisms: -1 .. MaxFaults + 1]

\* number tells the calls apart, and the keys they make.
Idle == [pc |-> "idle", item |-> Nobody, number |-> Nobody, taa |-> Undefined]

Init ==
  /\ disk = {}
  /\ keys = [d \in CredDefs |-> Nobody]
  /\ agent = "off"
  /\ memory = {}
  /\ cache = Undefined
  /\ call = [c \in Calls |-> Idle]
  /\ calls = 0
  /\ written = [x \in Items |-> Nobody]
  /\ agreement \in {NoAgreement, [text |-> 1, mechanisms |-> 1]}
  /\ returned = {}
  /\ mishaps = 0
  /\ happened = {}

Strikes(kind) ==
  /\ kind \in Faults
  /\ mishaps < MaxFaults
  /\ mishaps' = mishaps + 1
  /\ happened' = happened \cup {kind}

Quiet == UNCHANGED faultVars
Spared(kinds) == happened \cap kinds = {}

-----------------------------------------------------------------------------
(* Agent.init                                                                *)

\* A process starts, or the application calls init again after it failed.
Boot ==
  /\ agent \in {"off", "failed"}
  /\ agent' = "createWallet"
  /\ UNCHANGED <<disk, memory>> /\ Quiet

\* A step of init makes something on disk, sets a field, and goes on or throws.
Makes(thing) == disk' = disk \cup thing
Sets(field) == memory' = memory \cup field
Goes(step, next) == agent = step /\ agent' = next
Throws(step) == agent = step /\ agent' = "failed" /\ UNCHANGED <<disk, memory>>

\* Mutant: a wallet that exists is an error.
CreateWallet_Once ==
  /\ "wallet" \notin disk
  /\ Goes("createWallet", "openWallet")
  /\ Makes({"wallet"}) /\ Sets({}) /\ Quiet

\* WalletAlreadyExistsError is caught.
CreateWallet == Goes("createWallet", "openWallet") /\ Makes({"wallet"}) /\ Sets({}) /\ Quiet

\* A wallet that is open cannot be opened: no init succeeds once one got this far.
OpenWallet ==
  \/ /\ "walletHandle" \notin memory
     /\ Goes("openWallet", "createMasterSecret")
     /\ Makes({}) /\ Sets({"walletHandle"}) /\ Quiet
  \/ "walletHandle" \in memory /\ Throws("openWallet") /\ Quiet

\* AnoncredsMasterSecretDuplicateNameError is caught: the name is the same.
CreateMasterSecret ==
  /\ Goes("createMasterSecret", "initPublicDid")
  /\ Makes({"masterSecret"}) /\ Sets({"masterSecretId"}) /\ Quiet

\* Mutant: the DID is kept as a DID of the wallet.
InitPublicDid_Private ==
  Goes("initPublicDid", "createPool") /\ Makes({}) /\ Sets({"did"}) /\ Quiet

\* The seed gives the same DID each time.
InitPublicDid ==
  Goes("initPublicDid", "createPool") /\ Makes({}) /\ Sets({"publicDid"}) /\ Quiet

\* Mutant: a pool that is configured is taken to be open.
CreatePool_Skips ==
  /\ Goes("createPool", IF "pool" \in disk THEN "started" ELSE "openPool")
  /\ Makes({"pool"}) /\ Sets({}) /\ Quiet

\* LedgerService.connect: PoolLedgerConfigAlreadyExistsError is caught.
CreatePool == Goes("createPool", "openPool") /\ Makes({"pool"}) /\ Sets({}) /\ Quiet

\* The transport is started last.
OpenPool == Goes("openPool", "started") /\ Makes({}) /\ Sets({"poolHandle"}) /\ Quiet

InitFails == \E step \in Steps \ {"off", "started", "failed"} : Throws(step) /\ Strikes("refuse")

InitStep ==
  CreateWallet \/ OpenWallet \/ CreateMasterSecret \/ InitPublicDid \/ CreatePool \/ OpenPool

-----------------------------------------------------------------------------
(* LedgerModule.registerSchema and registerCredentialDefinition              *)

Set(c, task) == call' = [call EXCEPT ![c] = task]
End(c) == Set(c, Idle)

\* Without a public DID the module throws.
Register(c, x) ==
  /\ call[c].pc = "idle"
  /\ calls < MaxCalls
  /\ calls' = calls + 1
  /\ "publicDid" \in memory
  /\ Set(c, [pc |-> IF x \in CredDefs THEN "createCredDef" ELSE "agree",
             item |-> x, number |-> calls', taa |-> Undefined])
  /\ IF agent = "started" THEN Quiet ELSE Strikes("early")
  /\ UNCHANGED <<agentVars, keys, cache, ledgerVars, returned>>

\* Mutant: a definition that exists is made again.
CreateCredentialDefinition_Again(c) ==
  /\ call[c].pc = "createCredDef"
  /\ keys' = [keys EXCEPT ![call[c].item] = call[c].number]
  /\ Set(c, [call[c] EXCEPT !.pc = "agree"])
  /\ UNCHANGED <<agentVars, cache, calls, ledgerVars, returned>> /\ Quiet

\* The wallet makes the keys before anything goes to the ledger; it makes them once
\* (AnoncredsCredDefAlreadyExistsError), and no one catches that error.
CreateCredentialDefinition(c) ==
  LET d == call[c].item IN
  /\ call[c].pc = "createCredDef"
  /\ \/ /\ keys[d] = Nobody
        /\ keys' = [keys EXCEPT ![d] = call[c].number]
        /\ Set(c, [call[c] EXCEPT !.pc = "agree"])
        /\ Quiet
     \/ /\ (keys[d] # Nobody /\ Quiet) \/ Strikes("refuse")
        /\ End(c)
        /\ UNCHANGED keys
  /\ UNCHANGED <<agentVars, cache, calls, ledgerVars, returned>>

-----------------------------------------------------------------------------
(* LedgerService.submitWriteRequest                                          *)

\* Mutant: the agreement is kept before its mechanisms are read.
Agree_Hasty(c) ==
  /\ call[c].pc = "agree"
  /\ \/ /\ cache # Undefined
        /\ Set(c, [call[c] EXCEPT !.pc = "submit", !.taa = cache])
        /\ UNCHANGED cache
     \/ /\ cache = Undefined
        /\ "poolHandle" \in memory
        /\ Set(c, [call[c] EXCEPT !.pc = "mechanisms", !.taa.text = agreement.text])
        /\ cache' = [text |-> agreement.text, mechanisms |-> 0]
     \/ /\ cache = Undefined
        /\ "poolHandle" \notin memory
        /\ End(c)
        /\ UNCHANGED cache
  /\ UNCHANGED <<agentVars, keys, calls, ledgerVars, returned>> /\ Quiet

\* What was read once is used for the life of the process; without a pool
\* submitReadRequest throws, and so does the catch clause that logs the handle.
Agree(c) ==
  /\ call[c].pc = "agree"
  /\ \/ /\ cache # Undefined
        /\ Set(c, [call[c] EXCEPT !.pc = "submit", !.taa = cache])
     \/ /\ cache = Undefined
        /\ "poolHandle" \in memory
        /\ Set(c, [call[c] EXCEPT !.pc = "mechanisms", !.taa.text = agreement.text])
     \/ /\ cache = Undefined
        /\ "poolHandle" \notin memory
        /\ End(c)
  /\ UNCHANGED <<agentVars, keys, cache, calls, ledgerVars, returned>> /\ Quiet

\* The second read; another call may have set the field in the meantime.
AgreeMechanisms(c) ==
  LET taa == IF call[c].taa.text = 0 THEN NoAgreement
             ELSE [call[c].taa EXCEPT !.mechanisms = agreement.mechanisms]
  IN
  /\ call[c].pc = "mechanisms"
  /\ cache' = taa
  /\ Set(c, [call[c] EXCEPT !.pc = "submit", !.taa = taa])
  /\ UNCHANGED <<agentVars, keys, calls, ledgerVars, returned>> /\ Quiet

\* A read of the agreement that gets no answer: the call throws, and nothing is kept.
ReadFails(c) ==
  /\ call[c].pc \in {"agree", "mechanisms"}
  /\ Strikes("lose")
  /\ End(c)
  /\ UNCHANGED <<agentVars, keys, cache, calls, ledgerVars, returned>>

\* External: the ledger takes what it does not have yet, if the agreement that was
\* accepted is the one in force.
Accepts(x, taa) == taa = agreement /\ written[x] = Nobody

\* The pool is open: the agreement was read through it.
Submit(c) ==
  LET x == call[c].item IN
  /\ call[c].pc = "submit"
  /\ IF Accepts(x, call[c].taa)
     THEN /\ written' = [written EXCEPT ![x] = call[c].number]
          /\ Set(c, [call[c] EXCEPT !.pc = "accepted"])
     ELSE /\ Set(c, [call[c] EXCEPT !.pc = "rejected"])
          /\ UNCHANGED written
  /\ UNCHANGED <<agentVars, keys, cache, calls, agreement, returned>> /\ Quiet

\* A rejected write throws.
Return(c) ==
  /\ \/ call[c].pc = "accepted" /\ returned' = returned \cup {call[c].item}
     \/ call[c].pc = "rejected" /\ UNCHANGED returned
  /\ End(c)
  /\ UNCHANGED <<agentVars, keys, cache, calls, ledgerVars>> /\ Quiet

\* The request or its answer does not come through: the call times out and throws.
Lose(c) ==
  /\ call[c].pc \in {"submit", "accepted", "rejected"}
  /\ Strikes("lose")
  /\ End(c)
  /\ UNCHANGED <<agentVars, keys, cache, calls, ledgerVars, returned>>

-----------------------------------------------------------------------------
\* The process ends, and all that is not on disk with it; or it is restarted after
\* init failed.
Restart ==
  /\ agent # "off"
  /\ IF agent = "failed" THEN Quiet ELSE Strikes("crash")
  /\ agent' = "off"
  /\ memory' = {}
  /\ cache' = Undefined
  /\ call' = [c \in Calls |-> Idle]
  /\ UNCHANGED <<disk, keys, calls, ledgerVars, returned>>

\* The trustees of the ledger change the text or the mechanisms.
Amend ==
  /\ Strikes("amend")
  /\ \/ agreement' = [text |-> agreement.text + 1,
                      mechanisms |-> IF agreement = NoAgreement THEN 1 ELSE agreement.mechanisms]
     \/ agreement # NoAgreement /\ agreement' = [agreement EXCEPT !.mechanisms = @ + 1]
  /\ UNCHANGED <<agentVars, keys, cache, call, calls, written, returned>>

Starting ==
  /\ Boot \/ InitStep \/ InitFails
  /\ UNCHANGED <<keys, cache, call, calls, ledgerVars, returned>>

Proceed(c) ==
  CreateCredentialDefinition(c) \/ Agree(c) \/ AgreeMechanisms(c) \/ Submit(c) \/ Return(c)

Next ==
  \/ Starting
  \/ \E c \in Calls :
       \/ \E x \in Items : Register(c, x)
       \/ Proceed(c) \/ ReadFails(c) \/ Lose(c)
  \/ Restart
  \/ Amend

Spec == Init /\ [][Next]_vars

\* Promises settle, and an agent that is off or could not start is started afresh.
Fairness ==
  /\ WF_vars(Starting)
  /\ SF_vars(agent = "failed" /\ Restart)
  /\ \A c \in Calls : WF_vars(Proceed(c))

FairSpec == Spec /\ Fairness
-----------------------------------------------------------------------------
(* Properties                                                                *)

TypeOK ==
  /\ disk \subseteq Things
  /\ keys \in [CredDefs -> 0..MaxCalls]
  /\ agent \in Steps
  /\ memory \subseteq Fields
  /\ cache \in Agreement
  /\ call \in [Calls ->
       [pc: {"idle", "createCredDef", "agree", "mechanisms", "submit", "accepted", "rejected"},
        item: Items \cup {Nobody}, number: 0..MaxCalls, taa: Agreement]]
  /\ calls \in 0..MaxCalls
  /\ written \in [Items -> 0..MaxCalls]
  /\ agreement \in Agreement
  /\ returned \subseteq Items
  /\ mishaps \in 0..MaxFaults
  /\ happened \subseteq FaultKinds

\* An agent that has started has everything it needs, in the process and on disk,
\* however often earlier starts were cut short: each of the errors init ignores does
\* mean that what it wanted is there.
StartedIsComplete ==
  agent = "started" => disk = Things /\ memory = Fields

\* The definition on the ledger is the one whose private key the wallet has, whatever
\* overlaps, is retried or cut short: else nothing issued for it would verify.
KeysMatch ==
  \A d \in CredDefs : written[d] # Nobody => written[d] = keys[d]

\* The agreement the agent has kept is the one in force, although two reads make it
\* and several calls may be reading: until the ledger's changes, from when on it may
\* be an old one or a mixture for the rest of the process's life.
KeptIsInForce ==
  Spared({"amend"}) => cache \in {Undefined, agreement}

\* A registration that returned is on the ledger.
ReturnedIsWritten ==
  \A x \in returned : written[x] # Nobody

\* However often its start is cut short or fails, the agent starts in the end; init
\* alone, called again, would not do.
Starts == []<>(agent = "started")

\* A definition made in the wallet gets onto the ledger, whatever calls overlap.
\* After a call that was cut short, rejected or lost it never does: it cannot be made
\* a second time.
MadeIsWritten ==
  \A d \in CredDefs :
    keys[d] # Nobody ~> written[d] # Nobody \/ ~Spared(FaultKinds)
=============================================================================
