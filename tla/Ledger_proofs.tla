---------------------------- MODULE Ledger_proofs ----------------------------
(***************************************************************************)
(* Proofs about Ledger, for any items, number of calls and of faults.      *)
(***************************************************************************)
EXTENDS Ledger, TLAPS

Busy(c) == call[c].pc # "idle"
Asking(c) == call[c].pc \in {"agree", "mechanisms", "submit"}

\* A call knows its item and its number, and only registers keys it has made.
CallsFit ==
  \A c \in Calls : Busy(c) =>
    /\ call[c].item \in Items
    /\ call[c].number # Nobody
    /\ call[c].pc = "createCredDef" => call[c].item \in CredDefs
    /\ Asking(c) /\ call[c].item \in CredDefs => keys[call[c].item] = call[c].number

\* An accepted write stays on the ledger.
AcceptedIsWritten ==
  \A c \in Calls : call[c].pc = "accepted" => written[call[c].item] # Nobody

\* How far the versions of the agreement have come.
AgreementFits ==
  /\ agreement.text \in 0 .. mishaps + 1
  /\ agreement.mechanisms \in 0 .. mishaps + 1
  /\ agreement.text = 0 => agreement = NoAgreement

\* The text a call has read is still that of the agreement, unless that changed.
ReadsFit ==
  Spared({"amend"}) =>
    \A c \in Calls : call[c].pc = "mechanisms" => call[c].taa.text = agreement.text

\* What init has made by the time it gets to a step.
Reached ==
  /\ agent = "openWallet" => "wallet" \in disk
  /\ agent = "createMasterSecret" => "wallet" \in disk /\ "walletHandle" \in memory
  /\ agent = "initPublicDid" =>
       {"wallet", "masterSecret"} \subseteq disk /\ {"walletHandle", "masterSecretId"} \subseteq memory
  /\ agent = "createPool" =>
       /\ {"wallet", "masterSecret"} \subseteq disk
       /\ {"walletHandle", "masterSecretId", "publicDid"} \subseteq memory
  /\ agent = "openPool" =>
       disk = Things /\ {"walletHandle", "masterSecretId", "publicDid"} \subseteq memory

TaskPart == TypeOK /\ CallsFit /\ KeysMatch
WritePart == AcceptedIsWritten /\ ReturnedIsWritten
ReadPart == AgreementFits /\ ReadsFit /\ KeptIsInForce
StartPart == Reached /\ StartedIsComplete
LedgerInv == TaskPart /\ WritePart /\ ReadPart /\ StartPart

Task == [pc: {"idle", "createCredDef", "agree", "mechanisms", "submit", "accepted", "rejected"},
         item: Items \cup {Nobody}, number: 0..MaxCalls, taa: Agreement]

-----------------------------------------------------------------------------
LEMMA IdleType == Idle \in Task
BY LedgerAssumption DEF Idle, Task, Undefined, Agreement, Nobody

LEMMA InitEstablishes == Init => LedgerInv
<1> SUFFICES ASSUME Init PROVE LedgerInv
  OBVIOUS
<1>1. call \in [Calls -> Task]
  BY IdleType DEF Init
<1>2. agreement \in Agreement /\ AgreementFits
  BY LedgerAssumption DEF Init, Agreement, AgreementFits, NoAgreement
<1>3. cache \in Agreement
  BY LedgerAssumption DEF Init, Agreement, Undefined
<1>4. TypeOK
  BY <1>1, <1>2, <1>3, LedgerAssumption DEF Init, TypeOK, Task, Steps, Nobody
<1>5. CallsFit /\ KeysMatch /\ WritePart
  BY DEF Init, CallsFit, Busy, KeysMatch, WritePart, AcceptedIsWritten, ReturnedIsWritten,
     Idle, Items
<1>6. ReadPart
  BY <1>2 DEF Init, ReadPart, ReadsFit, KeptIsInForce, Idle
<1>7. StartPart
  BY DEF Init, StartPart, Reached, StartedIsComplete
<1> QED BY <1>4, <1>5, <1>6, <1>7 DEF LedgerInv, TaskPart

-----------------------------------------------------------------------------
(* Faults                                                                    *)

FaultsGrow ==
  /\ mishaps' \in 0..MaxFaults
  /\ mishaps' >= mishaps
  /\ happened' \subseteq FaultKinds
  /\ happened \subseteq happened'

LEMMA Counted ==
  ASSUME TypeOK, Quiet \/ \E kind \in FaultKinds : Strikes(kind)
  PROVE  FaultsGrow
BY LedgerAssumption DEF TypeOK, Quiet, faultVars, Strikes, FaultsGrow

LEMMA StepCounted ==
  ASSUME LedgerInv, [Next]_vars
  PROVE  FaultsGrow
<1>1. CASE Starting
  BY <1>1, Counted DEF LedgerInv, TaskPart, Starting, Boot, InitStep, InitFails, CreateWallet,
     OpenWallet, CreateMasterSecret, InitPublicDid, CreatePool, OpenPool, FaultKinds
<1>2. CASE \E c \in Calls : \/ \E x \in Items : Register(c, x)
                            \/ Proceed(c) \/ ReadFails(c) \/ Lose(c)
  BY <1>2, Counted DEF LedgerInv, TaskPart, Register, Proceed, CreateCredentialDefinition,
     Agree, AgreeMechanisms, Submit, Return, ReadFails, Lose, FaultKinds
<1>3. CASE Restart
  BY <1>3, Counted DEF LedgerInv, TaskPart, Restart, FaultKinds
<1>4. CASE Amend
  BY <1>4, Counted DEF LedgerInv, TaskPart, Amend, FaultKinds
<1>5. CASE UNCHANGED vars
  BY <1>5, Counted DEF LedgerInv, TaskPart, vars, Quiet, faultVars
<1> QED BY <1>1, <1>2, <1>3, <1>4, <1>5 DEF Next

-----------------------------------------------------------------------------
(* A step of a call                                                          *)

\* What a call keeps while its record in the state is replaced.
LEMMA CallType ==
  ASSUME TypeOK, NEW c \in Calls, NEW task \in Task, Set(c, task)
  PROVE  /\ call' \in [Calls -> Task]
         /\ call'[c] = task
         /\ \A b \in Calls : b # c => call'[b] = call[b]
BY DEF TypeOK, Set, Task

LEMMA CallOfType ==
  ASSUME TypeOK, NEW c \in Calls
  PROVE  call[c] \in Task
BY DEF TypeOK, Task

LEMMA RegisterKeeps ==
  ASSUME LedgerInv, NEW c \in Calls, NEW x \in Items, Register(c, x), FaultsGrow
  PROVE  TaskPart' /\ WritePart'
<1> DEFINE task == [pc |-> IF x \in CredDefs THEN "createCredDef" ELSE "agree",
                    item |-> x, number |-> calls', taa |-> Undefined]
<1>1. calls' \in 0..MaxCalls /\ calls' # Nobody
  BY LedgerAssumption DEF LedgerInv, TaskPart, TypeOK, Register, Nobody
<1>3. task \in Task
  BY <1>1, IdleType DEF Task, Idle, Items
<1>4. /\ call' \in [Calls -> Task]
      /\ call'[c] = task
      /\ \A b \in Calls : b # c => call'[b] = call[b]
  <2>1. Set(c, task)
    BY DEF Register
  <2> QED BY <1>3, <2>1, CallType DEF LedgerInv, TaskPart
<1>5. UNCHANGED <<disk, agent, memory, keys, cache, written, agreement, returned>>
  BY DEF Register, agentVars, ledgerVars
<1>2. /\ task.item = x /\ task.number = calls'
      /\ task.pc = "createCredDef" => x \in CredDefs
      /\ task.pc \in {"createCredDef", "agree"}
      /\ task.pc = "agree" => x \notin CredDefs
  OBVIOUS
<1> HIDE DEF task
<1>6. TypeOK'
  BY <1>1, <1>4, <1>5 DEF LedgerInv, TaskPart, TypeOK, Task, FaultsGrow
<1>7. CallsFit'
  BY <1>1, <1>2, <1>4, <1>5 DEF LedgerInv, TaskPart, CallsFit, Busy, Asking, Items
<1>8. WritePart'
  BY <1>2, <1>4, <1>5 DEF LedgerInv, WritePart, AcceptedIsWritten, ReturnedIsWritten
<1> QED BY <1>5, <1>6, <1>7, <1>8 DEF LedgerInv, TaskPart, KeysMatch

LEMMA CreateKeeps ==
  ASSUME LedgerInv, NEW c \in Calls, CreateCredentialDefinition(c), FaultsGrow
  PROVE  TaskPart' /\ WritePart'
<1>1. call[c] \in Task /\ call[c].item \in CredDefs /\ call[c].number # Nobody
  BY CallOfType DEF LedgerInv, TaskPart, CallsFit, Busy, CreateCredentialDefinition
<1>2. UNCHANGED <<disk, agent, memory, calls, cache, written, agreement, returned>>
  BY DEF CreateCredentialDefinition, agentVars, ledgerVars
<1>3. CASE /\ keys[call[c].item] = Nobody
           /\ keys' = [keys EXCEPT ![call[c].item] = call[c].number]
           /\ Set(c, [call[c] EXCEPT !.pc = "agree"])
  <2>1. [call[c] EXCEPT !.pc = "agree"] \in Task
    BY <1>1 DEF Task
  <2>2. /\ call' \in [Calls -> Task]
        /\ call'[c] = [call[c] EXCEPT !.pc = "agree"]
        /\ \A b \in Calls : b # c => call'[b] = call[b]
    BY <1>3, <2>1, CallType DEF LedgerInv, TaskPart
  <2>3. keys' \in [CredDefs -> 0..MaxCalls]
    BY <1>1, <1>3 DEF LedgerInv, TaskPart, TypeOK, Task
  <2>4. /\ keys'[call[c].item] = call[c].number
        /\ \A d \in CredDefs : d # call[c].item => keys'[d] = keys[d]
    BY <1>1, <1>3 DEF LedgerInv, TaskPart, TypeOK
  <2>5. TypeOK'
    BY <1>2, <2>2, <2>3 DEF LedgerInv, TaskPart, TypeOK, Task, FaultsGrow
  <2>6. CallsFit'
    <3> SUFFICES ASSUME NEW b \in Calls, Busy(b)'
                 PROVE  /\ call'[b].item \in Items
                        /\ call'[b].number # Nobody
                        /\ call'[b].pc = "createCredDef" => call'[b].item \in CredDefs
                        /\ Asking(b)' /\ call'[b].item \in CredDefs
                             => keys'[call'[b].item] = call'[b].number
      BY DEF CallsFit
    <3>1. CASE b = c
      BY <1>1, <2>2, <2>4, <3>1 DEF Items, Task
    <3>2. CASE b # c
      BY <1>3, <2>2, <2>4, <3>2 DEF LedgerInv, TaskPart, CallsFit, Busy, Asking
    <3> QED BY <3>1, <3>2
  <2>7. KeysMatch'
    BY <1>2, <1>3, <2>4 DEF LedgerInv, TaskPart, KeysMatch
  <2>8. WritePart'
    BY <1>2, <2>2 DEF LedgerInv, WritePart, AcceptedIsWritten, ReturnedIsWritten, Task
  <2> QED BY <2>5, <2>6, <2>7, <2>8 DEF TaskPart
<1>4. CASE End(c) /\ UNCHANGED keys
  <2>1. /\ call' \in [Calls -> Task]
        /\ call'[c] = Idle
        /\ \A b \in Calls : b # c => call'[b] = call[b]
    BY <1>4, IdleType, CallType DEF LedgerInv, TaskPart, End
  <2>2. TypeOK'
    BY <1>2, <1>4, <2>1 DEF LedgerInv, TaskPart, TypeOK, Task, FaultsGrow
  <2>3. CallsFit' /\ KeysMatch' /\ WritePart'
    BY <1>2, <1>4, <2>1 DEF LedgerInv, TaskPart, CallsFit, KeysMatch, Busy, Asking, Idle,
       WritePart, AcceptedIsWritten, ReturnedIsWritten
  <2> QED BY <2>2, <2>3 DEF TaskPart
<1> QED BY <1>3, <1>4 DEF CreateCredentialDefinition

\* A call goes on with what it has, or ends.
LEMMA Advances ==
  ASSUME LedgerInv, FaultsGrow, NEW c \in Calls, NEW task \in Task, Set(c, task),
         \/ task = Idle
         \/ /\ Asking(c)
            /\ task.item = call[c].item /\ task.number = call[c].number
            /\ task.pc \in {"mechanisms", "submit", "rejected"},
         cache' \in Agreement,
         returned' \subseteq Items, \A x \in returned' : written[x] # Nobody,
         UNCHANGED <<disk, agent, memory, keys, calls, written, agreement>>
  PROVE  TaskPart' /\ WritePart'
<1>1. /\ call' \in [Calls -> Task]
      /\ call'[c] = task
      /\ \A b \in Calls : b # c => call'[b] = call[b]
  BY CallType DEF LedgerInv, TaskPart
<1>2. TypeOK'
  BY <1>1 DEF LedgerInv, TaskPart, TypeOK, Task, FaultsGrow
<1>3. CallsFit'
  <2>1. CASE task = Idle
    BY <1>1, <2>1 DEF LedgerInv, TaskPart, CallsFit, Busy, Asking, Idle
  <2>2. CASE /\ Asking(c)
             /\ task.item = call[c].item /\ task.number = call[c].number
             /\ task.pc \in {"mechanisms", "submit", "rejected"}
    BY <1>1, <2>2 DEF LedgerInv, TaskPart, CallsFit, Busy, Asking
  <2> QED BY <2>1, <2>2
<1>4. KeysMatch'
  BY DEF LedgerInv, TaskPart, KeysMatch
<1>5. WritePart'
  BY <1>1 DEF LedgerInv, WritePart, AcceptedIsWritten, ReturnedIsWritten, Idle
<1> QED BY <1>2, <1>3, <1>4, <1>5 DEF TaskPart

LEMMA EndsKeep ==
  ASSUME LedgerInv, FaultsGrow, NEW c \in Calls, ReadFails(c) \/ Lose(c)
  PROVE  TaskPart' /\ WritePart'
<1>1. /\ Set(c, Idle)
      /\ UNCHANGED <<disk, agent, memory, keys, calls, written, agreement, cache, returned>>
  BY DEF ReadFails, Lose, End, agentVars, ledgerVars
<1>2. /\ cache' \in Agreement /\ returned' \subseteq Items
      /\ \A x \in returned' : written[x] # Nobody
  BY <1>1 DEF LedgerInv, TaskPart, TypeOK, WritePart, ReturnedIsWritten
<1> QED BY <1>1, <1>2, IdleType, Advances

LEMMA AgreeKeeps ==
  ASSUME LedgerInv, FaultsGrow, NEW c \in Calls, Agree(c)
  PROVE  TaskPart' /\ WritePart'
<1>1. UNCHANGED <<disk, agent, memory, keys, calls, written, agreement, cache, returned>>
  BY DEF Agree, agentVars, ledgerVars
<1>2. /\ cache' \in Agreement /\ returned' \subseteq Items
      /\ \A x \in returned' : written[x] # Nobody
      /\ call[c] \in Task /\ agreement.text \in -1 .. MaxFaults + 1
  BY <1>1, CallOfType DEF LedgerInv, TaskPart, TypeOK, WritePart, ReturnedIsWritten, Agreement
<1>3. Asking(c)
  BY DEF Agree, Asking
<1>4. CASE Set(c, [call[c] EXCEPT !.pc = "submit", !.taa = cache])
  <2>1. [call[c] EXCEPT !.pc = "submit", !.taa = cache] \in Task
    BY <1>1, <1>2 DEF Task
  <2> QED BY <1>1, <1>2, <1>3, <1>4, <2>1, Advances DEF Task
<1>5. CASE Set(c, [call[c] EXCEPT !.pc = "mechanisms", !.taa.text = agreement.text])
  <2> DEFINE task == [call[c] EXCEPT !.pc = "mechanisms", !.taa.text = agreement.text]
  <2>1. /\ task \in Task
        /\ task.item = call[c].item /\ task.number = call[c].number /\ task.pc = "mechanisms"
    BY <1>2 DEF Task, Agreement
  <2> HIDE DEF task
  <2>2. Set(c, task)
    BY <1>5 DEF task
  <2> QED BY <1>1, <1>2, <1>3, <2>1, <2>2, Advances
<1>6. CASE End(c)
  BY <1>1, <1>2, <1>6, IdleType, Advances DEF End
<1> QED BY <1>4, <1>5, <1>6 DEF Agree

\* The agreement a call puts together.
LEMMA Together ==
  ASSUME LedgerInv, NEW c \in Calls, NEW taa,
         taa = IF call[c].taa.text = 0 THEN NoAgreement
               ELSE [call[c].taa EXCEPT !.mechanisms = agreement.mechanisms]
  PROVE  /\ taa \in Agreement
         /\ call[c].taa.text = agreement.text => taa = agreement
<1>1. /\ call[c].taa \in Agreement /\ agreement \in Agreement
      /\ agreement.text = 0 => agreement = NoAgreement
  BY CallOfType DEF LedgerInv, TaskPart, TypeOK, ReadPart, AgreementFits, Task
<1>2. NoAgreement \in Agreement
  BY LedgerAssumption DEF NoAgreement, Agreement
<1> QED BY <1>1, <1>2 DEF Agreement

LEMMA MechanismsKeep ==
  ASSUME LedgerInv, FaultsGrow, NEW c \in Calls, AgreeMechanisms(c)
  PROVE  TaskPart' /\ WritePart'
<1> DEFINE taa == IF call[c].taa.text = 0 THEN NoAgreement
                  ELSE [call[c].taa EXCEPT !.mechanisms = agreement.mechanisms]
           task == [call[c] EXCEPT !.pc = "submit", !.taa = taa]
<1>1. UNCHANGED <<disk, agent, memory, keys, calls, written, agreement, returned>>
  BY DEF AgreeMechanisms, agentVars, ledgerVars
<1>2. cache' = taa /\ Set(c, task) /\ Asking(c)
  BY DEF AgreeMechanisms, Asking
<1>3. taa \in Agreement /\ call[c] \in Task
  BY Together, CallOfType DEF LedgerInv, TaskPart
<1> HIDE DEF taa
<1>4. /\ task \in Task
      /\ task.item = call[c].item /\ task.number = call[c].number /\ task.pc = "submit"
  BY <1>3 DEF Task
<1> HIDE DEF task
<1>5. returned' \subseteq Items /\ \A x \in returned' : written[x] # Nobody
  BY <1>1 DEF LedgerInv, TaskPart, TypeOK, WritePart, ReturnedIsWritten
<1> QED BY <1>1, <1>2, <1>3, <1>4, <1>5, Advances

LEMMA ReturnKeeps ==
  ASSUME LedgerInv, FaultsGrow, NEW c \in Calls, Return(c)
  PROVE  TaskPart' /\ WritePart'
<1>1. /\ Set(c, Idle)
      /\ UNCHANGED <<disk, agent, memory, keys, calls, written, agreement, cache>>
  BY DEF Return, End, agentVars, ledgerVars
<1>2. call[c].item \in Items /\ (call[c].pc = "accepted" => written[call[c].item] # Nobody)
  BY DEF LedgerInv, TaskPart, CallsFit, Busy, WritePart, AcceptedIsWritten, Return
<1>3. /\ cache' \in Agreement /\ returned' \subseteq Items
      /\ \A x \in returned' : written[x] # Nobody
  BY <1>1, <1>2 DEF LedgerInv, TaskPart, TypeOK, WritePart, ReturnedIsWritten, Return
<1> QED BY <1>1, <1>3, IdleType, Advances

LEMMA SubmitKeeps ==
  ASSUME LedgerInv, FaultsGrow, NEW c \in Calls, Submit(c)
  PROVE  TaskPart' /\ WritePart'
<1>1. UNCHANGED <<disk, agent, memory, keys, calls, agreement, cache, returned>>
  BY DEF Submit, agentVars, ledgerVars
<1>2. /\ call[c] \in Task /\ call[c].item \in Items /\ call[c].number # Nobody /\ Asking(c)
      /\ call[c].item \in CredDefs => keys[call[c].item] = call[c].number
  BY CallOfType DEF LedgerInv, TaskPart, CallsFit, Busy, Asking, Submit
<1>3. CASE /\ written' = [written EXCEPT ![call[c].item] = call[c].number]
           /\ Set(c, [call[c] EXCEPT !.pc = "accepted"])
  <2>1. [call[c] EXCEPT !.pc = "accepted"] \in Task
    BY <1>2 DEF Task
  <2>2. /\ call' \in [Calls -> Task]
        /\ call'[c] = [call[c] EXCEPT !.pc = "accepted"]
        /\ \A b \in Calls : b # c => call'[b] = call[b]
    BY <1>3, <2>1, CallType DEF LedgerInv, TaskPart
  <2>3. /\ written' \in [Items -> 0..MaxCalls]
        /\ written'[call[c].item] = call[c].number
        /\ \A x \in Items : x # call[c].item => written'[x] = written[x]
    BY <1>2, <1>3 DEF LedgerInv, TaskPart, TypeOK, Task
  <2>4. TypeOK'
    BY <1>1, <2>2, <2>3 DEF LedgerInv, TaskPart, TypeOK, Task, FaultsGrow
  <2>5. CallsFit'
    BY <1>1, <1>2, <2>2 DEF LedgerInv, TaskPart, CallsFit, Busy, Asking, Task
  <2>6. KeysMatch'
    BY <1>1, <1>2, <2>3 DEF LedgerInv, TaskPart, KeysMatch, Items
  <2>7. \A x \in Items : written[x] # Nobody => written'[x] # Nobody
    BY <1>2, <2>3
  <2>8. AcceptedIsWritten'
    <3> SUFFICES ASSUME NEW b \in Calls, call'[b].pc = "accepted"
                 PROVE  written'[call'[b].item] # Nobody
      BY DEF AcceptedIsWritten
    <3>1. CASE b = c
      BY <1>2, <2>2, <2>3, <3>1 DEF Task
    <3>2. CASE b # c
      BY <2>2, <2>7, <3>2 DEF LedgerInv, TaskPart, CallsFit, Busy, WritePart, AcceptedIsWritten
    <3> QED BY <3>1, <3>2
  <2>9. ReturnedIsWritten'
    BY <1>1, <2>7 DEF LedgerInv, TaskPart, TypeOK, WritePart, ReturnedIsWritten
  <2> QED BY <2>4, <2>5, <2>6, <2>8, <2>9 DEF TaskPart, WritePart
<1>4. CASE Set(c, [call[c] EXCEPT !.pc = "rejected"]) /\ UNCHANGED written
  <2> DEFINE task == [call[c] EXCEPT !.pc = "rejected"]
  <2>1. /\ task \in Task
        /\ task.item = call[c].item /\ task.number = call[c].number /\ task.pc = "rejected"
    BY <1>2 DEF Task
  <2> HIDE DEF task
  <2>2. Set(c, task)
    BY <1>4 DEF task
  <2>3. /\ cache' \in Agreement /\ returned' \subseteq Items
        /\ \A x \in returned' : written[x] # Nobody
    BY <1>1 DEF LedgerInv, TaskPart, TypeOK, WritePart, ReturnedIsWritten
  <2> QED BY <1>1, <1>2, <1>4, <2>1, <2>2, <2>3, Advances
<1> QED BY <1>3, <1>4 DEF Submit

-----------------------------------------------------------------------------
(* Every step                                                                *)

LEMMA CallsKeep ==
  ASSUME LedgerInv, FaultsGrow, NEW c \in Calls,
         \/ \E x \in Items : Register(c, x)
         \/ Proceed(c) \/ ReadFails(c) \/ Lose(c)
  PROVE  TaskPart' /\ WritePart'
BY RegisterKeeps, CreateKeeps, AgreeKeeps, MechanismsKeep, SubmitKeeps, ReturnKeeps, EndsKeep
   DEF Proceed

LEMMA StartingKeeps ==
  ASSUME LedgerInv, FaultsGrow, Starting
  PROVE  TaskPart' /\ WritePart' /\ StartPart'
<1>1. UNCHANGED <<keys, cache, call, calls, written, agreement, returned>>
  BY DEF Starting, ledgerVars
<1>2. disk' \subseteq Things /\ memory' \subseteq Fields /\ agent' \in Steps
  BY DEF LedgerInv, TaskPart, TypeOK, Starting, Boot, InitStep, InitFails, CreateWallet, OpenWallet,
     CreateMasterSecret, InitPublicDid, CreatePool, OpenPool, Makes, Sets, Goes, Throws,
     Things, Fields, Steps
<1>3. StartPart'
  BY DEF LedgerInv, TaskPart, TypeOK, StartPart, Reached, StartedIsComplete, Starting, Boot,
     InitStep, InitFails, CreateWallet, OpenWallet, CreateMasterSecret, InitPublicDid,
     CreatePool, OpenPool, Makes, Sets, Goes, Throws, Things, Fields
<1>4. TypeOK'
  BY <1>1, <1>2 DEF LedgerInv, TaskPart, TypeOK, FaultsGrow
<1>5. CallsFit' /\ KeysMatch' /\ WritePart'
  BY <1>1 DEF LedgerInv, TaskPart, CallsFit, Busy, Asking, KeysMatch, WritePart,
     AcceptedIsWritten, ReturnedIsWritten
<1> QED BY <1>3, <1>4, <1>5 DEF TaskPart

LEMMA RestartKeeps ==
  ASSUME LedgerInv, FaultsGrow, Restart
  PROVE  LedgerInv'
<1>1. /\ agent' = "off" /\ memory' = {} /\ cache' = Undefined
      /\ call' = [c \in Calls |-> Idle]
      /\ UNCHANGED <<disk, keys, calls, written, agreement, returned>>
  BY DEF Restart, ledgerVars
<1>2. call' \in [Calls -> Task] /\ cache' \in Agreement
  BY <1>1, IdleType, LedgerAssumption DEF Agreement, Undefined
<1>3. TypeOK'
  BY <1>1, <1>2 DEF LedgerInv, TaskPart, TypeOK, Task, FaultsGrow, Steps
<1>4. CallsFit' /\ KeysMatch' /\ WritePart'
  BY <1>1 DEF LedgerInv, TaskPart, CallsFit, Busy, KeysMatch, Idle, WritePart,
     AcceptedIsWritten, ReturnedIsWritten
<1>5. AgreementFits'
  BY <1>1, LedgerAssumption DEF LedgerInv, TaskPart, TypeOK, ReadPart, AgreementFits, FaultsGrow
<1>6. ReadsFit' /\ KeptIsInForce' /\ StartPart'
  BY <1>1 DEF ReadsFit, KeptIsInForce, StartPart, Reached, StartedIsComplete, Idle
<1> QED BY <1>3, <1>4, <1>5, <1>6 DEF LedgerInv, TaskPart, ReadPart

LEMMA AmendKeeps ==
  ASSUME LedgerInv, FaultsGrow, Amend
  PROVE  LedgerInv'
<1>1. /\ UNCHANGED <<disk, agent, memory, keys, cache, call, calls, written, returned>>
      /\ mishaps' = mishaps + 1 /\ "amend" \in happened'
  BY DEF Amend, Strikes, agentVars
<1>2. /\ agreement.text \in 0 .. mishaps + 1 /\ agreement.mechanisms \in 0 .. mishaps + 1
      /\ mishaps \in 0..MaxFaults /\ agreement \in Agreement
      /\ agreement.text = 0 => agreement = NoAgreement
  BY DEF LedgerInv, ReadPart, AgreementFits, TaskPart, TypeOK
<1>3. /\ agreement'.text \in 0 .. mishaps' + 1 /\ agreement'.mechanisms \in 0 .. mishaps' + 1
      /\ agreement'.text # 0
      /\ agreement' \in [text : Int, mechanisms : Int]
  <2>1. CASE agreement' = [text |-> agreement.text + 1,
               mechanisms |-> IF agreement = NoAgreement THEN 1 ELSE agreement.mechanisms]
    BY <1>1, <1>2, <2>1, LedgerAssumption
  <2>2. CASE agreement # NoAgreement
             /\ agreement' = [agreement EXCEPT !.mechanisms = agreement.mechanisms + 1]
    BY <1>1, <1>2, <2>2, LedgerAssumption DEF Agreement
  <2> QED BY <2>1, <2>2 DEF Amend
<1>4. AgreementFits'
  BY <1>3 DEF AgreementFits
<1>5. agreement' \in Agreement
  BY <1>3, LedgerAssumption DEF Agreement, FaultsGrow
<1>6. TypeOK'
  BY <1>1, <1>5 DEF LedgerInv, TaskPart, TypeOK, FaultsGrow
<1>7. CallsFit' /\ KeysMatch' /\ WritePart' /\ StartPart'
  BY <1>1 DEF LedgerInv, TaskPart, CallsFit, Busy, Asking, KeysMatch, WritePart, AcceptedIsWritten,
     ReturnedIsWritten, StartPart, Reached, StartedIsComplete
<1>8. ReadsFit' /\ KeptIsInForce'
  BY <1>1 DEF ReadsFit, KeptIsInForce, Spared
<1> QED BY <1>4, <1>6, <1>7, <1>8 DEF LedgerInv, TaskPart, ReadPart

\* What the agreement and init have to do with the steps of a call.
LEMMA CallsRead ==
  ASSUME LedgerInv, FaultsGrow, TypeOK', NEW c \in Calls,
         \/ \E x \in Items : Register(c, x)
         \/ Proceed(c) \/ ReadFails(c) \/ Lose(c)
  PROVE  ReadPart' /\ StartPart'
<1>1. UNCHANGED <<agreement, disk, agent, memory>>
  BY DEF Register, Proceed, CreateCredentialDefinition, Agree, AgreeMechanisms, Submit, Return,
     ReadFails, Lose, agentVars, ledgerVars
<1>2. StartPart'
  BY <1>1 DEF LedgerInv, StartPart, Reached, StartedIsComplete
<1>3. AgreementFits'
  BY <1>1, LedgerAssumption DEF LedgerInv, TaskPart, TypeOK, ReadPart, AgreementFits, FaultsGrow
<1>4. Spared({"amend"})' => Spared({"amend"})
  BY DEF Spared, FaultsGrow
<1>5. \A b \in Calls : b # c => call'[b] = call[b]
  BY DEF LedgerInv, TaskPart, TypeOK, Register, Proceed, CreateCredentialDefinition, Agree,
     AgreeMechanisms, Submit, Return, ReadFails, Lose, Set, End
<1>6. call'[c].pc = "mechanisms" => call'[c].taa.text = agreement.text
  <2>1. CASE Agree(c)
    <3>1. call[c] \in Task
      BY CallOfType DEF LedgerInv, TaskPart
    <3>2. CASE call' = [call EXCEPT ![c] =
                 [call[c] EXCEPT !.pc = "mechanisms", !.taa.text = agreement.text]]
      <4>1. call'[c] = [call[c] EXCEPT !.pc = "mechanisms", !.taa.text = agreement.text]
        BY <3>2 DEF LedgerInv, TaskPart, TypeOK
      <4> QED BY <3>1, <4>1 DEF Task, Agreement
    <3>3. CASE call' = [call EXCEPT ![c] = [call[c] EXCEPT !.pc = "submit", !.taa = cache]]
      BY <3>1, <3>3 DEF LedgerInv, TaskPart, TypeOK, Task
    <3>4. CASE call' = [call EXCEPT ![c] = Idle]
      BY <3>4 DEF LedgerInv, TaskPart, TypeOK, Idle
    <3> QED BY <2>1, <3>2, <3>3, <3>4 DEF Agree, Set, End
  <2>2. CASE ~Agree(c)
    <3>1. /\ call \in [Calls -> Task] /\ call[c] \in Task
      BY CallOfType DEF LedgerInv, TaskPart, TypeOK, Task
    <3>2. CASE \E x \in Items : Register(c, x)
      BY <3>1, <3>2 DEF Register, Set
    <3>3. CASE CreateCredentialDefinition(c)
      BY <3>1, <3>3 DEF CreateCredentialDefinition, Set, End, Idle, Task
    <3>4. CASE AgreeMechanisms(c)
      BY <3>1, <3>4 DEF AgreeMechanisms, Set, Task
    <3>5. CASE Submit(c)
      BY <3>1, <3>5 DEF Submit, Set, Task
    <3>6. CASE Return(c) \/ ReadFails(c) \/ Lose(c)
      BY <3>1, <3>6 DEF Return, ReadFails, Lose, Set, End, Idle
    <3> QED BY <2>2, <3>2, <3>3, <3>4, <3>5, <3>6 DEF Proceed
  <2> QED BY <2>1, <2>2
<1>7. ReadsFit'
  BY <1>1, <1>4, <1>5, <1>6 DEF LedgerInv, ReadPart, ReadsFit
<1>8. KeptIsInForce'
  <2>1. CASE AgreeMechanisms(c)
    <3>1. /\ call[c].pc = "mechanisms"
          /\ cache' = IF call[c].taa.text = 0 THEN NoAgreement
                      ELSE [call[c].taa EXCEPT !.mechanisms = agreement.mechanisms]
      BY <2>1 DEF AgreeMechanisms
    <3>2. Spared({"amend"}) => call[c].taa.text = agreement.text
      BY <3>1 DEF LedgerInv, ReadPart, ReadsFit
    <3> QED BY <1>1, <1>4, <3>1, <3>2, Together DEF KeptIsInForce
  <2>2. CASE UNCHANGED cache
    BY <1>1, <1>4, <2>2 DEF LedgerInv, ReadPart, KeptIsInForce
  <2> QED BY <2>1, <2>2 DEF Register, Proceed, CreateCredentialDefinition, Agree, Submit,
          Return, ReadFails, Lose
<1> QED BY <1>2, <1>3, <1>7, <1>8 DEF ReadPart

LEMMA StartingReads ==
  ASSUME LedgerInv, FaultsGrow, UNCHANGED <<cache, call, agreement>>
  PROVE  ReadPart'
<1>1. Spared({"amend"})' => Spared({"amend"})
  BY DEF Spared, FaultsGrow
<1>2. AgreementFits'
  BY LedgerAssumption DEF LedgerInv, TaskPart, TypeOK, ReadPart, AgreementFits, FaultsGrow
<1> QED BY <1>1, <1>2 DEF LedgerInv, ReadPart, ReadsFit, KeptIsInForce

LEMMA StepKeeps ==
  ASSUME LedgerInv, [Next]_vars
  PROVE  LedgerInv'
<1>1. FaultsGrow
  BY StepCounted
<1>2. CASE Starting
  BY <1>1, <1>2, StartingKeeps, StartingReads DEF LedgerInv, Starting, ledgerVars
<1>3. CASE \E c \in Calls : \/ \E x \in Items : Register(c, x)
                            \/ Proceed(c) \/ ReadFails(c) \/ Lose(c)
  BY <1>1, <1>3, CallsKeep, CallsRead DEF LedgerInv, TaskPart
<1>4. CASE Restart
  BY <1>1, <1>4, RestartKeeps
<1>5. CASE Amend
  BY <1>1, <1>5, AmendKeeps
<1>6. CASE UNCHANGED vars
  BY <1>6 DEF vars, LedgerInv, TaskPart, TypeOK, CallsFit, Busy, Asking, KeysMatch, WritePart,
     AcceptedIsWritten, ReturnedIsWritten, ReadPart, AgreementFits, ReadsFit, Spared, KeptIsInForce,
     StartPart, Reached, StartedIsComplete
<1> QED BY <1>2, <1>3, <1>4, <1>5, <1>6 DEF Next

THEOREM LedgerInvariant == Spec => []LedgerInv
<1>1. Init => LedgerInv
  BY InitEstablishes
<1>2. LedgerInv /\ [Next]_vars => LedgerInv'
  BY StepKeeps
<1> QED BY <1>1, <1>2, PTL DEF Spec

\* The definition on the ledger is the one whose keys the wallet has, for any number of
\* overlapping calls, retries, crashes and lost answers.
THEOREM LedgerKeysMatch == Spec => []KeysMatch
BY LedgerInvariant, PTL DEF LedgerInv, TaskPart

\* Until the ledger's agreement changes, what the agent has kept is the agreement in
\* force, however many calls read it at once.
THEOREM LedgerKeptIsInForce == Spec => []KeptIsInForce
BY LedgerInvariant, PTL DEF LedgerInv, ReadPart

\* A registration that returned is on the ledger.
THEOREM LedgerReturnedIsWritten == Spec => []ReturnedIsWritten
BY LedgerInvariant, PTL DEF LedgerInv, WritePart

\* An agent that has started has all it needs, however often its start was cut short.
THEOREM LedgerStartedIsComplete == Spec => []StartedIsComplete
BY LedgerInvariant, PTL DEF LedgerInv, StartPart

\* Type correctness of the agent's start and its writes.
THEOREM LedgerTypeOK == Spec => []TypeOK
BY LedgerInvariant, PTL DEF LedgerInv, TaskPart
=============================================================================
