---------------------------- MODULE RecordStore ----------------------------
(***************************************************************************)
(* storage/Repository and IndyStorageService over the records of an indy   *)
(* wallet: callers hold record objects they made or read, change them, and *)
(* hand them to save, update and delete, while others do the same.         *)
(*                                                                         *)
(* A version stands for what a caller made of a record: the value a change *)
(* gave it, and the tags it set.  save is not awaited; update is two       *)
(* writes, and tags are only ever added.                                   *)
(***************************************************************************)
EXTENDS Integers, FiniteSets

CONSTANTS
  Ids,          \* the record ids, uuids
  Callers,      \* tasks of the agent that use the repository
  TagNames,
  Gone,         \* no record of this id is stored
  Batch,        \* how many records one fetch of a search returns: 10
  MaxVersion,   \* bound: versions made
  MaxFaults,    \* bound: how often something goes wrong
  Faults        \* what may go wrong, of FaultKinds

\* refuse: a call of the wallet fails.  overlap: a caller reads a record that
\* another caller holds.
FaultKinds == {"refuse", "crash", "overlap"}

ASSUME StoreAssumption ==
  /\ Batch \in Nat \ {0}
  /\ MaxVersion \in Nat
  /\ MaxFaults \in Nat
  /\ Faults \subseteq FaultKinds

Unset == 0
Versions == 0..MaxVersion
Content == [value: Versions, tags: [TagNames -> Versions]]

ASSUME GoneAssumption == Gone \notin Content /\ Gone \notin Ids

VARIABLES
  wallet,    \* for each id, the content stored
  adding,    \* the saves that are under way, with what they will store
  caller,    \* what each caller is doing
  used,      \* the ids given out so far
  version,   \* the last version made
  valued,    \* history: for each id, the values that have been stored
  mishaps,   \* how often something has gone wrong
  happened   \* the kinds of fault that have occurred so far

vars == <<wallet, adding, caller, used, version, valued, mishaps, happened>>

\* id and object are the record a caller holds, and state says how the object compares
\* with what it last wrote or read; left, found and opened belong to a search: the ids
\* still to be fetched, those returned, and all that matched.
Idle == [pc |-> "idle", id |-> Gone, object |-> Gone, state |-> "same",
         left |-> {}, found |-> {}, opened |-> {}]

Init ==
  /\ wallet = [id \in Ids |-> Gone]
  /\ adding = {}
  /\ caller = [c \in Callers |-> Idle]
  /\ used = {}
  /\ version = 0
  /\ valued = [id \in Ids |-> {}]
  /\ mishaps = 0
  /\ happened = {}

Strikes(kind) ==
  /\ kind \in Faults
  /\ mishaps < MaxFaults
  /\ mishaps' = mishaps + 1
  /\ happened' = happened \cup {kind}

Quiet == UNCHANGED <<mishaps, happened>>

Spared(kinds) == happened \cap kinds = {}

Held(id) == \E c \in Callers : caller[c].id = id
NewVersion == version < MaxVersion /\ version' = version + 1

End(c) == caller' = [caller EXCEPT ![c] = Idle]
Hold(c, id, object, state) ==
  caller' = [caller EXCEPT ![c] =
    [Idle EXCEPT !.pc = "holds", !.id = id, !.object = object, !.state = state]]
Holds(c, state) == caller[c].pc = "holds" /\ caller[c].state = state

-----------------------------------------------------------------------------
(* Objects of a caller                                                       *)

\* The constructor of a record, with a fresh id.
Make(c, id, names) ==
  /\ caller[c].pc = "idle"
  /\ id \notin used
  /\ used' = used \cup {id}
  /\ NewVersion
  /\ Hold(c, id, [value |-> version',
                  tags |-> [n \in TagNames |-> IF n \in names THEN version' ELSE Unset]], "made")
  /\ UNCHANGED <<wallet, adding, valued>> /\ Quiet

\* What a service does to the record between reading it and storing it.
Change(c, names) ==
  /\ Holds(c, "same")
  /\ NewVersion
  /\ Hold(c, caller[c].id,
          [value |-> version',
           tags |-> [n \in TagNames |-> IF n \in names THEN version' ELSE caller[c].object.tags[n]]],
          "changed")
  /\ UNCHANGED <<wallet, adding, used, valued>> /\ Quiet

Drop(c) ==
  /\ caller[c].pc = "holds"
  /\ End(c)
  /\ UNCHANGED <<wallet, adding, used, version, valued>> /\ Quiet

-----------------------------------------------------------------------------
(* Writes                                                                    *)

\* Repository.save returns before the wallet has the record.
Save(c) ==
  /\ Holds(c, "made")
  /\ adding' = adding \cup {[id |-> caller[c].id, object |-> caller[c].object]}
  /\ Hold(c, caller[c].id, caller[c].object, "same")
  /\ UNCHANGED <<wallet, used, version, valued>> /\ Quiet

\* addWalletRecord; nobody hears of it when it fails.
AddWalletRecord(a) ==
  /\ adding' = adding \ {a}
  /\ \/ /\ wallet' = [wallet EXCEPT ![a.id] = a.object]
        /\ valued' = [valued EXCEPT ![a.id] = @ \cup {a.object.value}]
        /\ Quiet
     \/ Strikes("refuse") /\ UNCHANGED <<wallet, valued>>
  /\ UNCHANGED <<caller, used, version>>

\* Mutant: the tags are written first.
UpdateWalletRecordValue_Last(c) ==
  /\ Holds(c, "changed")
  /\ wallet[caller[c].id] # Gone
  /\ wallet' = [wallet EXCEPT ![caller[c].id].tags = caller[c].object.tags]
  /\ caller' = [caller EXCEPT ![c].pc = "tags"]
  /\ UNCHANGED <<adding, used, version, valued>> /\ Quiet

\* Mutant: a record that is not there is added.
UpdateWalletRecordValue_Adds(c) ==
  LET id == caller[c].id IN
  /\ Holds(c, "changed")
  /\ wallet' = [wallet EXCEPT ![id] = caller[c].object]
  /\ valued' = [valued EXCEPT ![id] = @ \cup {caller[c].object.value}]
  /\ caller' = [caller EXCEPT ![c].pc = "tags"]
  /\ UNCHANGED <<adding, used, version>> /\ Quiet

\* The first write of update.  It fails on a record that is not there: one that was
\* deleted, or whose save is still under way.
UpdateWalletRecordValue(c) ==
  LET id == caller[c].id IN
  /\ Holds(c, "changed")
  /\ \/ /\ wallet[id] # Gone
        /\ wallet' = [wallet EXCEPT ![id].value = caller[c].object.value]
        /\ valued' = [valued EXCEPT ![id] = @ \cup {caller[c].object.value}]
        /\ caller' = [caller EXCEPT ![c].pc = "tags"]
        /\ Quiet
     \/ /\ \/ wallet[id] = Gone /\ Quiet
           \/ Strikes("refuse")
        /\ End(c)
        /\ UNCHANGED <<wallet, valued>>
  /\ UNCHANGED <<adding, used, version>>

\* addWalletRecordTags leaves the tags that are not set as they are.
Tagged(content, object) ==
  [content EXCEPT !.tags =
     [n \in TagNames |-> IF object.tags[n] = Unset THEN @[n] ELSE object.tags[n]]]

\* Mutant: only the value is written.
UpdateWalletRecordTags_Left(c) ==
  /\ caller[c].pc = "tags"
  /\ Hold(c, caller[c].id, caller[c].object, "same")
  /\ UNCHANGED <<wallet, adding, used, version, valued>> /\ Quiet

UpdateWalletRecordTags(c) ==
  LET id == caller[c].id IN
  /\ caller[c].pc = "tags"
  /\ \/ /\ wallet[id] # Gone
        /\ wallet' = [wallet EXCEPT ![id] = Tagged(@, caller[c].object)]
        /\ Hold(c, id, caller[c].object, "same")
        /\ Quiet
     \/ /\ \/ wallet[id] = Gone /\ Quiet
           \/ Strikes("refuse")
        /\ End(c)
        /\ UNCHANGED wallet
  /\ UNCHANGED <<adding, used, version, valued>>

DeleteWalletRecord(c) ==
  LET id == caller[c].id IN
  /\ caller[c].pc = "holds"
  /\ caller[c].state # "made"
  /\ \/ wallet' = [wallet EXCEPT ![id] = Gone] /\ Quiet
     \/ Strikes("refuse") /\ UNCHANGED wallet
  /\ End(c)
  /\ UNCHANGED <<adding, used, version, valued>>

-----------------------------------------------------------------------------
(* Reads                                                                     *)

\* Mutant: a record that is not there is no error.
Find_Missing(c, id) ==
  /\ caller[c].pc = "idle"
  /\ id \in used
  /\ Hold(c, id, wallet[id], "same")
  /\ UNCHANGED <<wallet, adding, used, version, valued>> /\ Quiet

\* find: value and tags are read together; a record that is not there is an error.
Find(c, id) ==
  /\ caller[c].pc = "idle"
  /\ wallet[id] # Gone
  /\ Hold(c, id, wallet[id], "same")
  /\ IF Held(id) THEN Strikes("overlap") ELSE Quiet
  /\ UNCHANGED <<wallet, adding, used, version, valued>>

\* findAll asks for every record, findByQuery for those with some tag.
Matching(query) ==
  {id \in Ids : wallet[id] # Gone /\ \A n \in query : wallet[id].tags[n] # Unset}

OpenSearch(c, query) ==
  /\ caller[c].pc = "idle"
  /\ caller' = [caller EXCEPT ![c] =
       [Idle EXCEPT !.pc = "search", !.left = Matching(query), !.opened = Matching(query)]]
  /\ UNCHANGED <<wallet, adding, used, version, valued>> /\ Quiet

\* Mutant: the first batch is all there is.
FetchNext_Once(c) ==
  /\ caller[c].pc = "search"
  /\ \E batch \in SUBSET caller[c].left :
       /\ Cardinality(batch) = Batch \/ (batch = caller[c].left /\ Cardinality(batch) < Batch)
       /\ caller' = [caller EXCEPT ![c].pc = "answered", ![c].left = {},
                                   ![c].found = @ \cup {id \in batch : wallet[id] # Gone}]
  /\ UNCHANGED <<wallet, adding, used, version, valued>> /\ Quiet

\* The generator fetches until it catches an error: the one it runs into when no
\* records are left, or any other.
FetchNext(c) ==
  /\ caller[c].pc = "search"
  /\ \/ \E batch \in SUBSET caller[c].left :
          /\ batch # {}
          /\ Cardinality(batch) = Batch \/ (batch = caller[c].left /\ Cardinality(batch) < Batch)
          /\ caller' = [caller EXCEPT ![c].left = @ \ batch,
                                      ![c].found = @ \cup {id \in batch : wallet[id] # Gone}]
          /\ Quiet
     \/ /\ caller' = [caller EXCEPT ![c].pc = "answered", ![c].left = {}]
        /\ IF caller[c].left = {} THEN Quiet ELSE Strikes("refuse")
  /\ UNCHANGED <<wallet, adding, used, version, valued>>

\* The caller looks at the records found.
Answer(c) ==
  /\ caller[c].pc = "answered"
  /\ End(c)
  /\ UNCHANGED <<wallet, adding, used, version, valued>> /\ Quiet

-----------------------------------------------------------------------------
Crash ==
  /\ Strikes("crash")
  /\ adding # {} \/ \E c \in Callers : caller[c].pc # "idle"
  /\ adding' = {}
  /\ caller' = [c \in Callers |-> Idle]
  /\ UNCHANGED <<wallet, used, version, valued>>

Settle(c) == UpdateWalletRecordTags(c) \/ FetchNext(c)

Next ==
  \/ \E c \in Callers :
       \/ \E id \in Ids : Find(c, id) \/ \E names \in SUBSET TagNames : Make(c, id, names)
       \/ \E names \in SUBSET TagNames : Change(c, names) \/ OpenSearch(c, names)
       \/ Save(c) \/ UpdateWalletRecordValue(c) \/ DeleteWalletRecord(c)
       \/ Settle(c) \/ Drop(c) \/ Answer(c)
  \/ \E a \in adding : AddWalletRecord(a)
  \/ Crash

Spec == Init /\ [][Next]_vars

-----------------------------------------------------------------------------
(* Properties                                                                *)

TypeOK ==
  /\ wallet \in [Ids -> Content \cup {Gone}]
  /\ adding \subseteq [id: Ids, object: Content]
  /\ caller \in [Callers ->
       [pc: {"idle", "holds", "tags", "search", "answered"}, id: Ids \cup {Gone},
        object: Content \cup {Gone}, state: {"made", "same", "changed"},
        left: SUBSET Ids, found: SUBSET Ids, opened: SUBSET Ids]]
  /\ \A c \in Callers : caller[c].pc \in {"holds", "tags"} <=> caller[c].object # Gone
  /\ used \subseteq Ids
  /\ version \in Versions
  /\ valued \in [Ids -> SUBSET Versions]
  /\ mishaps \in 0..MaxFaults
  /\ happened \subseteq FaultKinds

\* A record is never found by a tag that its value never said: whatever overlaps,
\* fails or is cut short, a tag in the wallet is of a version whose value was stored.
TagsFromValues ==
  \A id \in Ids : wallet[id] # Gone =>
    \A n \in TagNames : wallet[id].tags[n] \in valued[id] \cup {Unset}

\* However late a save lands, it is the first write of its record: its caller goes on
\* with the record without waiting, and others may read and change it, but no save
\* undoes an update or brings back what was deleted.
SavesComeFirst ==
  \A a \in adding : valued[a.id] = {} /\ wallet[a.id] = Gone

\* A search returns every record that matched when it began and is still there,
\* however many fetches that takes and whatever is written in between: unless a call
\* of the wallet failed, which the caller does not hear of.
SearchFindsAll ==
  Spared({"refuse"}) =>
    \A c \in Callers : caller[c].pc = "answered" =>
      \A id \in caller[c].opened : wallet[id] # Gone => id \in caller[c].found

\* The storage is a map whose updates are single steps and build on what is stored
\* (RecordMap).  Holds until two callers hold one record, the process restarts or the
\* wallet fails a call: an update counts from its first write on.
Pending(id) == {c \in Callers : caller[c].pc = "tags" /\ caller[c].id = id}

Contents ==
  [id \in Ids |->
     IF wallet[id] = Gone \/ Pending(id) = {} THEN wallet[id]
     ELSE Tagged(wallet[id], caller[CHOOSE c \in Pending(id) : TRUE].object)]

Map == INSTANCE RecordMap WITH content <- Contents

UpdatesInOneStep ==
  Map!Init /\ [][Spared(FaultKinds)' => Map!Next]_Contents
=============================================================================
