------------------------ MODULE RecordStore_proofs ------------------------
(***************************************************************************)
(* Proofs about RecordStore, for any number of ids, callers, tags,         *)
(* versions and faults, and batches of any size.                           *)
(***************************************************************************)
EXTENDS RecordStore, TLAPS

Made(c, id) == Holds(c, "made") /\ caller[c].id = id

\* No record of this id is stored, and none will ever be.
Lost(id) ==
  /\ wallet[id] = Gone
  /\ \A a \in adding : a.id # id
  /\ \A c \in Callers : ~Made(c, id)

\* The values the wallet has had for this id, or will have unless the save fails.
Known(id, v) ==
  v = Unset \/ v \in valued[id] \/ \E a \in adding : a.id = id /\ a.object.value = v

OwnTags(object) == \A n \in TagNames : object.tags[n] \in {Unset, object.value}

\* An id is given to one record, which is stored once.
StoredFit ==
  \A id \in Ids : wallet[id] # Gone =>
    /\ id \in used
    /\ wallet[id].value \in valued[id]
    /\ \A a \in adding : a.id # id

AddingFit ==
  \A a \in adding :
    /\ a.id \in used
    /\ OwnTags(a.object)
    /\ \A b \in adding : b.id = a.id => b = a

MadeFit ==
  \A c \in Callers, id \in Ids : Made(c, id) =>
    /\ wallet[id] = Gone
    /\ \A a \in adding : a.id # id
    /\ \A d \in Callers : Made(d, id) => d = c
    /\ OwnTags(caller[c].object)

\* The tags of an object are values that were stored for its record, or its own.
ObjectFits(c) ==
  caller[c].object # Gone =>
    /\ caller[c].id \in used
    /\ \/ Holds(c, "made")
       \/ Lost(caller[c].id)
       \/ /\ Holds(c, "changed") \/ Known(caller[c].id, caller[c].object.value)
          /\ \A n \in TagNames :
               \/ caller[c].object.tags[n] = caller[c].object.value
               \/ Known(caller[c].id, caller[c].object.tags[n])

\* What matched when a search began is still to be fetched, was found, or is gone for good.
SearchFits(c) ==
  caller[c].pc \in {"search", "answered"} =>
    /\ caller[c].pc = "answered" => caller[c].left = {}
    /\ \A id \in caller[c].opened :
         /\ id \in used
         /\ wallet[id] # Gone \/ Lost(id)
         /\ Spared({"refuse"}) => id \in caller[c].left \cup caller[c].found \/ Lost(id)

CallersFit == \A c \in Callers : ObjectFits(c) /\ SearchFits(c)

StoreInv ==
  /\ TypeOK
  /\ TagsFromValues
  /\ StoredFit
  /\ AddingFit
  /\ MadeFit
  /\ CallersFit

Working ==
  [pc: {"idle", "holds", "tags", "search", "answered"}, id: Ids \cup {Gone},
   object: Content \cup {Gone}, state: {"made", "same", "changed"},
   left: SUBSET Ids, found: SUBSET Ids, opened: SUBSET Ids]

Fitting(t) == t \in Working /\ (t.pc \in {"holds", "tags"} <=> t.object # Gone)

-----------------------------------------------------------------------------
(* Types                                                                     *)

LEMMA IdleFits == Fitting(Idle) /\ Idle.pc = "idle" /\ Idle.object = Gone /\ Idle.state = "same"
BY DEF Fitting, Working, Idle

LEMMA HeldFits ==
  ASSUME NEW id \in Ids, NEW object \in Content, NEW state \in {"made", "same", "changed"}
  PROVE  Fitting([Idle EXCEPT !.pc = "holds", !.id = id, !.object = object, !.state = state])
BY GoneAssumption DEF Fitting, Working, Idle

LEMMA CallerFits == TypeOK => \A c \in Callers : Fitting(caller[c])
BY DEF TypeOK, Fitting, Working

\* What one caller does leaves the others as they are.
LEMMA OneCaller ==
  ASSUME TypeOK, NEW c \in Callers, NEW t, Fitting(t), caller' = [caller EXCEPT ![c] = t]
  PROVE  /\ caller'[c] = t
         /\ \A d \in Callers : d # c => caller'[d] = caller[d]
         /\ caller' \in [Callers -> Working]
         /\ \A d \in Callers : Fitting(caller'[d])
<1>1. caller \in [Callers -> Working]
  BY DEF TypeOK, Working
<1>2. caller'[c] = t /\ \A d \in Callers : d # c => caller'[d] = caller[d]
  BY <1>1
<1>3. t \in Working
  BY DEF Fitting
<1>4. caller' \in [Callers -> Working]
  BY <1>1, <1>3
<1> QED BY <1>2, <1>4, CallerFits

LEMMA FaultsCount ==
  ASSUME TypeOK, Quiet \/ \E kind \in FaultKinds : Strikes(kind)
  PROVE  mishaps' \in 0..MaxFaults /\ happened' \subseteq FaultKinds /\ happened \subseteq happened'
BY StoreAssumption DEF TypeOK, Quiet, Strikes


-----------------------------------------------------------------------------
(* Objects of a caller                                                       *)

\* What a step has to leave alone for the callers that do not take it.
Lasting ==
  /\ \A id \in used :
       /\ Lost(id) => Lost(id)'
       /\ \A v : Known(id, v) => Known(id, v)' \/ Lost(id)'
       /\ wallet[id] # Gone => wallet'[id] # Gone \/ Lost(id)'
  /\ used \subseteq used'
  /\ happened \subseteq happened'

LEMMA OthersKeep ==
  ASSUME StoreInv, Lasting, NEW d \in Callers, caller'[d] = caller[d]
  PROVE  ObjectFits(d)' /\ SearchFits(d)'
<1>1. \A state : Holds(d, state)' <=> Holds(d, state)
  BY DEF Holds
<1>2. ObjectFits(d)'
  BY <1>1 DEF StoreInv, CallersFit, ObjectFits, Lasting
<1>3. SearchFits(d)'
  BY DEF StoreInv, CallersFit, SearchFits, Lasting, Spared
<1> QED BY <1>2, <1>3

LEMMA MakeKeeps ==
  ASSUME StoreInv, NEW c \in Callers, NEW id \in Ids, NEW names \in SUBSET TagNames,
         Make(c, id, names)
  PROVE  StoreInv'
<1> DEFINE object == [value |-> version',
                      tags |-> [n \in TagNames |-> IF n \in names THEN version' ELSE Unset]]
<1> DEFINE t == [Idle EXCEPT !.pc = "holds", !.id = id, !.object = object, !.state = "made"]
<1>1. version' \in Versions /\ object \in Content
  BY StoreAssumption DEF StoreInv, TypeOK, Make, NewVersion, Versions, Content, Unset
<1>2. Fitting(t)
  BY <1>1, HeldFits
<1>3. t.pc = "holds" /\ t.id = id /\ t.object = object /\ t.state = "made" /\ object # Gone
      /\ OwnTags(object)
  BY <1>1, GoneAssumption DEF Idle, OwnTags
<1>4. caller' = [caller EXCEPT ![c] = t]
  BY DEF Make, Hold
<1> HIDE DEF object, t
<1>5. /\ caller'[c] = t
      /\ \A d \in Callers : d # c => caller'[d] = caller[d]
      /\ caller' \in [Callers -> Working]
      /\ \A d \in Callers : Fitting(caller'[d])
  BY <1>2, <1>4, OneCaller DEF StoreInv
<1>6. UNCHANGED <<wallet, adding, valued, mishaps, happened>> /\ id \notin used
      /\ used' = used \cup {id}
  BY DEF Make, Quiet
<1>7. TypeOK'
  BY <1>1, <1>5, <1>6 DEF StoreInv, TypeOK, Fitting, Working
<1>8. TagsFromValues' /\ StoredFit' /\ AddingFit'
  BY <1>6 DEF StoreInv, TagsFromValues, StoredFit, AddingFit, OwnTags
<1>9. \A d \in Callers, i \in Ids : Made(d, i)' <=> Made(d, i) \/ (d = c /\ i = id)
  BY <1>3, <1>5 DEF Made, Holds, Make
<1>10. \A d \in Callers : caller[d].object # Gone => caller[d].id # id
  BY <1>6 DEF StoreInv, CallersFit, ObjectFits
<1>11. MadeFit'
  <2>2. wallet[id] = Gone /\ (\A a \in adding : a.id # id) /\ \A d \in Callers : ~Made(d, id)
    BY <1>6, <1>10 DEF StoreInv, StoredFit, AddingFit, Made, Holds, TypeOK
  <2>3. ASSUME NEW d \in Callers, NEW i \in Ids, Made(d, i)
        PROVE  caller'[d] = caller[d]
    BY <1>5, <2>3 DEF Made, Holds, Make
  <2> QED BY <1>3, <1>5, <1>6, <1>9, <2>2, <2>3 DEF StoreInv, MadeFit
<1>12. \A i \in used : Lost(i) => Lost(i)'
  BY <1>6, <1>9 DEF Lost, StoreInv, TypeOK
<1>13. Lasting
  BY <1>6, <1>12 DEF Lasting, Known, StoreInv, TypeOK
<1>14. ObjectFits(c)' /\ SearchFits(c)'
  BY <1>3, <1>5, <1>6 DEF ObjectFits, SearchFits, Holds
<1>15. CallersFit'
  BY <1>5, <1>13, <1>14, OthersKeep DEF CallersFit
<1> QED BY <1>7, <1>8, <1>11, <1>15 DEF StoreInv

\* A step of one caller that makes no record and leaves what is stored as it is.
LEMMA CallerStepKeeps ==
  ASSUME StoreInv, NEW c \in Callers, NEW t, Fitting(t), caller' = [caller EXCEPT ![c] = t],
         ~(t.pc = "holds" /\ t.state = "made"),
         UNCHANGED <<wallet, adding, used, valued>>, version' \in Versions,
         Quiet \/ \E kind \in FaultKinds : Strikes(kind),
         ObjectFits(c)', SearchFits(c)'
  PROVE  StoreInv'
<1>1. /\ caller'[c] = t
      /\ \A d \in Callers : d # c => caller'[d] = caller[d]
      /\ caller' \in [Callers -> Working]
      /\ \A d \in Callers : Fitting(caller'[d])
  BY OneCaller DEF StoreInv
<1>2. mishaps' \in 0..MaxFaults /\ happened' \subseteq FaultKinds /\ happened \subseteq happened'
  BY FaultsCount DEF StoreInv
<1>3. TypeOK'
  BY <1>1, <1>2 DEF StoreInv, TypeOK, Fitting, Working
<1>4. TagsFromValues' /\ StoredFit' /\ AddingFit'
  BY DEF StoreInv, TagsFromValues, StoredFit, AddingFit
<1>5. \A d \in Callers : \A i : Made(d, i)' => Made(d, i) /\ caller'[d] = caller[d]
  BY <1>1 DEF Made, Holds
<1>6. MadeFit'
  BY <1>5 DEF StoreInv, MadeFit
<1>7. Lasting
  BY <1>2, <1>5 DEF Lasting, Lost, Known, StoreInv, TypeOK
<1>8. CallersFit'
  BY <1>1, <1>7, OthersKeep DEF CallersFit
<1> QED BY <1>3, <1>4, <1>6, <1>8 DEF StoreInv

LEMMA EndKeeps ==
  ASSUME StoreInv, NEW c \in Callers, End(c), version' = version,
         UNCHANGED <<wallet, adding, used, valued>>,
         Quiet \/ \E kind \in FaultKinds : Strikes(kind)
  PROVE  StoreInv'
<1>1. caller'[c] = Idle /\ version' \in Versions
  BY IdleFits, OneCaller DEF End, StoreInv, TypeOK
<1>2. ObjectFits(c)' /\ SearchFits(c)'
  BY <1>1, IdleFits DEF ObjectFits, SearchFits
<1> QED BY <1>1, <1>2, IdleFits, CallerStepKeeps DEF End

LEMMA ChangeKeeps ==
  ASSUME StoreInv, NEW c \in Callers, NEW names \in SUBSET TagNames, Change(c, names)
  PROVE  StoreInv'
<1>1. PICK id \in Ids, old \in Content :
        id = caller[c].id /\ old = caller[c].object /\ old # Gone /\ Holds(c, "same")
  <2>1. caller[c].object \in Content /\ caller[c].object # Gone /\ Holds(c, "same")
    BY GoneAssumption DEF StoreInv, TypeOK, Change, Holds
  <2>2. caller[c].id \in Ids
    BY <2>1 DEF StoreInv, TypeOK, CallersFit, ObjectFits
  <2> QED BY <2>1, <2>2
<1> DEFINE object ==
      [value |-> version',
       tags |-> [n \in TagNames |-> IF n \in names THEN version' ELSE old.tags[n]]]
<1> DEFINE t == [Idle EXCEPT !.pc = "holds", !.id = id, !.object = object, !.state = "changed"]
<1>2. version' \in Versions /\ object \in Content
  BY <1>1, StoreAssumption DEF StoreInv, TypeOK, Change, NewVersion, Versions, Content
<1>3. Fitting(t)
  BY <1>1, <1>2, HeldFits
<1>4. t.pc = "holds" /\ t.id = id /\ t.object = object /\ t.state = "changed"
  BY DEF Idle
<1>5. object.value = version'
      /\ \A n \in TagNames : object.tags[n] = object.value \/ object.tags[n] = old.tags[n]
  OBVIOUS
<1>6. caller' = [caller EXCEPT ![c] = t]
  BY <1>1 DEF Change, Hold
<1> HIDE DEF object, t
<1>7. caller'[c] = t
  BY <1>3, <1>6, OneCaller DEF StoreInv
<1>8. UNCHANGED <<wallet, adding, used, valued>> /\ Quiet
  BY DEF Change
<1>9. \A d \in Callers : \A i : Made(d, i)' => Made(d, i)
  BY <1>3, <1>4, <1>6, OneCaller DEF Made, Holds, StoreInv
<1>10. /\ id \in used
       /\ \/ Lost(id)
          \/ Known(id, old.value) /\ \A n \in TagNames : Known(id, old.tags[n])
  <2>1. ObjectFits(c) /\ ~Holds(c, "made") /\ ~Holds(c, "changed")
    BY <1>1 DEF StoreInv, CallersFit, Holds
  <2> QED BY <1>1, <2>1 DEF ObjectFits
<1>11. (Lost(id) => Lost(id)') /\ \A v : Known(id, v)' <=> Known(id, v)
  BY <1>8, <1>9 DEF Lost, Known
<1>12. ObjectFits(c)' /\ SearchFits(c)'
  BY <1>4, <1>5, <1>7, <1>8, <1>10, <1>11 DEF ObjectFits, SearchFits, Holds
<1>13. ~(t.pc = "holds" /\ t.state = "made")
  BY <1>4
<1> QED BY <1>2, <1>3, <1>6, <1>8, <1>12, <1>13, CallerStepKeeps

LEMMA FindKeeps ==
  ASSUME StoreInv, NEW c \in Callers, NEW id \in Ids, Find(c, id)
  PROVE  StoreInv'
<1> DEFINE t == [Idle EXCEPT !.pc = "holds", !.id = id, !.object = wallet[id], !.state = "same"]
<1>1. wallet[id] \in Content /\ wallet[id] # Gone /\ id \in used
  BY DEF Find, StoreInv, TypeOK, StoredFit
<1>2. Fitting(t)
  BY <1>1, HeldFits
<1>3. t.pc = "holds" /\ t.id = id /\ t.object = wallet[id] /\ t.state = "same"
  BY DEF Idle
<1>4. caller' = [caller EXCEPT ![c] = t]
  BY DEF Find, Hold
<1> HIDE DEF t
<1>5. caller'[c] = t
  BY <1>2, <1>4, OneCaller DEF StoreInv
<1>6. UNCHANGED <<wallet, adding, used, version, valued>> /\ version' \in Versions
  BY DEF Find, StoreInv, TypeOK
<1>7. Quiet \/ \E kind \in FaultKinds : Strikes(kind)
  BY DEF Find, FaultKinds
<1>8. Known(id, wallet[id].value)' /\ \A n \in TagNames : Known(id, wallet[id].tags[n])'
  BY <1>1, <1>6 DEF StoreInv, StoredFit, TagsFromValues, Known
<1>9. ObjectFits(c)' /\ SearchFits(c)'
  BY <1>1, <1>3, <1>5, <1>6, <1>8 DEF ObjectFits, SearchFits
<1>10. ~(t.pc = "holds" /\ t.state = "made")
  BY <1>3
<1> QED BY <1>2, <1>4, <1>6, <1>7, <1>9, <1>10, CallerStepKeeps

-----------------------------------------------------------------------------
(* Searches                                                                  *)

LEMMA OpenSearchKeeps ==
  ASSUME StoreInv, NEW c \in Callers, NEW query \in SUBSET TagNames, OpenSearch(c, query)
  PROVE  StoreInv'
<1> DEFINE t == [Idle EXCEPT !.pc = "search", !.left = Matching(query), !.opened = Matching(query)]
<1>1. Matching(query) \subseteq Ids /\ \A id \in Matching(query) : wallet[id] # Gone
  BY DEF Matching
<1>2. Fitting(t) /\ t.pc = "search" /\ t.object = Gone /\ t.left = Matching(query)
      /\ t.opened = Matching(query)
  BY <1>1 DEF Fitting, Working, Idle
<1>3. caller' = [caller EXCEPT ![c] = t]
  BY DEF OpenSearch
<1> HIDE DEF t
<1>4. caller'[c] = t
  BY <1>2, <1>3, OneCaller DEF StoreInv
<1>5. UNCHANGED <<wallet, adding, used, version, valued>> /\ Quiet /\ version' \in Versions
  BY DEF OpenSearch, StoreInv, TypeOK
<1>6. \A id \in Matching(query) : id \in used
  BY <1>1 DEF StoreInv, StoredFit
<1>7. ObjectFits(c)' /\ SearchFits(c)'
  BY <1>1, <1>2, <1>4, <1>5, <1>6 DEF ObjectFits, SearchFits
<1> QED BY <1>2, <1>3, <1>5, <1>7, CallerStepKeeps

\* What a search is after a fetch.
Fetched(c, t) ==
  /\ caller' = [caller EXCEPT ![c] = t]
  /\ t.object = Gone /\ t.id = caller[c].id /\ t.opened = caller[c].opened
  /\ \/ /\ t.pc = "search"
        /\ \A id \in caller[c].left \cup caller[c].found :
             id \in t.left \cup t.found \/ wallet[id] = Gone
     \/ /\ t.pc = "answered" /\ t.left = {} /\ t.found = caller[c].found
        /\ caller[c].left = {} \/ Strikes("refuse")

LEMMA FetchIs ==
  ASSUME StoreInv, NEW c \in Callers, FetchNext(c)
  PROVE  \E t \in Working : Fetched(c, t)
<1>1. caller[c] \in Working /\ caller[c].pc = "search" /\ caller[c].object = Gone
      /\ caller \in [Callers -> Working]
  BY DEF FetchNext, StoreInv, TypeOK, Working
<1>2. ASSUME NEW batch \in SUBSET caller[c].left,
             caller' = [caller EXCEPT ![c].left = @ \ batch,
                                      ![c].found = @ \cup {id \in batch : wallet[id] # Gone}]
      PROVE  \E t \in Working : Fetched(c, t)
  <2> DEFINE t == [caller[c] EXCEPT !.left = caller[c].left \ batch,
                     !.found = caller[c].found \cup {id \in batch : wallet[id] # Gone}]
  <2>1. caller' = [caller EXCEPT ![c] = t]
    BY <1>1, <1>2
  <2>2. t \in Working
    BY <1>1 DEF Working
  <2>3. /\ t.object = Gone /\ t.id = caller[c].id /\ t.opened = caller[c].opened
        /\ t.pc = "search" /\ t.left = caller[c].left \ batch
        /\ t.found = caller[c].found \cup {id \in batch : wallet[id] # Gone}
    BY <1>1 DEF Working
  <2> HIDE DEF t
  <2>4. Fetched(c, t)
    BY <2>1, <2>3 DEF Fetched
  <2> QED BY <2>2, <2>4
<1>3. ASSUME caller' = [caller EXCEPT ![c].pc = "answered", ![c].left = {}],
             caller[c].left = {} \/ Strikes("refuse")
      PROVE  \E t \in Working : Fetched(c, t)
  <2> DEFINE t == [caller[c] EXCEPT !.pc = "answered", !.left = {}]
  <2>1. caller' = [caller EXCEPT ![c] = t]
    BY <1>1, <1>3
  <2>2. t \in Working
    BY <1>1 DEF Working
  <2>3. /\ t.object = Gone /\ t.id = caller[c].id /\ t.opened = caller[c].opened
        /\ t.pc = "answered" /\ t.left = {} /\ t.found = caller[c].found
    BY <1>1 DEF Working
  <2> HIDE DEF t
  <2>4. Fetched(c, t)
    BY <1>3, <2>1, <2>3 DEF Fetched
  <2> QED BY <2>2, <2>4
<1> QED BY <1>2, <1>3 DEF FetchNext

LEMMA FetchNextKeeps ==
  ASSUME StoreInv, NEW c \in Callers, FetchNext(c)
  PROVE  StoreInv'
<1>1. UNCHANGED <<wallet, adding, used, version, valued>> /\ version' \in Versions
  BY DEF FetchNext, StoreInv, TypeOK
<1>2. Quiet \/ \E kind \in FaultKinds : Strikes(kind)
  BY DEF FetchNext, FaultKinds
<1>3. caller[c].pc = "search"
  BY DEF FetchNext
<1>4. PICK t \in Working : Fetched(c, t)
  BY FetchIs
<1>5. Fitting(t)
  BY <1>4 DEF Fitting, Fetched
<1>6. caller'[c] = t
  BY <1>4, <1>5, OneCaller DEF StoreInv, Fetched
<1>7. \A d \in Callers : \A i : Made(d, i)' => Made(d, i)
  BY <1>4, <1>5, OneCaller DEF Made, Holds, StoreInv, Fetched
<1>8. \A i : Lost(i) => Lost(i)'
  BY <1>1, <1>7 DEF Lost
<1>9. Spared({"refuse"})' => Spared({"refuse"}) /\ ~Strikes("refuse")
  BY <1>2, FaultsCount DEF StoreInv, Spared, Strikes
<1>10. SearchFits(c)
  BY DEF StoreInv, CallersFit
<1>11. ObjectFits(c)' /\ SearchFits(c)'
  BY <1>1, <1>3, <1>4, <1>6, <1>8, <1>9, <1>10 DEF Fetched, ObjectFits, SearchFits
<1> QED BY <1>1, <1>2, <1>4, <1>5, <1>11, CallerStepKeeps DEF Fetched

-----------------------------------------------------------------------------
(* Writes                                                                    *)

LEMMA SaveKeeps ==
  ASSUME StoreInv, NEW c \in Callers, Save(c)
  PROVE  StoreInv'
<1>1. PICK id \in Ids, object \in Content :
        /\ id = caller[c].id /\ object = caller[c].object /\ object # Gone
        /\ Holds(c, "made") /\ Made(c, id)
  <2>1. caller[c].object \in Content /\ caller[c].object # Gone /\ Holds(c, "made")
    BY GoneAssumption DEF StoreInv, TypeOK, Save, Holds
  <2>2. caller[c].id \in Ids
    BY <2>1 DEF StoreInv, TypeOK, CallersFit, ObjectFits
  <2> QED BY <2>1, <2>2 DEF Made
<1> DEFINE new == [id |-> id, object |-> object]
<1> DEFINE t == [Idle EXCEPT !.pc = "holds", !.id = id, !.object = object, !.state = "same"]
<1>2. Fitting(t)
  BY HeldFits
<1>3. t.pc = "holds" /\ t.id = id /\ t.object = object /\ t.state = "same"
  BY DEF Idle
<1>4. new.id = id /\ new.object = object /\ new \in [id: Ids, object: Content]
  OBVIOUS
<1>5. caller' = [caller EXCEPT ![c] = t] /\ adding' = adding \cup {new}
  BY <1>1 DEF Save, Hold
<1> HIDE DEF new, t
<1>6. /\ caller'[c] = t
      /\ \A d \in Callers : d # c => caller'[d] = caller[d]
      /\ caller' \in [Callers -> Working]
      /\ \A d \in Callers : Fitting(caller'[d])
  BY <1>2, <1>5, OneCaller DEF StoreInv
<1>7. UNCHANGED <<wallet, used, version, valued, mishaps, happened>>
  BY DEF Save, Quiet
<1>8. TypeOK'
  BY <1>4, <1>5, <1>6, <1>7 DEF StoreInv, TypeOK, Fitting, Working
<1>9. /\ wallet[id] = Gone /\ OwnTags(object) /\ id \in used
      /\ \A a \in adding : a.id # id
      /\ \A d \in Callers : Made(d, id) => d = c
  BY <1>1 DEF StoreInv, MadeFit, CallersFit, ObjectFits
<1>10. TagsFromValues' /\ StoredFit'
  BY <1>4, <1>5, <1>7, <1>9 DEF StoreInv, TagsFromValues, StoredFit
<1>11. AddingFit'
  BY <1>4, <1>5, <1>7, <1>9 DEF StoreInv, AddingFit, OwnTags
<1>12. \A d \in Callers : \A i : Made(d, i)' <=> Made(d, i) /\ d # c
  BY <1>3, <1>6 DEF Made, Holds
<1>13. MadeFit'
  <2>1. ASSUME NEW d \in Callers, NEW i \in Ids, Made(d, i)'
        PROVE  /\ Made(d, i) /\ caller'[d] = caller[d] /\ i # id
    BY <1>6, <1>9, <1>12, <2>1
  <2> QED BY <1>4, <1>5, <1>7, <1>12, <2>1 DEF StoreInv, MadeFit
<1>14. Lasting
  <2>1. ~Lost(id)
    BY <1>1 DEF Lost
  <2>2. \A i : Lost(i) => Lost(i)'
    BY <1>4, <1>5, <1>7, <1>12, <2>1 DEF Lost
  <2>3. \A i, v : Known(i, v) => Known(i, v)'
    BY <1>5, <1>7 DEF Known
  <2> QED BY <1>7, <2>2, <2>3 DEF Lasting, StoreInv, TypeOK
<1>15. ObjectFits(c)' /\ SearchFits(c)'
  <2>1. Known(id, object.value)'
    BY <1>4, <1>5 DEF Known
  <2>2. \A n \in TagNames : object.tags[n] = object.value \/ Known(id, object.tags[n])'
    BY <1>9 DEF OwnTags, Known
  <2> QED BY <1>3, <1>6, <1>7, <1>9, <2>1, <2>2 DEF ObjectFits, SearchFits
<1>16. CallersFit'
  BY <1>6, <1>14, <1>15, OthersKeep DEF CallersFit
<1> QED BY <1>8, <1>10, <1>11, <1>13, <1>16 DEF StoreInv

\* The save that is under way adds the only record of its id that there will be.
LEMMA AddWalletRecordKeeps ==
  ASSUME StoreInv, NEW a \in adding, AddWalletRecord(a)
  PROVE  StoreInv'
<1>1. PICK id \in Ids, object \in Content : id = a.id /\ object = a.object
  BY DEF StoreInv, TypeOK
<1>2. adding' = adding \ {a} /\ UNCHANGED <<caller, used, version>>
      /\ (Quiet \/ \E kind \in FaultKinds : Strikes(kind))
  BY DEF AddWalletRecord, FaultKinds
<1>3. mishaps' \in 0..MaxFaults /\ happened' \subseteq FaultKinds /\ happened \subseteq happened'
  BY <1>2, FaultsCount DEF StoreInv
<1>4. \/ /\ wallet' = [wallet EXCEPT ![id] = object]
         /\ valued' = [valued EXCEPT ![id] = @ \cup {object.value}]
      \/ UNCHANGED <<wallet, valued>>
  BY <1>1 DEF AddWalletRecord
<1>5. object.value \in Versions /\ object # Gone
  BY GoneAssumption DEF Content
<1>6. TypeOK'
  BY <1>2, <1>3, <1>4, <1>5 DEF StoreInv, TypeOK
<1>7. /\ id \in used /\ OwnTags(object) /\ wallet[id] = Gone
      /\ \A b \in adding : b.id = id => b = a
      /\ \A d \in Callers : ~Made(d, id)
  BY <1>1 DEF StoreInv, AddingFit, StoredFit, MadeFit
<1>8. \A i \in Ids : i # id => wallet'[i] = wallet[i] /\ valued'[i] = valued[i]
  BY <1>4 DEF StoreInv, TypeOK
<1>9. \/ wallet'[id] = object /\ valued'[id] = valued[id] \cup {object.value}
      \/ wallet'[id] = Gone /\ valued'[id] = valued[id]
  BY <1>4, <1>7 DEF StoreInv, TypeOK
<1>10. TagsFromValues' /\ StoredFit'
  BY <1>1, <1>2, <1>7, <1>8, <1>9 DEF StoreInv, TagsFromValues, StoredFit, OwnTags
<1>11. AddingFit'
  BY <1>2 DEF StoreInv, AddingFit
<1>12. \A d, i : Made(d, i)' <=> Made(d, i)
  BY <1>2 DEF Made, Holds
<1>13. MadeFit'
  BY <1>2, <1>7, <1>8, <1>12 DEF StoreInv, MadeFit
<1>14. Lasting
  <2>1. ~Lost(id)
    BY <1>1 DEF Lost
  <2>2. \A i \in Ids : Lost(i) => Lost(i)'
    BY <1>2, <1>8, <1>12, <2>1 DEF Lost
  <2>3. \A i \in Ids : \A v : i # id => (Known(i, v) => Known(i, v)')
    BY <1>1, <1>2, <1>8 DEF Known
  <2>4. \A v : Known(id, v) => Known(id, v)' \/ Lost(id)'
    BY <1>1, <1>2, <1>7, <1>9, <1>12 DEF Known, Lost
  <2> QED BY <1>2, <1>3, <1>7, <1>8, <2>2, <2>3, <2>4 DEF Lasting, StoreInv, TypeOK
<1>15. CallersFit'
  BY <1>2, <1>14, OthersKeep DEF CallersFit
<1> QED BY <1>6, <1>10, <1>11, <1>13, <1>15 DEF StoreInv

\* A caller that is not making a record writes to one that is stored.
LEMMA WriteKeeps ==
  ASSUME StoreInv, NEW c \in Callers, NEW t, Fitting(t), caller' = [caller EXCEPT ![c] = t],
         ~(t.pc = "holds" /\ t.state = "made"), NEW id \in Ids, caller[c].object # Gone,
         ~Holds(c, "made"), id = caller[c].id, wallet' = [wallet EXCEPT ![id] = wallet'[id]],
         wallet'[id] \in Content \cup {Gone}, wallet[id] = Gone => wallet'[id] = Gone,
         valued' = [valued EXCEPT ![id] = valued'[id]], valued'[id] \in SUBSET Versions,
         valued[id] \subseteq valued'[id],
         UNCHANGED <<adding, used, version>>,
         Quiet \/ \E kind \in FaultKinds : Strikes(kind),
         wallet'[id] # Gone =>
           /\ wallet'[id].value \in valued'[id]
           /\ \A n \in TagNames : wallet'[id].tags[n] \in valued'[id] \cup {Unset},
         ObjectFits(c)', SearchFits(c)'
  PROVE  StoreInv'
<1>1. /\ caller'[c] = t
      /\ \A d \in Callers : d # c => caller'[d] = caller[d]
      /\ caller' \in [Callers -> Working]
      /\ \A d \in Callers : Fitting(caller'[d])
  BY OneCaller DEF StoreInv
<1>2. mishaps' \in 0..MaxFaults /\ happened' \subseteq FaultKinds /\ happened \subseteq happened'
  BY FaultsCount DEF StoreInv
<1>3. wallet \in [Ids -> Content \cup {Gone}] /\ valued \in [Ids -> SUBSET Versions]
  BY DEF StoreInv, TypeOK
<1>4. wallet' \in [Ids -> Content \cup {Gone}] /\ valued' \in [Ids -> SUBSET Versions]
  BY <1>3
<1>5. \A i \in Ids : i # id => wallet'[i] = wallet[i] /\ valued'[i] = valued[i]
  BY <1>3
<1>6. TypeOK'
  BY <1>1, <1>2, <1>4 DEF StoreInv, TypeOK, Fitting, Working
<1>7. TagsFromValues' /\ StoredFit' /\ AddingFit'
  BY <1>5 DEF StoreInv, TagsFromValues, StoredFit, AddingFit
<1>8. \A d \in Callers : \A i : Made(d, i)' => Made(d, i) /\ caller'[d] = caller[d]
  BY <1>1 DEF Made, Holds
<1>9. MadeFit'
  BY <1>5, <1>8 DEF StoreInv, MadeFit
<1>10. Lasting
  <2>1. \A i \in Ids : Lost(i) => Lost(i)'
    BY <1>5, <1>8 DEF Lost
  <2>2. \A i \in Ids : \A v : Known(i, v) => Known(i, v)'
    BY <1>5 DEF Known
  <2>3. wallet[id] # Gone => wallet'[id] # Gone \/ Lost(id)'
    BY <1>8 DEF StoreInv, StoredFit, MadeFit, Lost
  <2> QED BY <1>2, <1>5, <2>1, <2>2, <2>3 DEF Lasting, StoreInv, TypeOK
<1>11. CallersFit'
  BY <1>1, <1>10, OthersKeep DEF CallersFit
<1> QED BY <1>6, <1>7, <1>9, <1>11 DEF StoreInv

LEMMA UpdateWalletRecordValueKeeps ==
  ASSUME StoreInv, NEW c \in Callers, UpdateWalletRecordValue(c)
  PROVE  StoreInv'
<1>1. PICK id \in Ids, object \in Content :
        id = caller[c].id /\ object = caller[c].object /\ object # Gone /\ Holds(c, "changed")
  <2>1. caller[c].object \in Content /\ caller[c].object # Gone /\ Holds(c, "changed")
    BY GoneAssumption DEF StoreInv, TypeOK, UpdateWalletRecordValue, Holds
  <2>2. caller[c].id \in Ids
    BY <2>1 DEF StoreInv, TypeOK, CallersFit, ObjectFits
  <2> QED BY <2>1, <2>2
<1>2. CASE End(c) /\ UNCHANGED <<wallet, valued>>
  <2>1. Quiet \/ \E kind \in FaultKinds : Strikes(kind)
    BY DEF UpdateWalletRecordValue, FaultKinds
  <2>2. UNCHANGED <<wallet, adding, used, version, valued>>
    BY <1>2 DEF UpdateWalletRecordValue
  <2> QED BY <1>2, <2>1, <2>2, EndKeeps
<1>3. CASE /\ wallet[id] # Gone
           /\ wallet' = [wallet EXCEPT ![id].value = object.value]
           /\ valued' = [valued EXCEPT ![id] = @ \cup {object.value}]
           /\ caller' = [caller EXCEPT ![c].pc = "tags"]
           /\ Quiet
  <2> DEFINE t == [caller[c] EXCEPT !.pc = "tags"]
  <2>1. caller \in [Callers -> Working] /\ caller[c] \in Working
    BY DEF StoreInv, TypeOK, Working
  <2>2. t \in Working /\ t.pc = "tags" /\ t.id = id /\ t.object = object
    BY <1>1, <2>1 DEF Working
  <2>3. caller' = [caller EXCEPT ![c] = t]
    BY <1>3, <2>1
  <2> HIDE DEF t
  <2>4. Fitting(t) /\ ~(t.pc = "holds" /\ t.state = "made")
    BY <1>1, <2>2 DEF Fitting
  <2>5. caller'[c] = t
    BY <2>3, <2>4, OneCaller DEF StoreInv
  <2>6. wallet[id] \in Content /\ wallet \in [Ids -> Content \cup {Gone}]
        /\ valued \in [Ids -> SUBSET Versions] /\ object.value \in Versions
    BY <1>3 DEF StoreInv, TypeOK, Content
  <2>7. /\ wallet'[id] = [wallet[id] EXCEPT !.value = object.value]
        /\ wallet' = [wallet EXCEPT ![id] = wallet'[id]]
        /\ valued'[id] = valued[id] \cup {object.value}
        /\ valued' = [valued EXCEPT ![id] = valued'[id]]
    BY <1>3, <2>6
  <2>8. /\ wallet'[id] \in Content /\ wallet'[id].value = object.value
        /\ wallet'[id].tags = wallet[id].tags
    BY <2>6, <2>7 DEF Content
  <2>9. /\ valued'[id] \in SUBSET Versions /\ valued[id] \subseteq valued'[id]
        /\ wallet'[id].value \in valued'[id]
        /\ \A n \in TagNames : wallet'[id].tags[n] \in valued'[id] \cup {Unset}
    BY <1>3, <2>6, <2>7, <2>8 DEF StoreInv, TagsFromValues
  <2>10. ~Holds(c, "made") /\ ~Lost(id) /\ UNCHANGED <<adding, used, version>>
    BY <1>1, <1>3 DEF Holds, Lost, UpdateWalletRecordValue
  <2>11. id \in used
         /\ \A n \in TagNames : object.tags[n] = object.value \/ Known(id, object.tags[n])
    BY <1>1, <2>10 DEF StoreInv, CallersFit, ObjectFits
  <2>12. Known(id, object.value)' /\ \A v : Known(id, v) => Known(id, v)'
    BY <2>7, <2>10 DEF Known
  <2>13. ObjectFits(c)' /\ SearchFits(c)'
    BY <2>2, <2>5, <2>10, <2>11, <2>12 DEF ObjectFits, SearchFits
  <2>14. wallet'[id] \in Content \cup {Gone} /\ (wallet[id] = Gone => wallet'[id] = Gone)
    BY <1>3, <2>8
  <2> QED BY <1>1, <1>3, <2>3, <2>4, <2>7, <2>9, <2>10, <2>13, <2>14, WriteKeeps
<1> QED BY <1>1, <1>2, <1>3 DEF UpdateWalletRecordValue

LEMMA UpdateWalletRecordTagsKeeps ==
  ASSUME StoreInv, NEW c \in Callers, UpdateWalletRecordTags(c)
  PROVE  StoreInv'
<1>1. PICK id \in Ids, object \in Content :
        /\ id = caller[c].id /\ object = caller[c].object /\ object # Gone
        /\ caller[c].pc = "tags"
  <2>1. caller[c].object \in Content /\ caller[c].object # Gone /\ caller[c].pc = "tags"
    BY GoneAssumption DEF StoreInv, TypeOK, UpdateWalletRecordTags
  <2>2. caller[c].id \in Ids
    BY <2>1 DEF StoreInv, TypeOK, CallersFit, ObjectFits
  <2> QED BY <2>1, <2>2
<1>2. CASE End(c) /\ UNCHANGED wallet
  <2>1. Quiet \/ \E kind \in FaultKinds : Strikes(kind)
    BY DEF UpdateWalletRecordTags, FaultKinds
  <2>2. UNCHANGED <<wallet, adding, used, version, valued>>
    BY <1>2 DEF UpdateWalletRecordTags
  <2> QED BY <1>2, <2>1, <2>2, EndKeeps
<1>3. CASE /\ wallet[id] # Gone
           /\ wallet' = [wallet EXCEPT ![id] = Tagged(@, object)]
           /\ Hold(c, id, object, "same")
           /\ Quiet
  <2> DEFINE t == [Idle EXCEPT !.pc = "holds", !.id = id, !.object = object, !.state = "same"]
  <2>1. Fitting(t)
    BY HeldFits
  <2>2. t.pc = "holds" /\ t.id = id /\ t.object = object /\ t.state = "same"
    BY DEF Idle
  <2>3. caller' = [caller EXCEPT ![c] = t]
    BY <1>3 DEF Hold
  <2> HIDE DEF t
  <2>4. ~(t.pc = "holds" /\ t.state = "made")
    BY <2>2
  <2>5. caller'[c] = t
    BY <2>1, <2>3, OneCaller DEF StoreInv
  <2>6. wallet[id] \in Content /\ wallet \in [Ids -> Content \cup {Gone}]
        /\ valued \in [Ids -> SUBSET Versions]
    BY <1>3 DEF StoreInv, TypeOK
  <2>7. UNCHANGED <<adding, used, version, valued>>
    BY DEF UpdateWalletRecordTags
  <2>8. /\ wallet'[id] = Tagged(wallet[id], object)
        /\ wallet' = [wallet EXCEPT ![id] = wallet'[id]]
        /\ valued' = [valued EXCEPT ![id] = valued'[id]] /\ valued'[id] = valued[id]
        /\ valued'[id] \in SUBSET Versions
    BY <1>3, <2>6, <2>7
  <2>9. /\ wallet'[id] \in Content /\ wallet'[id].value = wallet[id].value
        /\ \A n \in TagNames : wallet'[id].tags[n] \in {wallet[id].tags[n], object.tags[n]}
    BY <2>6, <2>8 DEF Tagged, Content
  <2>10. ~Holds(c, "made") /\ ~Holds(c, "changed") /\ ~Lost(id)
    BY <1>1, <1>3 DEF Holds, Lost
  <2>11. /\ id \in used /\ Known(id, object.value)
         /\ \A n \in TagNames : Known(id, object.tags[n])
    BY <1>1, <2>10 DEF StoreInv, CallersFit, ObjectFits
  <2>12. \A v : Known(id, v) => v \in valued[id] \cup {Unset}
    BY <1>3 DEF Known, StoreInv, StoredFit
  <2>13. /\ wallet'[id].value \in valued'[id]
         /\ \A n \in TagNames : wallet'[id].tags[n] \in valued'[id] \cup {Unset}
    BY <1>3, <2>8, <2>9, <2>11, <2>12 DEF StoreInv, StoredFit, TagsFromValues
  <2>14. \A v : Known(id, v) => Known(id, v)'
    BY <2>7 DEF Known
  <2>15. ObjectFits(c)' /\ SearchFits(c)'
    BY <2>2, <2>5, <2>7, <2>11, <2>14 DEF ObjectFits, SearchFits
  <2>16. wallet'[id] \in Content \cup {Gone} /\ (wallet[id] = Gone => wallet'[id] = Gone)
    BY <1>3, <2>9
  <2> QED BY <1>1, <1>3, <2>1, <2>3, <2>4, <2>7, <2>8, <2>10, <2>13, <2>15, <2>16, WriteKeeps
<1> QED BY <1>1, <1>2, <1>3 DEF UpdateWalletRecordTags

LEMMA DeleteWalletRecordKeeps ==
  ASSUME StoreInv, NEW c \in Callers, DeleteWalletRecord(c)
  PROVE  StoreInv'
<1>1. PICK id \in Ids : id = caller[c].id
  <2>1. caller[c].object # Gone
    BY DEF StoreInv, TypeOK, DeleteWalletRecord
  <2> QED BY <2>1 DEF StoreInv, TypeOK, CallersFit, ObjectFits
<1>2. caller[c].object # Gone /\ ~Holds(c, "made") /\ End(c)
      /\ UNCHANGED <<adding, used, version, valued>>
  BY DEF StoreInv, TypeOK, DeleteWalletRecord, Holds
<1>3. CASE UNCHANGED wallet
  <2>1. Quiet \/ \E kind \in FaultKinds : Strikes(kind)
    BY DEF DeleteWalletRecord, FaultKinds
  <2> QED BY <1>2, <1>3, <2>1, EndKeeps
<1>4. CASE wallet' = [wallet EXCEPT ![id] = Gone] /\ Quiet
  <2>1. wallet \in [Ids -> Content \cup {Gone}] /\ valued \in [Ids -> SUBSET Versions]
    BY DEF StoreInv, TypeOK
  <2>2. wallet'[id] = Gone /\ wallet' = [wallet EXCEPT ![id] = wallet'[id]]
    BY <1>4, <2>1
  <2>3. valued'[id] = valued[id] /\ valued' = [valued EXCEPT ![id] = valued'[id]]
        /\ valued'[id] \in SUBSET Versions
    BY <1>2, <2>1
  <2>4. caller'[c] = Idle /\ caller' = [caller EXCEPT ![c] = Idle]
    BY <1>2, IdleFits, OneCaller DEF End, StoreInv
  <2>5. ObjectFits(c)' /\ SearchFits(c)'
    BY <2>4, IdleFits DEF ObjectFits, SearchFits
  <2> QED BY <1>1, <1>2, <1>4, <2>2, <2>3, <2>4, <2>5, IdleFits, WriteKeeps
<1> QED BY <1>1, <1>3, <1>4 DEF DeleteWalletRecord

LEMMA CrashKeeps ==
  ASSUME StoreInv, Crash
  PROVE  StoreInv'
<1>1. /\ adding' = {} /\ \A c \in Callers : caller'[c] = Idle
      /\ UNCHANGED <<wallet, used, version, valued>> /\ Strikes("crash")
  BY DEF Crash
<1>2. mishaps' \in 0..MaxFaults /\ happened' \subseteq FaultKinds
  BY <1>1, FaultsCount DEF StoreInv, FaultKinds
<1>3. TypeOK'
  BY <1>1, <1>2, IdleFits DEF Crash, StoreInv, TypeOK, Fitting, Working
<1>4. TagsFromValues' /\ StoredFit' /\ AddingFit'
  BY <1>1 DEF StoreInv, TagsFromValues, StoredFit, AddingFit
<1>5. MadeFit' /\ CallersFit'
  BY <1>1, IdleFits DEF MadeFit, Made, Holds, CallersFit, ObjectFits, SearchFits
<1> QED BY <1>3, <1>4, <1>5 DEF StoreInv

-----------------------------------------------------------------------------
(* The invariant                                                             *)

LEMMA InitEstablishes == Init => StoreInv
<1> SUFFICES ASSUME Init PROVE StoreInv
  OBVIOUS
<1>1. TypeOK
  BY IdleFits, StoreAssumption DEF Init, TypeOK, Fitting, Working, Versions
<1>2. TagsFromValues /\ StoredFit /\ AddingFit
  BY DEF Init, TagsFromValues, StoredFit, AddingFit
<1>3. MadeFit /\ CallersFit
  BY IdleFits DEF Init, MadeFit, Made, Holds, CallersFit, ObjectFits, SearchFits
<1> QED BY <1>1, <1>2, <1>3 DEF StoreInv

LEMMA NextKeeps == StoreInv /\ [Next]_vars => StoreInv'
<1> SUFFICES ASSUME StoreInv, [Next]_vars PROVE StoreInv'
  OBVIOUS
<1>1. ASSUME NEW c \in Callers, Drop(c) \/ Answer(c)
      PROVE  StoreInv'
  BY <1>1, EndKeeps DEF Drop, Answer
<1>2. CASE UNCHANGED vars
  BY <1>2 DEF vars, StoreInv, TypeOK, TagsFromValues, StoredFit, AddingFit, MadeFit, Made, Holds,
     CallersFit, ObjectFits, SearchFits, Lost, Known, Spared
<1> QED BY <1>1, <1>2, MakeKeeps, ChangeKeeps, SaveKeeps, AddWalletRecordKeeps,
           UpdateWalletRecordValueKeeps, UpdateWalletRecordTagsKeeps, DeleteWalletRecordKeeps,
           FindKeeps, OpenSearchKeeps, FetchNextKeeps, CrashKeeps DEF Next, Settle

\* The invariant from which the properties below follow.
THEOREM StoreInvariant == Spec => []StoreInv
BY InitEstablishes, NextKeeps, PTL DEF Spec

\* Types: the storage holds records or nothing, however many callers write to it.
THEOREM StoreTypeOK == Spec => []TypeOK
BY StoreInvariant, PTL DEF StoreInv

\* No record is found by a tag that its value never said, whatever callers overlap,
\* and whichever calls fail or are cut short.
THEOREM StoreTagsFromValues == Spec => []TagsFromValues
BY StoreInvariant, PTL DEF StoreInv

\* Before an id is given out, and until its save lands, the wallet has had no value for it.
FreshFit ==
  /\ \A id \in Ids : valued[id] # {} => id \in used
  /\ \A a \in adding : valued[a.id] = {}
  /\ \A c \in Callers, id \in Ids : Made(c, id) => valued[id] = {}

LEMMA FreshKeeps == StoreInv /\ FreshFit /\ [Next]_vars => FreshFit'
<1> SUFFICES ASSUME StoreInv, FreshFit, [Next]_vars PROVE FreshFit'
  OBVIOUS
<1>1. /\ caller \in [Callers -> Working] /\ adding \subseteq [id: Ids, object: Content]
      /\ valued \in [Ids -> SUBSET Versions] /\ wallet \in [Ids -> Content \cup {Gone}]
  BY DEF StoreInv, TypeOK, Working
<1>2. ASSUME \A d \in Callers, id \in Ids : Made(d, id)' => Made(d, id),
             UNCHANGED <<used, valued>>, adding' \subseteq adding
      PROVE  FreshFit'
  BY <1>2 DEF FreshFit
<1>3. ASSUME NEW c \in Callers, NEW t, caller' = [caller EXCEPT ![c] = t],
             ~(t.pc = "holds" /\ t.state = "made")
      PROVE  \A d \in Callers, id \in Ids : Made(d, id)' => Made(d, id)
  BY <1>1, <1>3 DEF Made, Holds
<1>4. ASSUME NEW c \in Callers, NEW id \in Ids, NEW names \in SUBSET TagNames, Make(c, id, names)
      PROVE  FreshFit'
  <2>1. /\ id \notin used /\ used' = used \cup {id} /\ UNCHANGED <<adding, valued>>
    BY <1>4 DEF Make
  <2>2. PICK t : t.id = id /\ caller' = [caller EXCEPT ![c] = t]
    <3>1. PICK object : Hold(c, id, object, "made")
      BY <1>4 DEF Make
    <3> DEFINE t == [Idle EXCEPT !.pc = "holds", !.id = id, !.object = object, !.state = "made"]
    <3>2. t.id = id
      BY DEF Idle
    <3> QED BY <3>1, <3>2 DEF Hold
  <2>3. \A d \in Callers, i \in Ids : Made(d, i)' => Made(d, i) \/ i = id
    BY <1>1, <2>2 DEF Made, Holds
  <2> QED BY <2>1, <2>3 DEF FreshFit
<1>5. ASSUME NEW c \in Callers, Save(c)
      PROVE  FreshFit'
  <2>1. Made(c, caller[c].id) /\ caller[c].id \in Ids
    BY <1>5 DEF Save, Holds, Made, StoreInv, TypeOK, CallersFit, ObjectFits
  <2>2. /\ adding' = adding \cup {[id |-> caller[c].id, object |-> caller[c].object]}
        /\ Hold(c, caller[c].id, caller[c].object, "same") /\ UNCHANGED <<used, valued>>
    BY <1>5 DEF Save
  <2>3. \A d \in Callers, id \in Ids : Made(d, id)' => Made(d, id)
    BY <1>3, <2>2 DEF Hold, Idle
  <2> QED BY <2>1, <2>2, <2>3 DEF FreshFit
<1>6. ASSUME NEW a \in adding, AddWalletRecord(a)
      PROVE  FreshFit'
  <2>1. /\ adding' = adding \ {a} /\ UNCHANGED <<caller, used>>
        /\ \A id \in Ids : id # a.id => valued'[id] = valued[id]
    BY <1>1, <1>6 DEF AddWalletRecord
  <2>2. a.id \in used /\ \A b \in adding' : b.id # a.id
    BY <2>1 DEF StoreInv, AddingFit
  <2>3. \A d \in Callers : ~Made(d, a.id)
    BY <1>1 DEF StoreInv, MadeFit
  <2>4. \A d, id : Made(d, id)' <=> Made(d, id)
    BY <2>1 DEF Made, Holds
  <2> QED BY <1>1, <2>1, <2>2, <2>3, <2>4 DEF FreshFit
<1>7. ASSUME NEW c \in Callers, UpdateWalletRecordValue(c)
      PROVE  FreshFit'
  <2>1. PICK id : id = caller[c].id
    OBVIOUS
  <2>2. id \in Ids /\ caller[c].state = "changed" /\ UNCHANGED <<adding, used>>
    BY <1>7, <2>1
       DEF UpdateWalletRecordValue, Holds, StoreInv, TypeOK, CallersFit, ObjectFits
  <2>3. CASE End(c) /\ UNCHANGED valued
    BY <1>2, <1>3, <2>2, <2>3, IdleFits DEF End
  <2>4. CASE /\ wallet[id] # Gone
             /\ valued' = [valued EXCEPT ![id] = @ \cup {caller[c].object.value}]
             /\ caller' = [caller EXCEPT ![c].pc = "tags"]
    <3>1. id \in used /\ (\A a \in adding : a.id # id) /\ \A d \in Callers : ~Made(d, id)
      BY <2>2, <2>4 DEF StoreInv, StoredFit, MadeFit
    <3>2. \A i \in Ids : i # id => valued'[i] = valued[i]
      BY <1>1, <2>4
    <3>3. \A d \in Callers, i \in Ids : Made(d, i)' => Made(d, i)
      BY <1>1, <2>4 DEF Made, Holds, Working
    <3> QED BY <1>1, <2>2, <3>1, <3>2, <3>3 DEF FreshFit
  <2> QED BY <1>7, <2>1, <2>3, <2>4 DEF UpdateWalletRecordValue
<1>8. ASSUME NEW c \in Callers, Drop(c) \/ Answer(c) \/ DeleteWalletRecord(c)
      PROVE  FreshFit'
  <2>1. End(c) /\ UNCHANGED <<adding, used, valued>>
    BY <1>8 DEF Drop, Answer, DeleteWalletRecord
  <2> QED BY <1>2, <1>3, <2>1, IdleFits DEF End
<1>9. ASSUME NEW c \in Callers, NEW id, NEW object, NEW state \in {"same", "changed"},
             Hold(c, id, object, state), UNCHANGED <<adding, used, valued>>
      PROVE  FreshFit'
  <2> DEFINE t == [Idle EXCEPT !.pc = "holds", !.id = id, !.object = object, !.state = state]
  <2>1. t.state # "made" /\ caller' = [caller EXCEPT ![c] = t]
    BY <1>9 DEF Hold, Idle
  <2> HIDE DEF t
  <2> QED BY <1>2, <1>3, <1>9, <2>1
<1>10. ASSUME NEW c \in Callers, UpdateWalletRecordTags(c)
       PROVE  FreshFit'
  <2>1. UNCHANGED <<adding, used, valued>>
        /\ (End(c) \/ Hold(c, caller[c].id, caller[c].object, "same"))
    BY <1>10 DEF UpdateWalletRecordTags
  <2>2. CASE End(c)
    BY <1>2, <1>3, <2>1, <2>2, IdleFits DEF End
  <2> QED BY <1>9, <2>1, <2>2
<1>11. ASSUME NEW c \in Callers,
              \/ \E id \in Ids : Find(c, id)
              \/ \E names \in SUBSET TagNames : Change(c, names)
       PROVE  FreshFit'
  <2>1. UNCHANGED <<adding, used, valued>>
        /\ \E id, object : Hold(c, id, object, "same") \/ Hold(c, id, object, "changed")
    BY <1>11, Zenon DEF Find, Change
  <2> QED BY <1>9, <2>1
<1>12. ASSUME NEW c \in Callers, FetchNext(c) \/ \E names \in SUBSET TagNames : OpenSearch(c, names)
       PROVE  FreshFit'
  <2>1. UNCHANGED <<adding, used, valued>>
    BY <1>12, Zenon DEF FetchNext, OpenSearch
  <2>2. \A d \in Callers : caller'[d] = caller[d] \/ caller'[d].pc \in {"search", "answered"}
    <3>1. CASE FetchNext(c)
      <4>1. PICK t \in Working : Fetched(c, t)
        BY <3>1, FetchIs
      <4> QED BY <1>1, <4>1 DEF Fetched
    <3>2. CASE \E names \in SUBSET TagNames : OpenSearch(c, names)
      <4>1. PICK query \in SUBSET TagNames : OpenSearch(c, query)
        BY <3>2, Zenon
      <4> DEFINE q == [Idle EXCEPT !.pc = "search", !.left = Matching(query), !.opened = Matching(query)]
      <4>2. q.pc = "search" /\ caller' = [caller EXCEPT ![c] = q]
        BY <4>1 DEF OpenSearch, Idle
      <4> HIDE DEF q
      <4> QED BY <1>1, <4>2
    <3> QED BY <1>12, <3>1, <3>2
  <2>3. \A d \in Callers, id \in Ids : Made(d, id)' => Made(d, id)
    BY <2>2 DEF Made, Holds
  <2> QED BY <1>2, <2>1, <2>3
<1>13. CASE Crash
  <2>1. adding' = {} /\ UNCHANGED <<used, valued>> /\ \A d \in Callers : caller'[d] = Idle
    BY <1>13 DEF Crash
  <2>2. \A d \in Callers, id \in Ids : ~Made(d, id)'
    BY <2>1, IdleFits DEF Made, Holds
  <2> QED BY <1>2, <2>1, <2>2
<1>14. CASE UNCHANGED vars
  <2>1. UNCHANGED <<caller, adding, used, valued>>
    BY <1>14 DEF vars
  <2> QED BY <1>2, <2>1 DEF Made, Holds
<1> QED BY <1>4, <1>5, <1>6, <1>7, <1>8, <1>10, <1>11, <1>12, <1>13, <1>14 DEF Next, Settle

\* A save that is still under way undoes nothing when it lands: no value was stored for
\* its record, though its caller did not wait and may have tried to change the record.
THEOREM StoreSavesComeFirst == Spec => []SavesComeFirst
<1>1. Init => FreshFit
  <2> SUFFICES ASSUME Init PROVE FreshFit
    OBVIOUS
  <2>1. \A c \in Callers, id \in Ids : ~Made(c, id)
    BY IdleFits DEF Init, Made, Holds
  <2> QED BY <2>1 DEF Init, FreshFit
<1>2. StoreInv /\ FreshFit => SavesComeFirst
  BY DEF StoreInv, TypeOK, StoredFit, FreshFit, SavesComeFirst
<1> QED BY <1>1, <1>2, InitEstablishes, NextKeeps, FreshKeeps, PTL DEF Spec

\* A search finds every record that matched when it began and is still there, in any
\* number of fetches, unless a call of the wallet failed.
THEOREM StoreSearchFindsAll == Spec => []SearchFindsAll
<1>1. StoreInv => SearchFindsAll
  BY DEF StoreInv, CallersFit, SearchFits, SearchFindsAll, Lost
<1> QED BY <1>1, StoreInvariant, PTL

-----------------------------------------------------------------------------
(* Undisturbed, a record is held by one caller, who knows what is stored     *)

\* What is stored for the id, or will be.
Stores(id, content) ==
  \/ wallet[id] = content
  \/ wallet[id] = Gone /\ \E a \in adding : a.id = id /\ a.object = content

Builds(object, content) ==
  /\ object.value > content.value
  /\ \A n \in TagNames : object.tags[n] \in {object.value, content.tags[n]}

HolderFits(c) ==
  /\ Holds(c, "same") => Stores(caller[c].id, caller[c].object)
  /\ Holds(c, "changed") =>
       \E content \in Content : Stores(caller[c].id, content) /\ Builds(caller[c].object, content)
  /\ caller[c].pc = "tags" =>
       /\ wallet[caller[c].id] # Gone
       /\ wallet[caller[c].id].value = caller[c].object.value
       /\ caller[c].object.value # Unset
       /\ \A n \in TagNames :
            caller[c].object.tags[n] \in {caller[c].object.value, wallet[caller[c].id].tags[n]}

OneHolder ==
  /\ \A c \in Callers : caller[c].object = Gone => caller[c].id = Gone
  /\ \A c, d \in Callers : caller[c].id = caller[d].id /\ caller[c].id # Gone => c = d

\* Versions number the contents in the order they were made.
ByVersion ==
  /\ \A id \in Ids : wallet[id] # Gone => wallet[id].value <= version
  /\ \A a \in adding : a.object.value <= version
  /\ \A c \in Callers : caller[c].object # Gone => caller[c].object.value <= version

Solo == OneHolder /\ ByVersion /\ \A c \in Callers : HolderFits(c)

SoloInv == happened = {} => Solo

\* What the storage holds for an id, an update being done once it has begun.
ContentsAre ==
  \A id \in Ids :
    /\ \A c \in Callers : caller[c].pc = "tags" /\ caller[c].id = id => Contents[id] = caller[c].object
    /\ (\A c \in Callers : ~(caller[c].pc = "tags" /\ caller[c].id = id)) => Contents[id] = wallet[id]

\* What holds a record is one of the callers, and its object is a content.
LEMMA HeldTyped ==
  ASSUME StoreInv, NEW c \in Callers, caller[c].pc \in {"holds", "tags"}
  PROVE  caller[c].object \in Content /\ caller[c].object # Gone /\ caller[c].id \in Ids
BY DEF StoreInv, TypeOK, CallersFit, ObjectFits

LEMMA TaggedIs ==
  ASSUME NEW content \in Content, NEW object \in Content, content.value = object.value,
         object.value # Unset,
         \A n \in TagNames : object.tags[n] \in {object.value, content.tags[n]}
  PROVE  Tagged(content, object) = object
<1>1. content.tags \in [TagNames -> Versions] /\ object.tags \in [TagNames -> Versions]
  BY DEF Content
<1>2. PICK tags : tags = [n \in TagNames |-> IF object.tags[n] = Unset THEN content.tags[n]
                                             ELSE object.tags[n]]
  OBVIOUS
<1>3. tags = object.tags
  <2>1. \A n \in TagNames : tags[n] = object.tags[n]
    BY <1>2
  <2> QED BY <1>1, <1>2, <2>1
<1>4. Tagged(content, object) = [content EXCEPT !.tags = tags]
  BY <1>2 DEF Tagged
<1> QED BY <1>3, <1>4 DEF Content

LEMMA ContentsSeen == StoreInv /\ Solo => ContentsAre
<1> SUFFICES ASSUME StoreInv, Solo, NEW id \in Ids
             PROVE  /\ \A c \in Callers : caller[c].pc = "tags" /\ caller[c].id = id
                                            => Contents[id] = caller[c].object
                    /\ (\A c \in Callers : ~(caller[c].pc = "tags" /\ caller[c].id = id))
                         => Contents[id] = wallet[id]
  BY DEF ContentsAre
<1>1. ASSUME NEW c \in Callers, caller[c].pc = "tags", caller[c].id = id
      PROVE  Contents[id] = caller[c].object
  <2>1. caller[c].object \in Content /\ caller[c].object # Gone
    BY <1>1, HeldTyped
  <2>2. wallet[id] \in Content /\ wallet[id] # Gone
    BY <1>1 DEF Solo, HolderFits, StoreInv, TypeOK
  <2>3. Pending(id) = {c}
    BY <1>1, GoneAssumption DEF Pending, Solo, OneHolder
  <2>4. (CHOOSE d \in Pending(id) : TRUE) = c
    BY <2>3
  <2>5. Contents[id] = Tagged(wallet[id], caller[c].object)
    BY <2>2, <2>3, <2>4, Zenon DEF Contents
  <2> QED BY <1>1, <2>1, <2>2, <2>5, TaggedIs DEF Solo, HolderFits
<1>2. ASSUME \A c \in Callers : ~(caller[c].pc = "tags" /\ caller[c].id = id)
      PROVE  Contents[id] = wallet[id]
  BY <1>2 DEF Contents, Pending
<1> QED BY <1>1, <1>2

\* A step of one caller, who may write to the record it holds.
LEMMA SoloCaller ==
  ASSUME StoreInv, Solo, NEW c \in Callers, NEW t, caller'[c] = t,
         \A d \in Callers : d # c => caller'[d] = caller[d],
         \A id \in Ids : id # caller[c].id => wallet'[id] = wallet[id],
         \A id \in Ids : wallet'[id] # Gone => wallet'[id] = wallet[id] \/ wallet'[id].value <= version',
         adding \subseteq adding', \A a \in adding' : a \in adding \/ a.object.value <= version',
         version' \in Nat, version' >= version,
         t.object = Gone => t.id = Gone,
         t.id # Gone => \A d \in Callers : d # c => caller[d].id # t.id,
         t.object # Gone => t.object.value <= version',
         HolderFits(c)'
  PROVE  Solo'
<1>1. OneHolder'
  BY DEF Solo, OneHolder
<1>2. ByVersion'
  <2>1. \A content \in Content : content.value \in Nat
    BY DEF Content, Versions
  <2>2. /\ version \in Nat
        /\ wallet \in [Ids -> Content \cup {Gone}]
        /\ \A a \in adding : a.object \in Content
        /\ \A d \in Callers : caller[d].object \in Content \cup {Gone}
    BY DEF StoreInv, TypeOK, Versions
  <2> QED BY <2>1, <2>2 DEF Solo, ByVersion
<1>3. ASSUME NEW d \in Callers, d # c PROVE HolderFits(d)'
  <2>1. caller'[d] = caller[d]
    BY <1>3
  <2>2. CASE caller[d].pc \in {"holds", "tags"}
    <3>1. caller[d].id \in Ids /\ caller[d].id # Gone
      BY <2>2, HeldTyped, GoneAssumption
    <3>2. wallet'[caller[d].id] = wallet[caller[d].id]
      BY <1>3, <3>1 DEF Solo, OneHolder
    <3> QED BY <2>1, <3>2 DEF Solo, HolderFits, Holds, Stores, Builds
  <2>3. CASE caller[d].pc \notin {"holds", "tags"}
    BY <2>1, <2>3 DEF HolderFits, Holds
  <2> QED BY <2>2, <2>3
<1> QED BY <1>1, <1>2, <1>3 DEF Solo

\* Nothing changes in the map.
LEMMA SameContents ==
  ASSUME ContentsAre, ContentsAre', UNCHANGED wallet,
         \A d \in Callers : caller[d].pc = "tags" \/ caller'[d].pc = "tags" =>
           caller'[d].pc = caller[d].pc /\ caller'[d].id = caller[d].id
           /\ caller'[d].object = caller[d].object
  PROVE  UNCHANGED Contents
<1>1. \A id \in Ids : Contents'[id] = Contents[id]
  BY DEF ContentsAre
<1> QED BY <1>1 DEF Contents

-----------------------------------------------------------------------------
(* Undisturbed, each step keeps it so                                        *)

LEMMA SoloEnd ==
  ASSUME StoreInv, Solo, NEW c \in Callers, End(c), UNCHANGED <<adding, version>>,
         \A id \in Ids : id # caller[c].id => wallet'[id] = wallet[id],
         \A id \in Ids : wallet'[id] # Gone => wallet'[id] = wallet[id]
  PROVE  Solo'
<1>1. caller'[c] = Idle /\ \A d \in Callers : d # c => caller'[d] = caller[d]
  BY IdleFits, OneCaller DEF End, StoreInv
<1>2. Idle.id = Gone /\ HolderFits(c)'
  BY <1>1, IdleFits DEF Idle, HolderFits, Holds
<1>3. version' \in Nat /\ version' >= version
  BY DEF StoreInv, TypeOK, Versions
<1> QED BY <1>1, <1>2, <1>3, IdleFits, SoloCaller

\* What a caller holds after Hold, and that nobody else does anything.
LEMMA HoldIs ==
  ASSUME TypeOK, NEW c \in Callers, NEW id \in Ids, NEW object \in Content,
         NEW state \in {"made", "same", "changed"}, Hold(c, id, object, state)
  PROVE  /\ caller'[c].pc = "holds" /\ caller'[c].id = id
         /\ caller'[c].object = object /\ caller'[c].state = state
         /\ \A d \in Callers : d # c => caller'[d] = caller[d]
<1>1. PICK t : t = [Idle EXCEPT !.pc = "holds", !.id = id, !.object = object, !.state = state]
  OBVIOUS
<1>2. Fitting(t)
  BY <1>1, HeldFits
<1>3. t.pc = "holds" /\ t.id = id /\ t.object = object /\ t.state = state
  BY <1>1 DEF Idle
<1>4. caller' = [caller EXCEPT ![c] = t]
  BY <1>1 DEF Hold
<1> QED BY <1>2, <1>3, <1>4, OneCaller

LEMMA SoloMake ==
  ASSUME StoreInv, Solo, NEW c \in Callers, NEW id \in Ids, NEW names \in SUBSET TagNames,
         Make(c, id, names)
  PROVE  Solo' /\ UNCHANGED wallet
         /\ \A d \in Callers : caller[d].pc = "tags" \/ caller'[d].pc = "tags" => caller'[d] = caller[d]
<1>1. version \in Nat /\ version' = version + 1 /\ version' \in Versions
  BY StoreAssumption DEF StoreInv, TypeOK, Make, NewVersion, Versions
<1>2. PICK object : object = [value |-> version',
                              tags |-> [n \in TagNames |-> IF n \in names THEN version' ELSE Unset]]
  OBVIOUS
<1>3. object \in Content /\ object # Gone /\ object.value = version'
  BY <1>1, <1>2, GoneAssumption, StoreAssumption DEF Content, Versions, Unset
<1>4. /\ caller'[c].pc = "holds" /\ caller'[c].id = id
      /\ caller'[c].object = object /\ caller'[c].state = "made"
      /\ \A d \in Callers : d # c => caller'[d] = caller[d]
  <2>1. Hold(c, id, object, "made")
    BY <1>2 DEF Make
  <2> QED BY <1>3, <2>1, HoldIs DEF StoreInv
<1>5. \A d \in Callers : caller[d].id # id
  BY GoneAssumption DEF Make, StoreInv, CallersFit, ObjectFits, Solo, OneHolder
<1>6. HolderFits(c)'
  BY <1>4 DEF HolderFits, Holds
<1>7. UNCHANGED <<wallet, adding>> /\ caller[c].pc = "idle"
  BY DEF Make
<1>8. Solo'
  BY <1>1, <1>3, <1>4, <1>5, <1>6, <1>7, SoloCaller
<1> QED BY <1>4, <1>7, <1>8

LEMMA SoloChange ==
  ASSUME StoreInv, Solo, NEW c \in Callers, NEW names \in SUBSET TagNames, Change(c, names)
  PROVE  Solo' /\ UNCHANGED wallet
         /\ \A d \in Callers : caller[d].pc = "tags" \/ caller'[d].pc = "tags" => caller'[d] = caller[d]
<1>1. version \in Nat /\ version' = version + 1 /\ version' \in Versions
  BY StoreAssumption DEF StoreInv, TypeOK, Change, NewVersion, Versions
<1>2. PICK id, old : id = caller[c].id /\ old = caller[c].object
  OBVIOUS
<1>3. id \in Ids /\ old \in Content /\ old # Gone /\ Holds(c, "same")
  BY <1>2, HeldTyped DEF Change, Holds
<1>4. PICK object : object = [value |-> version',
                              tags |-> [n \in TagNames |-> IF n \in names THEN version' ELSE old.tags[n]]]
  OBVIOUS
<1>5. object \in Content /\ object # Gone /\ object.value = version'
  BY <1>1, <1>3, <1>4, GoneAssumption DEF Content
<1>6. /\ caller'[c].pc = "holds" /\ caller'[c].id = id
      /\ caller'[c].object = object /\ caller'[c].state = "changed"
      /\ \A d \in Callers : d # c => caller'[d] = caller[d]
  <2>1. Hold(c, id, object, "changed")
    BY <1>2, <1>4 DEF Change
  <2> QED BY <1>3, <1>5, <2>1, HoldIs DEF StoreInv
<1>7. UNCHANGED <<wallet, adding>> /\ caller[c].pc = "holds"
  BY DEF Change, Holds
<1>8. Builds(object, old)
  <2>1. old.value <= version /\ old.value \in Nat
    BY <1>2, <1>3 DEF Solo, ByVersion, Content, Versions
  <2> QED BY <1>1, <1>4, <2>1 DEF Builds
<1>9. Stores(id, old)'
  BY <1>2, <1>3, <1>7 DEF Solo, HolderFits, Stores
<1>10. HolderFits(c)'
  BY <1>3, <1>6, <1>8, <1>9 DEF HolderFits, Holds, Builds
<1>11. \A d \in Callers : d # c => caller[d].id # id
  BY <1>2, <1>3, GoneAssumption DEF Solo, OneHolder
<1>12. Solo'
  BY <1>1, <1>5, <1>6, <1>7, <1>10, <1>11, SoloCaller
<1> QED BY <1>6, <1>7, <1>12

LEMMA SoloSave ==
  ASSUME StoreInv, Solo, NEW c \in Callers, Save(c)
  PROVE  Solo' /\ UNCHANGED wallet
         /\ \A d \in Callers : caller[d].pc = "tags" \/ caller'[d].pc = "tags" => caller'[d] = caller[d]
<1>1. PICK id, object : id = caller[c].id /\ object = caller[c].object
  OBVIOUS
<1>2. id \in Ids /\ object \in Content /\ object # Gone /\ Made(c, id)
  BY <1>1, HeldTyped DEF Save, Holds, Made
<1>3. /\ caller'[c].pc = "holds" /\ caller'[c].id = id
      /\ caller'[c].object = object /\ caller'[c].state = "same"
      /\ \A d \in Callers : d # c => caller'[d] = caller[d]
  <2>1. Hold(c, id, object, "same")
    BY <1>1 DEF Save
  <2> QED BY <1>2, <2>1, HoldIs DEF StoreInv
<1>4. PICK a : a = [id |-> id, object |-> object]
  OBVIOUS
<1>5. /\ adding' = adding \cup {a} /\ a.id = id /\ a.object = object
      /\ UNCHANGED <<wallet, version>> /\ caller[c].pc = "holds"
  BY <1>1, <1>4 DEF Save, Holds
<1>6. Stores(id, object)'
  <2>1. wallet[id] = Gone
    BY <1>2 DEF StoreInv, MadeFit
  <2> QED BY <1>5, <2>1 DEF Stores
<1>7. HolderFits(c)'
  BY <1>3, <1>6 DEF HolderFits, Holds
<1>8. \A d \in Callers : d # c => caller[d].id # id
  BY <1>1, <1>2, GoneAssumption DEF Solo, OneHolder
<1>9. version' \in Nat /\ version' >= version /\ object.value <= version'
  BY <1>1, <1>2, <1>5 DEF StoreInv, TypeOK, Versions, Solo, ByVersion
<1>10. Solo'
  BY <1>2, <1>3, <1>5, <1>7, <1>8, <1>9, SoloCaller
<1> QED BY <1>3, <1>5, <1>10

LEMMA SoloFind ==
  ASSUME StoreInv, Solo, happened = {}, happened' = {}, NEW c \in Callers, NEW id \in Ids, Find(c, id)
  PROVE  Solo' /\ UNCHANGED wallet
         /\ \A d \in Callers : caller[d].pc = "tags" \/ caller'[d].pc = "tags" => caller'[d] = caller[d]
<1>1. wallet[id] \in Content /\ wallet[id] # Gone /\ UNCHANGED <<wallet, adding, version>>
      /\ caller[c].pc = "idle"
  BY DEF Find, StoreInv, TypeOK
<1>2. \A d \in Callers : caller[d].id # id
  BY DEF Find, Held, Strikes
<1>3. /\ caller'[c].pc = "holds" /\ caller'[c].id = id
      /\ caller'[c].object = wallet[id] /\ caller'[c].state = "same"
      /\ \A d \in Callers : d # c => caller'[d] = caller[d]
  BY <1>1, HoldIs DEF Find, StoreInv
<1>4. HolderFits(c)'
  BY <1>1, <1>3 DEF HolderFits, Holds, Stores
<1>5. version' \in Nat /\ version' >= version /\ wallet[id].value <= version'
  BY <1>1 DEF StoreInv, TypeOK, Versions, Solo, ByVersion
<1>6. Solo'
  BY <1>1, <1>2, <1>3, <1>4, <1>5, SoloCaller
<1> QED BY <1>1, <1>3, <1>6

LEMMA ContentsStaySeen == StoreInv' /\ Solo' => ContentsAre'
BY ContentsSeen, PTL

\* The id of one record has another content, by a step of one caller or of none.
LEMMA MapAt ==
  ASSUME ContentsAre, ContentsAre', NEW id \in Ids,
         \A i \in Ids : i # id => wallet'[i] = wallet[i],
         \A d \in Callers : caller[d].pc = "tags" \/ caller'[d].pc = "tags" =>
           \/ caller'[d] = caller[d]
           \/ (caller[d].pc = "tags" => caller[d].id = id)
              /\ (caller'[d].pc = "tags" => caller'[d].id = id)
  PROVE  Contents' = [Contents EXCEPT ![id] = Contents'[id]]
<1>1. \A i \in Ids : i # id => Contents'[i] = Contents[i]
  BY DEF ContentsAre
<1>2. Contents = [i \in Ids |-> Contents[i]] /\ Contents' = [i \in Ids |-> Contents'[i]]
  BY DEF Contents
<1> QED BY <1>1, <1>2

LEMMA AddMaps ==
  ASSUME StoreInv, StoreInv', Solo, happened = {}, happened' = {}, NEW a \in adding, AddWalletRecord(a)
  PROVE  Solo' /\ Map!Next
<1>1. PICK id \in Ids, object \in Content : id = a.id /\ object = a.object
  BY DEF StoreInv, TypeOK
<1>2. /\ wallet' = [wallet EXCEPT ![id] = object]
      /\ adding' = adding \ {a} /\ UNCHANGED <<caller, version>>
  BY <1>1 DEF AddWalletRecord, Strikes
<1>3. wallet[id] = Gone /\ \A b \in adding : b.id = id => b = a
  BY <1>1 DEF StoreInv, AddingFit, StoredFit
<1>4. /\ wallet'[id] = object /\ object # Gone
      /\ \A i \in Ids : i # id => wallet'[i] = wallet[i]
  BY <1>2, GoneAssumption DEF StoreInv, TypeOK
<1>5. \A i \in Ids, content \in Content : Stores(i, content) => Stores(i, content)'
  BY <1>1, <1>2, <1>3, <1>4, GoneAssumption DEF Stores
<1>6. \A c \in Callers : caller[c].pc = "tags" => caller[c].id \in Ids /\ caller[c].id # id
  BY <1>3, HeldTyped DEF Solo, HolderFits
<1>7. ASSUME NEW c \in Callers PROVE HolderFits(c)'
  <2>1. caller[c].pc \in {"holds", "tags"} => caller[c].id \in Ids /\ caller[c].object \in Content
    BY HeldTyped
  <2> QED BY <1>2, <1>4, <1>5, <1>6, <2>1 DEF Solo, HolderFits, Holds, Builds
<1>8. ByVersion' /\ OneHolder'
  BY <1>1, <1>2, <1>4 DEF Solo, ByVersion, OneHolder
<1>9. Solo'
  BY <1>7, <1>8 DEF Solo
<1>10. ContentsAre /\ ContentsAre'
  BY <1>9, ContentsSeen, ContentsStaySeen
<1>11. Contents' = [Contents EXCEPT ![id] = Contents'[id]]
  BY <1>2, <1>4, <1>10, MapAt
<1>12. Contents[id] = Gone /\ Contents'[id] = object
  BY <1>2, <1>3, <1>4, <1>6, <1>10 DEF ContentsAre
<1>13. /\ object.value \in Versions /\ object.tags \in [TagNames -> Versions]
       /\ object = Map!Content(object.value, object.tags)
  BY DEF Content, Map!Content
<1>14. Map!Add(id, object.value, object.tags)
  BY <1>11, <1>12, <1>13 DEF Map!Add
<1> QED BY <1>9, <1>13, <1>14 DEF Map!Next

\* Of an update: the value.
LEMMA ValueMaps ==
  ASSUME StoreInv, StoreInv', Solo, happened = {}, happened' = {}, NEW c \in Callers,
         UpdateWalletRecordValue(c)
  PROVE  Solo' /\ (Map!Next \/ UNCHANGED Contents)
<1>1. PICK id, object, old : id = caller[c].id /\ object = caller[c].object /\ old = wallet[id]
  OBVIOUS
<1>2. id \in Ids /\ object \in Content /\ object # Gone /\ Holds(c, "changed")
  BY <1>1, HeldTyped DEF UpdateWalletRecordValue, Holds
<1>3. UNCHANGED <<adding, version>> /\ ContentsAre
  BY ContentsSeen DEF UpdateWalletRecordValue
<1>4. CASE End(c) /\ UNCHANGED wallet
  <2>1. Solo'
    BY <1>3, <1>4, SoloEnd
  <2>2. ContentsAre'
    BY <2>1, ContentsStaySeen
  <2>3. caller'[c] = Idle /\ Idle.pc = "idle" /\ \A d \in Callers : d # c => caller'[d] = caller[d]
    BY <1>4, IdleFits, OneCaller DEF End, StoreInv
  <2>4. UNCHANGED Contents
    BY <1>2, <1>3, <1>4, <2>2, <2>3, SameContents DEF Holds
  <2> QED BY <2>1, <2>4
<1>5. CASE /\ old # Gone
           /\ wallet' = [wallet EXCEPT ![id].value = object.value]
           /\ caller' = [caller EXCEPT ![c].pc = "tags"]
  <2>1. /\ caller'[c].pc = "tags" /\ caller'[c].id = id /\ caller'[c].object = object
        /\ \A d \in Callers : d # c => caller'[d] = caller[d]
    BY <1>1, <1>5 DEF StoreInv, TypeOK
  <2>2. old \in Content /\ wallet \in [Ids -> Content \cup {Gone}]
    BY <1>1, <1>2, <1>5 DEF StoreInv, TypeOK
  <2>3. /\ wallet'[id] = [old EXCEPT !.value = object.value]
        /\ \A i \in Ids : i # id => wallet'[i] = wallet[i]
    BY <1>1, <1>2, <1>5, <2>2
  <2>4. wallet'[id].value = object.value /\ wallet'[id].tags = old.tags /\ wallet'[id] # Gone
    BY <1>2, <2>2, <2>3, GoneAssumption DEF Content
  <2>5. Builds(object, old)
    <3>1. PICK content \in Content : Stores(id, content) /\ Builds(object, content)
      BY <1>1, <1>2 DEF Solo, HolderFits
    <3> QED BY <1>1, <1>5, <3>1 DEF Stores
  <2>6. object.value # Unset
    BY <2>2, <2>5 DEF Builds, Unset, Content, Versions
  <2>7. HolderFits(c)'
    BY <2>1, <2>4, <2>5, <2>6 DEF HolderFits, Holds, Builds
  <2>8. version' \in Nat /\ version' >= version /\ object.value <= version'
    BY <1>1, <1>2, <1>3 DEF StoreInv, TypeOK, Versions, Solo, ByVersion
  <2>9. \A d \in Callers : d # c => caller[d].id # id
    BY <1>1, <1>2, GoneAssumption DEF Solo, OneHolder
  <2>10. Solo'
    <3>1. PICK t : caller'[c] = t
      OBVIOUS
    <3>2. /\ \A i \in Ids : i # caller[c].id => wallet'[i] = wallet[i]
          /\ \A i \in Ids : wallet'[i] # Gone =>
               wallet'[i] = wallet[i] \/ wallet'[i].value <= version'
      BY <1>1, <2>3, <2>4, <2>8
    <3>3. /\ t.object = Gone => t.id = Gone
          /\ t.id # Gone => \A d \in Callers : d # c => caller[d].id # t.id
          /\ t.object # Gone => t.object.value <= version'
      BY <1>2, <2>1, <2>8, <2>9, <3>1
    <3> QED BY <1>3, <2>1, <2>7, <2>8, <3>1, <3>2, <3>3, SoloCaller
  <2>11. ContentsAre'
    BY <2>10, ContentsStaySeen
  <2>12. Contents[id] = old /\ Contents'[id] = object
    BY <1>1, <1>2, <1>3, <2>1, <2>9, <2>11 DEF ContentsAre, Holds
  <2>13. Contents' = [Contents EXCEPT ![id] = object]
    BY <1>2, <1>3, <2>1, <2>3, <2>11, <2>12, MapAt DEF Holds
  <2>14. PICK names : names = {n \in TagNames : object.tags[n] = object.value}
    OBVIOUS
  <2>15. object.tags = [n \in TagNames |-> IF n \in names THEN object.value ELSE old.tags[n]]
    BY <1>2, <2>5, <2>14 DEF Builds, Content
  <2>16. Map!Replace(id, object.value, names)
    <3>1. object = Map!Content(object.value, object.tags)
      BY <1>2 DEF Content, Map!Content
    <3>2. Contents[id] # Gone /\ object.value > Contents[id].value
      BY <1>5, <2>5, <2>12 DEF Builds
    <3>3. PICK f : f = [n \in TagNames |-> IF n \in names THEN object.value ELSE Contents[id].tags[n]]
      OBVIOUS
    <3>4. Contents' = [Contents EXCEPT ![id] = Map!Content(object.value, f)]
      BY <2>12, <2>13, <2>15, <3>1, <3>3
    <3>5. Contents' = [Contents EXCEPT ![id] = Map!Content(object.value,
                        [n \in TagNames |-> IF n \in names THEN object.value ELSE @.tags[n]])]
      BY <1>2, <3>3, <3>4 DEF Contents
    <3> QED BY <3>2, <3>5 DEF Map!Replace
  <2>17. names \in SUBSET TagNames /\ object.value \in Versions
    BY <1>2, <2>14 DEF Content
  <2> QED BY <1>2, <2>10, <2>16, <2>17 DEF Map!Next
<1> QED BY <1>1, <1>4, <1>5 DEF UpdateWalletRecordValue, Strikes

\* Of an update: the tags.
LEMMA TagsMap ==
  ASSUME StoreInv, StoreInv', Solo, happened = {}, happened' = {}, NEW c \in Callers,
         UpdateWalletRecordTags(c)
  PROVE  Solo' /\ UNCHANGED Contents
<1>1. PICK id, object, old : id = caller[c].id /\ object = caller[c].object /\ old = wallet[id]
  OBVIOUS
<1>2. /\ id \in Ids /\ object \in Content /\ object # Gone /\ caller[c].pc = "tags"
      /\ old \in Content /\ old # Gone
  <2>1. caller[c].pc = "tags"
    BY DEF UpdateWalletRecordTags
  <2>2. id \in Ids /\ object \in Content /\ object # Gone
    BY <1>1, <2>1, HeldTyped
  <2>3. old # Gone
    BY <1>1, <2>1 DEF Solo, HolderFits
  <2> QED BY <1>1, <2>1, <2>2, <2>3 DEF StoreInv, TypeOK
<1>3. /\ wallet' = [wallet EXCEPT ![id] = Tagged(@, object)]
      /\ Hold(c, id, object, "same")
      /\ UNCHANGED <<adding, version>>
  BY <1>1, <1>2, Zenon DEF UpdateWalletRecordTags, Strikes, Quiet, End
<1>4. Tagged(old, object) = object
  BY <1>1, <1>2, TaggedIs DEF Solo, HolderFits
<1>5. wallet'[id] = object /\ \A i \in Ids : i # id => wallet'[i] = wallet[i]
  BY <1>1, <1>2, <1>3, <1>4 DEF StoreInv, TypeOK
<1>6. /\ caller'[c].pc = "holds" /\ caller'[c].id = id
      /\ caller'[c].object = object /\ caller'[c].state = "same"
      /\ \A d \in Callers : d # c => caller'[d] = caller[d]
  BY <1>2, <1>3, HoldIs DEF StoreInv
<1>7. HolderFits(c)'
  BY <1>5, <1>6 DEF HolderFits, Holds, Stores
<1>8. version' \in Nat /\ version' >= version /\ object.value <= version'
  BY <1>1, <1>2, <1>3 DEF StoreInv, TypeOK, Versions, Solo, ByVersion
<1>9. \A d \in Callers : d # c => caller[d].id # id
  BY <1>1, <1>2, GoneAssumption DEF Solo, OneHolder
<1>10. Solo'
  <2>1. PICK t : caller'[c] = t
    OBVIOUS
  <2>2. /\ \A i \in Ids : i # caller[c].id => wallet'[i] = wallet[i]
        /\ \A i \in Ids : wallet'[i] # Gone =>
             wallet'[i] = wallet[i] \/ wallet'[i].value <= version'
    BY <1>1, <1>5, <1>8
  <2>3. /\ t.object = Gone => t.id = Gone
        /\ t.id # Gone => \A d \in Callers : d # c => caller[d].id # t.id
        /\ t.object # Gone => t.object.value <= version'
    BY <1>2, <1>6, <1>8, <1>9, <2>1
  <2> QED BY <1>3, <1>6, <1>7, <1>8, <2>1, <2>2, <2>3, SoloCaller
<1>11. ContentsAre /\ ContentsAre'
  BY <1>10, ContentsSeen, ContentsStaySeen
<1>12. Contents[id] = object /\ Contents'[id] = object
  BY <1>1, <1>2, <1>5, <1>6, <1>9, <1>11 DEF ContentsAre
<1>13. Contents' = [Contents EXCEPT ![id] = Contents'[id]]
  BY <1>1, <1>2, <1>5, <1>6, <1>11, MapAt
<1> QED BY <1>2, <1>10, <1>12, <1>13 DEF Contents

LEMMA DeleteMaps ==
  ASSUME StoreInv, StoreInv', Solo, happened = {}, happened' = {}, NEW c \in Callers,
         DeleteWalletRecord(c)
  PROVE  Solo' /\ (Map!Next \/ UNCHANGED Contents)
<1>1. PICK id : id = caller[c].id
  OBVIOUS
<1>2. /\ id \in Ids /\ caller[c].pc = "holds" /\ End(c)
      /\ wallet' = [wallet EXCEPT ![id] = Gone] /\ UNCHANGED <<adding, version>>
  BY <1>1, HeldTyped DEF DeleteWalletRecord, Strikes
<1>3. wallet'[id] = Gone /\ \A i \in Ids : i # id => wallet'[i] = wallet[i]
  BY <1>2 DEF StoreInv, TypeOK
<1>4. Solo'
  BY <1>1, <1>2, <1>3, SoloEnd
<1>5. ContentsAre /\ ContentsAre'
  BY <1>4, ContentsSeen, ContentsStaySeen
<1>6. caller'[c] = Idle /\ Idle.pc = "idle" /\ \A d \in Callers : d # c => caller'[d] = caller[d]
  BY <1>2, IdleFits, OneCaller DEF End, StoreInv
<1>7. \A d \in Callers : caller[d].id = id => d = c
  BY <1>1, <1>2, GoneAssumption DEF Solo, OneHolder
<1>8. Contents[id] = wallet[id] /\ Contents'[id] = Gone
  BY <1>2, <1>3, <1>5, <1>6, <1>7 DEF ContentsAre
<1>9. Contents' = [Contents EXCEPT ![id] = Gone]
  BY <1>2, <1>3, <1>5, <1>6, <1>8, MapAt
<1>10. CASE wallet[id] = Gone
  BY <1>2, <1>4, <1>8, <1>9, <1>10 DEF Contents
<1>11. CASE wallet[id] # Gone
  BY <1>2, <1>4, <1>8, <1>9, <1>11 DEF Map!Next, Map!Remove
<1> QED BY <1>10, <1>11

\* Everything else leaves the records stored as they are.
LEMMA SilentMaps ==
  ASSUME StoreInv, StoreInv', Solo, happened = {}, happened' = {}, NEW c \in Callers,
         \/ \E id \in Ids : Find(c, id) \/ \E names \in SUBSET TagNames : Make(c, id, names)
         \/ \E names \in SUBSET TagNames : Change(c, names) \/ OpenSearch(c, names)
         \/ Save(c) \/ FetchNext(c) \/ Drop(c) \/ Answer(c)
  PROVE  Solo' /\ UNCHANGED Contents
<1> DEFINE Silent ==
      Solo' /\ UNCHANGED wallet
      /\ \A d \in Callers : caller[d].pc = "tags" \/ caller'[d].pc = "tags" => caller'[d] = caller[d]
<1>1. ASSUME Drop(c) \/ Answer(c) PROVE Silent
  <2>1. /\ End(c) /\ UNCHANGED <<wallet, adding, version>> /\ caller[c].pc # "tags"
    BY <1>1 DEF Drop, Answer
  <2>2. Solo'
    BY <2>1, SoloEnd
  <2>3. caller'[c] = Idle /\ Idle.pc = "idle" /\ \A d \in Callers : d # c => caller'[d] = caller[d]
    BY <2>1, IdleFits, OneCaller DEF End, StoreInv
  <2> QED BY <2>1, <2>2, <2>3
<1>2. ASSUME FetchNext(c) \/ \E names \in SUBSET TagNames : OpenSearch(c, names)
      PROVE  Silent
  <2>1. PICK t : caller'[c] = t
    OBVIOUS
  <2>2. /\ t.pc \in {"search", "answered"} /\ t.object = Gone /\ t.id = Gone
        /\ \A d \in Callers : d # c => caller'[d] = caller[d]
    <3>1. CASE FetchNext(c)
      <4>1. caller[c].pc = "search"
        BY <3>1 DEF FetchNext
      <4>2. caller[c].id = Gone
        BY <4>1 DEF StoreInv, TypeOK, Solo, OneHolder
      <4>3. PICK x \in Working : Fetched(c, x)
        BY <3>1, FetchIs
      <4> QED BY <2>1, <4>2, <4>3, OneCaller DEF Fetched, Fitting, StoreInv
    <3>2. CASE \E names \in SUBSET TagNames : OpenSearch(c, names)
      <4>1. PICK query \in SUBSET TagNames : OpenSearch(c, query)
        BY <3>2, Zenon
      <4> DEFINE q == [Idle EXCEPT !.pc = "search", !.left = Matching(query), !.opened = Matching(query)]
      <4>2. Matching(query) \subseteq Ids /\ \A id \in Matching(query) : wallet[id] # Gone
        BY DEF Matching
      <4>3. Fitting(q) /\ q.pc = "search" /\ q.object = Gone /\ q.id = Gone
        BY <4>2 DEF Fitting, Working, Idle
      <4>4. caller' = [caller EXCEPT ![c] = q]
        BY <4>1 DEF OpenSearch
      <4> HIDE DEF q
      <4>5. TypeOK
        BY DEF StoreInv
      <4> QED BY <2>1, <4>3, <4>4, <4>5, OneCaller
    <3> QED BY <1>2, <3>1, <3>2
  <2>3. UNCHANGED <<wallet, adding, version>> /\ caller[c].pc # "tags"
    BY <1>2, Zenon DEF FetchNext, OpenSearch
  <2>4. HolderFits(c)'
    BY <2>1, <2>2 DEF HolderFits, Holds
  <2>5. version' \in Nat /\ version' >= version
    BY <2>3 DEF StoreInv, TypeOK, Versions
  <2>6. Solo'
    BY <2>1, <2>2, <2>3, <2>4, <2>5, SoloCaller
  <2> QED BY <2>1, <2>2, <2>3, <2>6
<1>3. Silent
  BY <1>1, <1>2, SoloMake, SoloChange, SoloSave, SoloFind
<1>4. ContentsAre /\ ContentsAre'
  BY <1>3, ContentsSeen, ContentsStaySeen
<1> QED BY <1>3, <1>4, SameContents

LEMMA SoloStep ==
  ASSUME StoreInv, StoreInv', SoloInv, [Next]_vars, happened' = {}
  PROVE  Solo' /\ (Map!Next \/ UNCHANGED Contents)
<1>1. happened = {} /\ Solo /\ ~Crash
  <2>1. happened \subseteq happened'
    BY DEF StoreInv, Next, vars, Quiet, Strikes, Make, Change, Drop, Save, AddWalletRecord,
           UpdateWalletRecordValue, UpdateWalletRecordTags, DeleteWalletRecord, Find, OpenSearch,
           FetchNext, Answer, Crash, Settle
  <2> QED BY <2>1 DEF SoloInv, Crash, Strikes
<1>2. CASE UNCHANGED vars
  BY <1>1, <1>2
     DEF vars, Solo, OneHolder, ByVersion, HolderFits, Holds, Stores, Builds, Contents, Pending
<1> QED BY <1>1, <1>2, AddMaps, ValueMaps, TagsMap, DeleteMaps, SilentMaps DEF Next, Settle

LEMMA SoloInit == Init => SoloInv /\ Map!Init
<1> SUFFICES ASSUME Init PROVE Solo /\ Map!Init
  BY DEF SoloInv
<1>1. Solo
  BY IdleFits DEF Init, Solo, OneHolder, ByVersion, HolderFits, Holds, Idle
<1>2. Map!Init
  BY DEF Init, Map!Init, Contents
<1> QED BY <1>1, <1>2

\* While no caller disturbs another, nothing fails and the process lives, what is
\* stored is a map whose updates are single steps that build on what is stored: though an
\* update is two writes, and saves go on while their record is already in use.
THEOREM StoreUpdatesInOneStep == Spec => UpdatesInOneStep
<1>1. StoreInv' /\ Spared(FaultKinds)' => happened' = {}
  BY DEF StoreInv, TypeOK, Spared
<1>2. StoreInv /\ SoloInv /\ [Next]_vars => SoloInv'
  <2>1. StoreInv /\ [Next]_vars => StoreInv'
    BY NextKeeps
  <2> QED BY <2>1, SoloStep DEF SoloInv
<1>3. StoreInv /\ StoreInv' /\ SoloInv /\ [Next]_vars
        => [Spared(FaultKinds)' => Map!Next]_Contents
  BY <1>1, SoloStep
<1> QED BY <1>2, <1>3, SoloInit, InitEstablishes, NextKeeps, PTL DEF Spec, UpdatesInOneStep

=============================================================================
