----------------------------- MODULE RecordMap -----------------------------
(***************************************************************************)
(* What the storage promises: a map from ids to contents, a value and its  *)
(* tags, in which an update is one step and builds on what is stored.      *)
(* Versions number the contents in the order they were made.               *)
(***************************************************************************)
EXTENDS Integers

CONSTANTS Ids, TagNames, Versions, Gone

VARIABLE content   \* for each id, its content or Gone

Init == content = [id \in Ids |-> Gone]

Content(v, tags) == [value |-> v, tags |-> tags]

Add(id, v, tags) ==
  /\ content[id] = Gone
  /\ content' = [content EXCEPT ![id] = Content(v, tags)]

\* The value is a newer one, and each tag is as it was or new too.
Replace(id, v, names) ==
  /\ content[id] # Gone
  /\ v > content[id].value
  /\ content' = [content EXCEPT ![id] =
       Content(v, [n \in TagNames |-> IF n \in names THEN v ELSE @.tags[n]])]

Remove(id) ==
  /\ content[id] # Gone
  /\ content' = [content EXCEPT ![id] = Gone]

Next ==
  \E id \in Ids :
    \/ \E v \in Versions, tags \in [TagNames -> Versions] : Add(id, v, tags)
    \/ \E v \in Versions, names \in SUBSET TagNames : Replace(id, v, names)
    \/ Remove(id)

Spec == Init /\ [][Next]_content
=============================================================================
