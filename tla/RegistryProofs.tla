--------------------------- MODULE RegistryProofs ---------------------------
(***************************************************************************)
(* Proofs about the replay-boundary registry, for every pool, every number *)
(* of groups and boundaries and every cap.                                 *)
(*                                                                         *)
(* Three invariants, each a conjunction of facts about single blocks:      *)
(*   Owned      a tag leads to a current record of its entry;              *)
(*   Accepted   a mapped block that is no tail of the image's own is       *)
(*              recorded, tagged and mapped alike;                         *)
(*   StateInv   a mapped block holds the state it is mapped under, or will *)
(*              once the model has run, and is fenced until then.          *)
(* All that matters of a drop is that it takes a record, its tag and its   *)
(* mapping together; which entries the cap drops does not, but for         *)
(* CaptureSurvives: the entry being recorded is never among them.          *)
(***************************************************************************)
EXTENDS OpenRegistry, TLAPS

RecordSet == [group: Group, epoch: Nat] \cup {None}
TagSet == [epoch: Nat, key: Key] \cup {None}
CaptureSet == [key: Key, left: SUBSET Group, done: SUBSET Group] \cup {None}

Types ==
  /\ recs \in [Key -> [BlockId -> RecordSet]]
  /\ tags \in [BlockId -> TagSet]
  /\ epoch \in Nat
  /\ label \in [BlockId -> Labels]
  /\ capture \in CaptureSet

\* TagsOwned and HitsAccepted of given records, tags and mappings.
Owned(rs, ts) ==
  \A b \in BlockId : ts[b] # None =>
    /\ rs[ts[b].key][b] # None
    /\ rs[ts[b].key][b].epoch = ts[b].epoch

Accepted(rs, ts, mapped, mine) ==
  \A b \in BlockId, k \in Key, g \in Group :
    mapped[b] = <<k, g>> /\ <<b, k, g>> \notin mine =>
    /\ rs[k][b] # None
    /\ rs[k][b].group = g
    /\ ts[b] = [epoch |-> rs[k][b].epoch, key |-> k]

\* The use of a running slot is the group its state is registered for.
Slots ==
  /\ use \in [BlockId -> {"free", "held"} \cup Group]
  /\ \A b \in BlockId, k \in Key, g \in Group :
       use[b] \in Group /\ label[b] = <<k, g>> => use[b] = g

RegInv ==
  /\ Types
  /\ Owned(recs, tags)
  /\ Accepted(recs, tags, label, own)

\* What is known of the state in a block before and after the model runs.
BlockInv(b) ==
  label[b] # None =>
    /\ after[b] = label[b]
    /\ b \notin due => holds[b] = label[b]
    /\ b \in due => label[b] \in fence

StateInv ==
  /\ holds \in [BlockId -> Labels]
  /\ after \in [BlockId -> Labels]
  /\ label \in [BlockId -> Labels]
  /\ \A b \in BlockId : BlockInv(b)
  /\ HitSound

IInv == RegInv /\ Slots /\ StateInv

-----------------------------------------------------------------------------
\* _drop takes the record, the tag and the mapping of a block together.
LEMMA DropKeeps ==
  ASSUME NEW ks, NEW mapped \in [BlockId -> Labels], NEW es, NEW mine,
         NEW rs \in [Key -> [BlockId -> RecordSet]], NEW ts \in [BlockId -> TagSet],
         Owned(rs, ts), Accepted(rs, ts, mapped, mine),
         Drop(ks, mapped, es, rs, ts)
  PROVE  /\ recs' \in [Key -> [BlockId -> RecordSet]]
         /\ tags' \in [BlockId -> TagSet]
         /\ label' \in [BlockId -> Labels]
         /\ Owned(recs', tags')
         /\ Accepted(recs', tags', label', mine)
         /\ \A b \in BlockId : label'[b] \in {None, mapped[b]}
<1>1. /\ recs' = [k \in Key |-> IF k \in ks THEN NoRecs ELSE rs[k]]
      /\ tags' = [b \in BlockId |-> IF Untagged(b, ks, rs, ts) THEN None ELSE ts[b]]
      /\ label' = [b \in BlockId |-> IF Unmapped(b, ks, rs, mapped) THEN None
                                     ELSE mapped[b]]
  BY DEF Drop
<1>2. NoRecs \in [BlockId -> RecordSet]
  BY DEF NoRecs, RecordSet
<1>3. recs' \in [Key -> [BlockId -> RecordSet]]
  BY <1>1, <1>2
<1>4. tags' \in [BlockId -> TagSet]
  BY <1>1 DEF TagSet
<1>5. /\ label' \in [BlockId -> Labels]
      /\ \A b \in BlockId : label'[b] \in {None, mapped[b]}
  BY <1>1 DEF Labels
<1>6. Owned(recs', tags')
  <2> SUFFICES ASSUME NEW b \in BlockId, tags'[b] # None
               PROVE  /\ recs'[tags'[b].key][b] # None
                      /\ recs'[tags'[b].key][b].epoch = tags'[b].epoch
    BY DEF Owned
  <2>1. tags'[b] = ts[b] /\ ~Untagged(b, ks, rs, ts) /\ ts[b] # None
    BY <1>1
  <2>2. ts[b] \in [epoch: Nat, key: Key]
    BY <2>1 DEF TagSet
  <2>3. rs[ts[b].key][b] # None /\ rs[ts[b].key][b].epoch = ts[b].epoch
    BY <2>1 DEF Owned
  <2>4. ts[b] = [epoch |-> rs[ts[b].key][b].epoch, key |-> ts[b].key]
    BY <2>2, <2>3
  <2>5. ts[b].key \notin ks
    BY <2>1, <2>3, <2>4 DEF Untagged
  <2>6. recs'[ts[b].key] = rs[ts[b].key]
    BY <1>1, <2>2, <2>5
  <2> QED BY <2>1, <2>3, <2>6
<1>7. Accepted(recs', tags', label', mine)
  <2> SUFFICES ASSUME NEW b \in BlockId, NEW k \in Key, NEW g \in Group,
                      label'[b] = <<k, g>>, <<b, k, g>> \notin mine
               PROVE  /\ recs'[k][b] # None
                      /\ recs'[k][b].group = g
                      /\ tags'[b] = [epoch |-> recs'[k][b].epoch, key |-> k]
    BY DEF Accepted
  <2>1. <<k, g>> # None
    BY NoneAssumption
  <2>2. mapped[b] = <<k, g>> /\ ~Unmapped(b, ks, rs, mapped)
    BY <1>1, <2>1
  <2>3. /\ rs[k][b] # None
        /\ rs[k][b].group = g
        /\ ts[b] = [epoch |-> rs[k][b].epoch, key |-> k]
    BY <2>2 DEF Accepted
  <2>4. k \notin ks
    BY <2>2, <2>3 DEF Unmapped
  <2>5. ~Untagged(b, ks, rs, ts)
    <3> SUFFICES ASSUME NEW x \in ks, ts[b] = [epoch |-> rs[x][b].epoch, key |-> x]
                 PROVE  FALSE
      BY DEF Untagged
    <3>1. x = k
      BY <2>3
    <3> QED BY <3>1, <2>4
  <2>6. recs'[k] = rs[k] /\ tags'[b] = ts[b]
    BY <1>1, <2>4, <2>5
  <2> QED BY <2>3, <2>6
<1> QED BY <1>3, <1>4, <1>5, <1>6, <1>7

\* record keeps the registry consistent, whatever the cap evicts.
LEMMA RecordKeeps ==
  ASSUME RegInv, NEW k \in Key, NEW g \in Group, NEW b \in BlockId,
         label[b] = None, Record(k, g, b)
  PROVE  /\ recs' \in [Key -> [BlockId -> RecordSet]]
         /\ tags' \in [BlockId -> TagSet]
         /\ epoch' \in Nat
         /\ label' \in [BlockId -> Labels]
         /\ Owned(recs', tags')
         /\ Accepted(recs', tags', label', OwnBut(b))
         /\ \A c \in BlockId : label'[c] \in {None, IF c = b THEN <<k, g>> ELSE label[c]}
<1> DEFINE es == MoveToEnd(k)
           rec == [group |-> g, epoch |-> epoch + 1]
           tag == [epoch |-> epoch + 1, key |-> k]
           rs == [recs EXCEPT ![k][b] = rec]
           ts == [tags EXCEPT ![b] = tag]
           mapped == [label EXCEPT ![b] = <<k, g>>]
<1>1. /\ epoch' = epoch + 1
      /\ Drop(Victims(es, k), mapped, es, rs, ts)
  BY DEF Record
<1>2. /\ rec \in [group: Group, epoch: Nat] /\ rec # None
      /\ tag \in [epoch: Nat, key: Key] /\ tag # None
      /\ <<k, g>> \in Key \X Group
  BY NoneAssumption DEF RegInv, Types
<1>3. rs \in [Key -> [BlockId -> RecordSet]]
  BY <1>2 DEF RegInv, Types, RecordSet
<1>4. ts \in [BlockId -> TagSet]
  BY <1>2 DEF RegInv, Types, TagSet
<1>5. mapped \in [BlockId -> Labels]
  BY <1>2 DEF RegInv, Types, Labels
<1>6. Owned(rs, ts)
  <2> SUFFICES ASSUME NEW c \in BlockId, ts[c] # None
               PROVE  rs[ts[c].key][c] # None /\ rs[ts[c].key][c].epoch = ts[c].epoch
    BY DEF Owned
  <2>1. CASE c = b
    <3>1. ts[c] = tag /\ rs[k][c] = rec
      BY <2>1 DEF RegInv, Types
    <3> QED BY <3>1, <1>2
  <2>2. CASE c # b
    <3>1. ts[c] = tags[c]
      BY <2>2 DEF RegInv, Types
    <3>2. tags[c] \in [epoch: Nat, key: Key]
      BY <3>1 DEF RegInv, Types, TagSet
    <3>3. rs[tags[c].key][c] = recs[tags[c].key][c]
      BY <2>2, <3>2 DEF RegInv, Types
    <3> QED BY <3>1, <3>3 DEF RegInv, Owned
  <2> QED BY <2>1, <2>2
<1>7. Accepted(rs, ts, mapped, OwnBut(b))
  <2> SUFFICES ASSUME NEW c \in BlockId, NEW x \in Key, NEW y \in Group,
                      mapped[c] = <<x, y>>, <<c, x, y>> \notin OwnBut(b)
               PROVE  /\ rs[x][c] # None
                      /\ rs[x][c].group = y
                      /\ ts[c] = [epoch |-> rs[x][c].epoch, key |-> x]
    BY DEF Accepted
  <2>1. CASE c = b
    <3>1. x = k /\ y = g
      BY <2>1 DEF RegInv, Types
    <3>2. ts[c] = tag /\ rs[x][c] = rec
      BY <2>1, <3>1 DEF RegInv, Types
    <3> QED BY <3>1, <3>2, <1>2
  <2>2. CASE c # b
    <3>1. label[c] = <<x, y>> /\ ts[c] = tags[c] /\ rs[x][c] = recs[x][c]
      BY <2>2 DEF RegInv, Types
    <3>2. <<c, x, y>> \notin own
      BY <2>2 DEF OwnBut
    <3> QED BY <3>1, <3>2 DEF RegInv, Accepted
  <2> QED BY <2>1, <2>2
<1> HIDE DEF es, rs, ts, mapped
<1>8. /\ recs' \in [Key -> [BlockId -> RecordSet]]
      /\ tags' \in [BlockId -> TagSet]
      /\ label' \in [BlockId -> Labels]
      /\ Owned(recs', tags')
      /\ Accepted(recs', tags', label', OwnBut(b))
      /\ \A c \in BlockId : label'[c] \in {None, mapped[c]}
  BY <1>1, <1>3, <1>4, <1>5, <1>6, <1>7, DropKeeps
<1>9. \A c \in BlockId : mapped[c] = IF c = b THEN <<k, g>> ELSE label[c]
  BY DEF mapped, RegInv, Types
<1>10. epoch' \in Nat
  BY <1>1 DEF RegInv, Types
<1> QED BY <1>8, <1>9, <1>10

-----------------------------------------------------------------------------
LEMMA NoneNoLabel == \A k \in Key, g \in Group : <<k, g>> # None
BY NoneAssumption

LEMMA InitIInv == Init => IInv
<1> SUFFICES ASSUME Init PROVE IInv
  OBVIOUS
<1>1. Types
  BY DEF Init, RegistryInit, Types, NoRecs, RecordSet, TagSet, Labels, CaptureSet
<1>2. Owned(recs, tags)
  BY DEF Init, RegistryInit, Owned
<1>3. \A b \in BlockId, k \in Key, g \in Group : label[b] # <<k, g>>
  BY NoneAssumption DEF Init
<1>4. Slots
  BY <1>3 DEF Init, Slots
<1>5. StateInv
  BY DEF Init, StateInv, BlockInv, HitSound, Labels
<1> QED BY <1>1, <1>2, <1>3, <1>4, <1>5 DEF IInv, RegInv, Accepted

\* get_new_blocks evicts without the registry.
LEMMA AllocIInv ==
  ASSUME IInv, NEW b \in BlockId, Alloc(b)
  PROVE  IInv'
<1>1. /\ UNCHANGED <<recs, tags, epoch, holds, fence, due, hits, capture>>
      /\ label' = [label EXCEPT ![b] = None]
      /\ use' = [use EXCEPT ![b] = "held"]
      /\ after' = [after EXCEPT ![b] = None]
      /\ own' = OwnBut(b)
  BY DEF Alloc, registryVars
<1>2. Types'
  BY <1>1 DEF IInv, RegInv, Types, Labels
<1>3. \A c \in BlockId, k \in Key, g \in Group :
        label'[c] = <<k, g>> => label[c] = <<k, g>> /\ c # b
  <2>1. \A c \in BlockId : label'[c] = IF c = b THEN None ELSE label[c]
    BY <1>1 DEF IInv, RegInv, Types
  <2> QED BY <2>1, NoneNoLabel
<1>4. Owned(recs, tags)'
  BY <1>1 DEF IInv, RegInv, Owned
<1>5. Accepted(recs, tags, label, own)'
  <2>1. \A c \in BlockId, k \in Key, g \in Group :
          c # b /\ <<c, k, g>> \notin own' => <<c, k, g>> \notin own
    BY <1>1 DEF OwnBut
  <2> QED BY <2>1, <1>1, <1>3 DEF IInv, RegInv, Accepted
<1>6. Slots'
  BY <1>1, <1>3, UseAssumption DEF IInv, Slots
<1>7. StateInv'
  BY <1>1 DEF IInv, StateInv, BlockInv, HitSound, Labels
<1> QED BY <1>2, <1>4, <1>5, <1>6, <1>7 DEF IInv, RegInv

LEMMA ReleaseIInv ==
  ASSUME IInv, NEW b \in BlockId, Release(b)
  PROVE  IInv'
<1>1. /\ UNCHANGED <<recs, tags, epoch, label, holds, after, fence, due, hits, capture, own>>
      /\ use' = [use EXCEPT ![b] = "free"]
  BY DEF Release, registryVars
<1>2. RegInv'
  BY <1>1 DEF IInv, RegInv, Types, Owned, Accepted
<1>3. Slots'
  BY <1>1, UseAssumption DEF IInv, Slots
<1>4. StateInv'
  BY <1>1 DEF IInv, StateInv, BlockInv, HitSound
<1> QED BY <1>2, <1>3, <1>4 DEF IInv

\* A capture begins or ends.
LEMMA CaptureIInv ==
  ASSUME IInv, (\E k \in Key : Capture(k)) \/ CaptureEnd
  PROVE  IInv'
<1>1. /\ UNCHANGED <<recs, tags, epoch, label, use, holds, after, fence, due, hits, own>>
      /\ capture' \in CaptureSet
  BY DEF Capture, CaptureEnd, registryVars, CaptureSet
<1>2. RegInv'
  BY <1>1 DEF IInv, RegInv, Types, Owned, Accepted
<1>3. Slots'
  BY <1>1 DEF IInv, Slots
<1>4. StateInv'
  BY <1>1 DEF IInv, StateInv, BlockInv, HitSound
<1> QED BY <1>2, <1>3, <1>4 DEF IInv

\* One group registers and records its block.
LEMMA CaptureGroupIInv ==
  ASSUME IInv, NEW g \in Group, NEW b \in BlockId, NEW chunkEnd \in BOOLEAN,
         CaptureGroup(g, b, chunkEnd)
  PROVE  IInv'
<1> DEFINE k == capture.key
<1>1. /\ capture # None /\ label[b] = None /\ Record(k, g, b)
      /\ use' = [use EXCEPT ![b] = IF chunkEnd THEN g ELSE "held"]
      /\ after' = [after EXCEPT ![b] = <<k, g>>]
      /\ fence' = fence \cup {<<k, g>>}
      /\ due' = due \cup {b}
      /\ own' = OwnBut(b)
      /\ UNCHANGED <<holds, hits>>
  BY DEF CaptureGroup
<1>2. capture \in [key: Key, left: SUBSET Group, done: SUBSET Group] /\ k \in Key
  BY <1>1 DEF IInv, RegInv, Types, CaptureSet
<1>3. capture' \in CaptureSet
  BY <1>2 DEF CaptureSet, CaptureGroup
<1> HIDE DEF k
<1>4. /\ recs' \in [Key -> [BlockId -> RecordSet]]
      /\ tags' \in [BlockId -> TagSet]
      /\ epoch' \in Nat
      /\ label' \in [BlockId -> Labels]
      /\ Owned(recs', tags')
      /\ Accepted(recs', tags', label', OwnBut(b))
      /\ \A c \in BlockId : label'[c] \in {None, IF c = b THEN <<k, g>> ELSE label[c]}
  BY <1>1, <1>2, RecordKeeps DEF IInv
<1>5. RegInv'
  BY <1>1, <1>3, <1>4 DEF RegInv, Types
<1>6. Slots'
  <2>1. use' \in [BlockId -> {"free", "held"} \cup Group]
    BY <1>1 DEF IInv, Slots
  <2>2. ASSUME NEW c \in BlockId, NEW x \in Key, NEW y \in Group,
               use'[c] \in Group, label'[c] = <<x, y>>
        PROVE  use'[c] = y
    <3>1. <<x, y>> # None
      BY NoneAssumption
    <3>2. CASE c = b
      <4>1. label'[c] \in {None, <<k, g>>}
        BY <3>2, <1>4
      <4>2. y = g
        BY <3>1, <4>1, <2>2
      <4>3. use'[c] = g
        BY <3>2, <2>2, <1>1, UseAssumption DEF IInv, Slots
      <4> QED BY <4>2, <4>3
    <3>3. CASE c # b
      BY <3>1, <3>3, <2>2, <1>1, <1>4 DEF IInv, Slots
    <3> QED BY <3>2, <3>3
  <2> QED BY <2>1, <2>2 DEF Slots
<1>7. StateInv'
  <2>1. /\ holds' \in [BlockId -> Labels] /\ label' \in [BlockId -> Labels]
        /\ after' \in [BlockId -> Labels] /\ HitSound'
    BY <1>1, <1>2, <1>4 DEF IInv, StateInv, HitSound, Labels
  <2>2. ASSUME NEW c \in BlockId PROVE BlockInv(c)'
    <3>1. CASE c = b
      BY <3>1, <1>1, <1>4 DEF BlockInv, IInv, StateInv
    <3>2. CASE c # b
      BY <3>2, <1>1, <1>4 DEF BlockInv, IInv, StateInv
    <3> QED BY <3>1, <3>2
  <2> QED BY <2>1, <2>2 DEF StateInv
<1> QED BY <1>5, <1>6, <1>7 DEF IInv

\* A native tail is registered without the registry: Accepted claims nothing
\* of it.
LEMMA CaptureNativeIInv ==
  ASSUME IInv, NEW k \in Key, NEW g \in Group, NEW b \in BlockId,
         CaptureNative(k, g, b)
  PROVE  IInv'
<1>1. /\ UNCHANGED <<recs, tags, epoch, holds, hits, capture>>
      /\ label' = [label EXCEPT ![b] = <<k, g>>]
      /\ use' = [use EXCEPT ![b] = g]
      /\ after' = [after EXCEPT ![b] = <<k, g>>]
      /\ fence' = fence \cup {<<k, g>>}
      /\ due' = due \cup {b}
      /\ own' = own \cup {<<b, k, g>>}
  BY DEF CaptureNative, registryVars
<1>2. <<k, g>> \in Labels
  BY DEF Labels
<1>3. Types'
  BY <1>1, <1>2 DEF IInv, RegInv, Types
<1>4. Owned(recs, tags)'
  BY <1>1 DEF IInv, RegInv, Owned
<1>5. \A c \in BlockId : label'[c] = IF c = b THEN <<k, g>> ELSE label[c]
  BY <1>1 DEF IInv, RegInv, Types
<1>6. RegInv'
  <2> SUFFICES ASSUME NEW c \in BlockId, NEW x \in Key, NEW y \in Group,
                      label'[c] = <<x, y>>, <<c, x, y>> \notin own'
               PROVE  label[c] = <<x, y>> /\ <<c, x, y>> \notin own
    BY <1>1, <1>3, <1>4 DEF IInv, RegInv, Accepted
  <2>1. c # b
    <3> SUFFICES ASSUME c = b PROVE FALSE
      OBVIOUS
    <3>1. x = k /\ y = g
      BY <1>5
    <3> QED BY <3>1, <1>1
  <2> QED BY <2>1, <1>1, <1>5
<1>7. Slots'
  <2>1. use' \in [BlockId -> {"free", "held"} \cup Group]
    BY <1>1 DEF IInv, Slots
  <2>2. ASSUME NEW c \in BlockId, NEW x \in Key, NEW y \in Group,
               use'[c] \in Group, label'[c] = <<x, y>>
        PROVE  use'[c] = y
    <3>1. CASE c = b
      BY <3>1, <2>2, <1>1, <1>5 DEF IInv, Slots
    <3>2. CASE c # b
      BY <3>2, <2>2, <1>1, <1>5 DEF IInv, Slots
    <3> QED BY <3>1, <3>2
  <2> QED BY <2>1, <2>2 DEF Slots
<1>8. StateInv'
  <2>1. /\ holds' \in [BlockId -> Labels] /\ label' \in [BlockId -> Labels]
        /\ after' \in [BlockId -> Labels] /\ HitSound'
    BY <1>1, <1>2 DEF IInv, StateInv, HitSound
  <2>2. ASSUME NEW c \in BlockId PROVE BlockInv(c)'
    <3>1. CASE c = b
      BY <3>1, <1>1, <1>5 DEF BlockInv, IInv, StateInv
    <3>2. CASE c # b
      BY <3>2, <1>1, <1>5 DEF BlockInv, IInv, StateInv
    <3> QED BY <3>1, <3>2
  <2> QED BY <2>1, <2>2 DEF StateInv
<1> QED BY <1>6, <1>7, <1>8 DEF IInv

\* moved carries record and tag along with the mapping.
LEMMA MovedKeeps ==
  ASSUME RegInv, Slots, NEW src \in BlockId, NEW dst \in BlockId, src # dst,
         use[src] \in Group, Moved(src, dst, use[src]),
         label' = [label EXCEPT ![src] = None, ![dst] = label[src]],
         own' = {IF o[1] = src THEN <<dst, o[2], o[3]>> ELSE o : o \in OwnBut(dst)}
  PROVE  /\ recs' \in [Key -> [BlockId -> RecordSet]]
         /\ tags' \in [BlockId -> TagSet]
         /\ UNCHANGED epoch
         /\ Owned(recs', tags')
         /\ Accepted(recs', tags', label', own')
<1>1. \A c \in BlockId : label'[c] = IF c = dst THEN label[src]
                                     ELSE IF c = src THEN None ELSE label[c]
  BY DEF RegInv, Types
<1>2. ASSUME NEW c \in BlockId, NEW x \in Key, NEW y \in Group, <<c, x, y>> \notin own'
      PROVE  /\ c = dst => <<src, x, y>> \notin own
             /\ c # src /\ c # dst => <<c, x, y>> \notin own
  <2> DEFINE to(o) == IF o[1] = src THEN <<dst, o[2], o[3]>> ELSE o
  <2>1. \A o \in OwnBut(dst) : to(o) \in own'
    OBVIOUS
  <2>2. ASSUME c = dst, <<src, x, y>> \in own PROVE FALSE
    <3>1. <<src, x, y>> \in OwnBut(dst) /\ to(<<src, x, y>>) = <<dst, x, y>>
      BY <2>2 DEF OwnBut
    <3> HIDE DEF to
    <3>2. <<dst, x, y>> \in own'
      BY <3>1, <2>1
    <3> QED BY <3>2, <2>2, <1>2
  <2>3. ASSUME c # src, c # dst, <<c, x, y>> \in own PROVE FALSE
    <3>1. <<c, x, y>> \in OwnBut(dst) /\ to(<<c, x, y>>) = <<c, x, y>>
      BY <2>3 DEF OwnBut
    <3> HIDE DEF to
    <3>2. <<c, x, y>> \in own'
      BY <3>1, <2>1
    <3> QED BY <3>2, <1>2
  <2> QED BY <2>2, <2>3
<1>3. ASSUME NEW x \in Key, NEW y \in Group, label[src] = <<x, y>>,
             <<src, x, y>> \notin own
      PROVE  Follows(src, use[src]) /\ tags[src].key = x
  <2>1. /\ recs[x][src] # None
        /\ recs[x][src].group = y
        /\ tags[src] = [epoch |-> recs[x][src].epoch, key |-> x]
    BY <1>3 DEF RegInv, Accepted
  <2>2. use[src] = y
    BY <1>3 DEF Slots
  <2>3. recs[x][src] \in [group: Group, epoch: Nat]
    BY <2>1 DEF RegInv, Types, RecordSet
  <2>4. tags[src] # None
    BY <2>1, <2>3, NoneAssumption
  <2> QED BY <2>1, <2>2, <2>4 DEF Follows
<1>4. CASE ~Follows(src, use[src])
  <2>1. UNCHANGED <<recs, tags, epoch>>
    BY <1>4 DEF Moved, registryVars
  <2>2. Accepted(recs', tags', label', own')
    <3> SUFFICES ASSUME NEW c \in BlockId, NEW x \in Key, NEW y \in Group,
                        label'[c] = <<x, y>>, <<c, x, y>> \notin own'
                 PROVE  /\ recs'[x][c] # None
                        /\ recs'[x][c].group = y
                        /\ tags'[c] = [epoch |-> recs'[x][c].epoch, key |-> x]
      BY DEF Accepted
    <3>1. c # dst
      BY <1>1, <1>3, <1>4, <1>2
    <3>2. c # src /\ label[c] = <<x, y>>
      BY <3>1, <1>1, NoneNoLabel
    <3>3. <<c, x, y>> \notin own
      BY <3>1, <3>2, <1>2
    <3> QED BY <3>2, <3>3, <2>1 DEF RegInv, Accepted
  <2> QED BY <2>1, <2>2 DEF RegInv, Types
<1>5. CASE Follows(src, use[src])
  <2> DEFINE k == tags[src].key
             rec == recs[k][src]
  <2>1. /\ tags[src] # None /\ rec # None
        /\ rec.group = use[src] /\ rec.epoch = tags[src].epoch
    BY <1>5 DEF Follows
  <2>2. /\ recs' = [recs EXCEPT ![k][src] = None, ![k][dst] = rec]
        /\ tags' = [tags EXCEPT ![src] = None, ![dst] = tags[src]]
        /\ UNCHANGED epoch
    BY <1>5 DEF Moved
  <2>3. tags[src] \in [epoch: Nat, key: Key] /\ k \in Key
    BY <2>1 DEF RegInv, Types, TagSet
  <2>4. rec \in RecordSet /\ None \in RecordSet
    BY <2>3 DEF RegInv, Types, RecordSet
  <2> HIDE DEF k, rec
  <2>5. recs' \in [Key -> [BlockId -> RecordSet]]
    BY <2>2, <2>3, <2>4 DEF RegInv, Types
  <2>6. tags' \in [BlockId -> TagSet]
    BY <2>2 DEF RegInv, Types, TagSet
  <2>7. \A c \in BlockId : tags'[c] = IF c = dst THEN tags[src]
                                      ELSE IF c = src THEN None ELSE tags[c]
    BY <2>2 DEF RegInv, Types
  <2>8. /\ recs'[k][dst] = rec
        /\ \A x \in Key, c \in BlockId : c # src /\ c # dst => recs'[x][c] = recs[x][c]
    BY <2>2, <2>3 DEF RegInv, Types
  <2>9. Owned(recs', tags')
    <3> SUFFICES ASSUME NEW c \in BlockId, tags'[c] # None
                 PROVE  /\ recs'[tags'[c].key][c] # None
                        /\ recs'[tags'[c].key][c].epoch = tags'[c].epoch
      BY DEF Owned
    <3>1. CASE c = dst
      <4>1. tags'[c] = tags[src] /\ tags'[c].key = k /\ recs'[k][c] = rec
        BY <3>1, <2>7, <2>8 DEF k
      <4> QED BY <4>1, <2>1
    <3>2. CASE c # dst
      <4>1. c # src /\ tags'[c] = tags[c]
        BY <3>2, <2>7
      <4>2. tags[c].key \in Key
        BY <4>1 DEF RegInv, Types, TagSet
      <4>3. recs'[tags[c].key][c] = recs[tags[c].key][c]
        BY <4>1, <4>2, <3>2, <2>8
      <4> QED BY <4>1, <4>3 DEF RegInv, Owned
    <3> QED BY <3>1, <3>2
  <2>10. Accepted(recs', tags', label', own')
    <3> SUFFICES ASSUME NEW c \in BlockId, NEW x \in Key, NEW y \in Group,
                        label'[c] = <<x, y>>, <<c, x, y>> \notin own'
                 PROVE  /\ recs'[x][c] # None
                        /\ recs'[x][c].group = y
                        /\ tags'[c] = [epoch |-> recs'[x][c].epoch, key |-> x]
      BY DEF Accepted
    <3>1. CASE c = dst
      <4>1. label[src] = <<x, y>> /\ <<src, x, y>> \notin own
        BY <3>1, <1>1, <1>2
      <4>2. k = x
        BY <4>1, <1>3 DEF k
      <4>3. recs'[x][c] = recs[x][src] /\ tags'[c] = tags[src]
        BY <4>2, <3>1, <2>7, <2>8 DEF rec
      <4>4. /\ recs[x][src] # None
            /\ recs[x][src].group = y
            /\ tags[src] = [epoch |-> recs[x][src].epoch, key |-> x]
        BY <4>1 DEF RegInv, Accepted
      <4> QED BY <4>3, <4>4
    <3>2. CASE c # dst
      <4>1. c # src /\ label[c] = <<x, y>>
        BY <3>2, <1>1, NoneNoLabel
      <4>2. <<c, x, y>> \notin own
        BY <3>2, <4>1, <1>2
      <4>3. recs'[x][c] = recs[x][c] /\ tags'[c] = tags[c]
        BY <4>1, <3>2, <2>7, <2>8
      <4>4. /\ recs[x][c] # None
            /\ recs[x][c].group = y
            /\ tags[c] = [epoch |-> recs[x][c].epoch, key |-> x]
        BY <4>1, <4>2 DEF RegInv, Accepted
      <4> QED BY <4>3, <4>4
    <3> QED BY <3>1, <3>2
  <2> QED BY <2>2, <2>5, <2>6, <2>9, <2>10
<1> QED BY <1>4, <1>5

\* Copy-on-write: the copy fills dst when the model runs; until then the hash
\* is fenced.
LEMMA CopyOnWriteIInv ==
  ASSUME IInv, NEW src \in BlockId, NEW dst \in BlockId, CopyOnWrite(src, dst)
  PROVE  IInv'
<1>1. /\ use[src] \in Group /\ src \notin due /\ use[dst] = "free"
      /\ use' = [use EXCEPT ![src] = "held"]
      /\ label' = [label EXCEPT ![src] = None, ![dst] = label[src]]
      /\ after' = [after EXCEPT ![src] = None, ![dst] = holds[src]]
      /\ fence' = fence \cup ({label[src]} \ {None})
      /\ due' = due \cup {dst}
      /\ Moved(src, dst, use[src])
      /\ own' = {IF o[1] = src THEN <<dst, o[2], o[3]>> ELSE o : o \in OwnBut(dst)}
      /\ UNCHANGED <<holds, hits, capture>>
  BY DEF CopyOnWrite
<1>2. src # dst
  BY <1>1, UseAssumption
<1>3. /\ recs' \in [Key -> [BlockId -> RecordSet]]
      /\ tags' \in [BlockId -> TagSet]
      /\ UNCHANGED epoch
      /\ Owned(recs', tags')
      /\ Accepted(recs', tags', label', own')
  BY <1>1, <1>2, MovedKeeps DEF IInv
<1>4. label' \in [BlockId -> Labels]
  BY <1>1 DEF IInv, StateInv, Labels
<1>5. RegInv'
  BY <1>1, <1>3, <1>4 DEF IInv, RegInv, Types
<1>6. \A c \in BlockId : label'[c] = IF c = dst THEN label[src]
                                     ELSE IF c = src THEN None ELSE label[c]
  BY <1>1, <1>2 DEF IInv, StateInv
<1>7. Slots'
  <2>1. use' \in [BlockId -> {"free", "held"} \cup Group]
    BY <1>1 DEF IInv, Slots
  <2>2. ASSUME NEW c \in BlockId, NEW x \in Key, NEW y \in Group,
               use'[c] \in Group, label'[c] = <<x, y>>
        PROVE  use'[c] = y
    <3>1. c # src /\ c # dst
      BY <2>2, <1>1, <1>2, UseAssumption DEF IInv, Slots
    <3>2. use'[c] = use[c] /\ label[c] = <<x, y>>
      BY <3>1, <2>2, <1>1, <1>6 DEF IInv, Slots
    <3> QED BY <3>2, <2>2 DEF IInv, Slots
  <2> QED BY <2>1, <2>2 DEF Slots
<1>8. StateInv'
  <2>1. /\ holds' \in [BlockId -> Labels] /\ HitSound'
    BY <1>1 DEF IInv, StateInv, HitSound
  <2>2. after' \in [BlockId -> Labels]
    BY <1>1 DEF IInv, StateInv, Labels
  <2>3. \A c \in BlockId : after'[c] = IF c = dst THEN holds[src]
                                       ELSE IF c = src THEN None ELSE after[c]
    BY <1>1, <1>2 DEF IInv, StateInv
  <2>4. ASSUME NEW c \in BlockId PROVE BlockInv(c)'
    <3>1. CASE c = dst
      <4>1. label[src] # None => holds[src] = label[src]
        BY <1>1 DEF IInv, StateInv, BlockInv
      <4>2. label'[c] = label[src] /\ after'[c] = holds[src] /\ c \in due'
        BY <3>1, <2>3, <1>1, <1>6
      <4>3. label[src] # None => label[src] \in fence'
        BY <1>1
      <4> QED BY <4>1, <4>2, <4>3 DEF BlockInv
    <3>2. CASE c # dst
      BY <3>2, <2>3, <1>1, <1>6 DEF BlockInv, IInv, StateInv
    <3> QED BY <3>1, <3>2
  <2> QED BY <2>1, <2>2, <2>4, <1>4 DEF StateInv
<1> QED BY <1>5, <1>7, <1>8 DEF IInv

\* A lookup: an accepted hash that is not of this step is of a block whose
\* state has been written.
LEMMA LookupIInv ==
  ASSUME IInv, NEW k \in Key, NEW pick \in [Group -> BlockId], NEW fits \in BOOLEAN,
         Lookup(k, pick, fits)
  PROVE  IInv'
<1> DEFINE used == IF Admits(k, pick) /\ Usable(k) /\ fits THEN Group ELSE {}
<1>1. /\ \A g \in Group : label[pick[g]] = <<k, g>>
      /\ Admit(k, pick)
      /\ hits' = hits \cup {<<pick[g], k, g>> : g \in used}
      /\ UNCHANGED <<use, holds, after, fence, due, capture, own>>
  BY DEF Lookup
<1>2. /\ RegInv'
      /\ label' \in [BlockId -> Labels]
      /\ \A c \in BlockId : label'[c] \in {None, label[c]}
  <2>1. CASE Admits(k, pick)
    <3>1. UNCHANGED <<recs, tags, epoch, label>>
      BY <2>1, <1>1 DEF Admit
    <3> QED BY <3>1, <1>1 DEF IInv, RegInv, Types, Owned, Accepted
  <2>2. CASE ~Admits(k, pick)
    <3>1. Drop({k}, label, entries, recs, tags) /\ UNCHANGED epoch
      BY <2>2, <1>1 DEF Admit
    <3>2. /\ recs' \in [Key -> [BlockId -> RecordSet]]
          /\ tags' \in [BlockId -> TagSet]
          /\ label' \in [BlockId -> Labels]
          /\ Owned(recs', tags')
          /\ Accepted(recs', tags', label', own)
          /\ \A c \in BlockId : label'[c] \in {None, label[c]}
      BY <3>1, DropKeeps DEF IInv, RegInv, Types
    <3> QED BY <3>1, <3>2, <1>1 DEF IInv, RegInv, Types
  <2> QED BY <2>1, <2>2
<1>3. Slots'
  <2>1. \A c \in BlockId, x \in Key, y \in Group :
          label'[c] = <<x, y>> => label[c] = <<x, y>>
    BY <1>2, NoneNoLabel
  <2> QED BY <2>1, <1>1 DEF IInv, Slots
<1>4. \A g \in used : holds[pick[g]] = <<k, g>>
  <2> SUFFICES ASSUME Usable(k), NEW g \in Group
               PROVE  holds[pick[g]] = <<k, g>>
    OBVIOUS
  <2>1. pick[g] \in BlockId /\ label[pick[g]] = <<k, g>> /\ <<k, g>> # None
    BY <1>1, NoneNoLabel
  <2>2. <<k, g>> \notin fence
    BY DEF Usable
  <2> QED BY <2>1, <2>2 DEF IInv, StateInv, BlockInv
<1>5. HitSound'
  <2> SUFFICES ASSUME NEW h \in hits' PROVE holds[h[1]] = <<h[2], h[3]>>
    BY <1>1 DEF HitSound
  <2>1. CASE h \in hits
    BY <2>1 DEF IInv, StateInv, HitSound
  <2>2. CASE h \notin hits
    <3>1. PICK g \in used : h = <<pick[g], k, g>>
      BY <2>2, <1>1
    <3> QED BY <3>1, <1>4
  <2> QED BY <2>1, <2>2
<1>6. StateInv'
  BY <1>1, <1>2, <1>5 DEF IInv, StateInv, BlockInv
<1> QED BY <1>2, <1>3, <1>6 DEF IInv

\* The model runs: what was registered in this step is written.
LEMMA RunModelIInv ==
  ASSUME IInv, RunModel
  PROVE  IInv'
<1>1. /\ UNCHANGED <<recs, tags, epoch, label, use, after, capture, own>>
      /\ holds' = after /\ due' = {} /\ hits' = {}
  BY DEF RunModel, registryVars
<1>2. RegInv'
  BY <1>1 DEF IInv, RegInv, Types, Owned, Accepted
<1>3. Slots'
  BY <1>1 DEF IInv, Slots
<1>4. StateInv'
  BY <1>1 DEF IInv, StateInv, BlockInv, HitSound
<1> QED BY <1>2, <1>3, <1>4 DEF IInv

\* clear takes every tag, because every tag is owned.
LEMMA ResetIInv ==
  ASSUME IInv, Reset
  PROVE  IInv'
<1>1. /\ label' = [b \in BlockId |-> None]
      /\ recs' = [k \in Key |-> NoRecs]
      /\ tags' = [b \in BlockId |-> IF Untagged(b, Key, recs, tags) THEN None ELSE tags[b]]
      /\ UNCHANGED <<epoch, use, holds, after, fence, due, hits, capture>>
  BY DEF Reset, Clear
<1>2. ASSUME NEW b \in BlockId PROVE tags'[b] = None
  <2> SUFFICES ASSUME tags[b] # None PROVE Untagged(b, Key, recs, tags)
    BY <1>1
  <2>1. tags[b] \in [epoch: Nat, key: Key]
    BY DEF IInv, RegInv, Types, TagSet
  <2>2. /\ recs[tags[b].key][b] # None
        /\ recs[tags[b].key][b].epoch = tags[b].epoch
    BY DEF IInv, RegInv, Owned
  <2>3. tags[b] = [epoch |-> recs[tags[b].key][b].epoch, key |-> tags[b].key]
    BY <2>1, <2>2
  <2> QED BY <2>1, <2>2, <2>3 DEF Untagged
<1>3. tags' \in [BlockId -> TagSet]
  BY <1>1 DEF IInv, RegInv, Types, TagSet
<1>4. recs' \in [Key -> [BlockId -> RecordSet]] /\ label' \in [BlockId -> Labels]
  BY <1>1 DEF NoRecs, RecordSet, Labels
<1>5. \A b \in BlockId, k \in Key, g \in Group : label'[b] # <<k, g>>
  BY <1>1, NoneNoLabel
<1>6. RegInv'
  BY <1>1, <1>2, <1>3, <1>4, <1>5 DEF IInv, RegInv, Types, Owned, Accepted
<1>7. Slots'
  BY <1>1, <1>5 DEF IInv, Slots
<1>8. StateInv'
  BY <1>1, <1>4 DEF IInv, StateInv, BlockInv, HitSound
<1> QED BY <1>6, <1>7, <1>8 DEF IInv

-----------------------------------------------------------------------------
\* The inductive invariant of the registry over the pool.
LEMMA RegistryInv == Spec => []IInv
<1>1. IInv /\ [Next]_vars => IInv'
  <2> SUFFICES ASSUME IInv, [Next]_vars PROVE IInv'
    OBVIOUS
  <2>1. ASSUME NEW b \in BlockId, Alloc(b) \/ Release(b) PROVE IInv'
    BY <2>1, AllocIInv, ReleaseIInv
  <2>2. ASSUME (\E k \in Key : Capture(k)) \/ CaptureEnd PROVE IInv'
    BY <2>2, CaptureIInv
  <2>3. ASSUME NEW g \in Group, NEW b \in BlockId, NEW chunkEnd \in BOOLEAN,
               CaptureGroup(g, b, chunkEnd)
        PROVE  IInv'
    BY <2>3, CaptureGroupIInv
  <2>4. ASSUME NEW k \in Key, NEW g \in Group, NEW b \in BlockId, CaptureNative(k, g, b)
        PROVE  IInv'
    BY <2>4, CaptureNativeIInv
  <2>5. ASSUME NEW src \in BlockId, NEW dst \in BlockId, CopyOnWrite(src, dst)
        PROVE  IInv'
    BY <2>5, CopyOnWriteIInv
  <2>6. ASSUME NEW k \in Key, NEW pick \in [Group -> BlockId], NEW fits \in BOOLEAN,
               Lookup(k, pick, fits)
        PROVE  IInv'
    BY <2>6, LookupIInv
  <2>7. CASE RunModel
    BY <2>7, RunModelIInv
  <2>8. CASE Reset
    BY <2>8, ResetIInv
  <2>9. CASE UNCHANGED vars
    <3>1. UNCHANGED <<recs, tags, epoch, label, use, holds, after, fence, due, hits, capture, own>>
      BY <2>9 DEF vars, registryVars
    <3> QED BY <3>1 DEF IInv, RegInv, Types, Owned, Accepted, Slots, StateInv,
                        BlockInv, HitSound
  <2> QED BY <2>1, <2>2, <2>3, <2>4, <2>5, <2>6, <2>7, <2>8, <2>9 DEF Next
<1> QED BY InitIInv, <1>1, PTL DEF Spec

\* Every state a request resumes from is the state of its prefix: hashes are
\* registered while a step is scheduled, before the model writes the states,
\* and copy-on-write moves them, yet no hit that the registry admits and the
\* fence lets through reads a block too early or too late.
THEOREM RegistryHitSound == Spec => []HitSound
<1>1. IInv => HitSound
  BY DEF IInv, StateInv
<1> QED BY <1>1, RegistryInv, PTL

\* Every tag leads to a current record of its entry, with or without native
\* tails, whatever the cap evicts and the pool reuses.
THEOREM RegistryTagsOwned == Spec => []TagsOwned
<1>1. IInv => TagsOwned
  BY DEF IInv, RegInv, Owned, TagsOwned
<1> QED BY <1>1, RegistryInv, PTL

\* Whatever the pool finds under a boundary's key is recorded and valid, or a
\* tail of the image's own: the registry's view and the pool's never drift
\* apart.
THEOREM RegistryHitsAccepted == Spec => []HitsAccepted
<1>1. IInv => HitsAccepted
  <2> SUFFICES ASSUME IInv, NEW b \in BlockId, label[b] # None,
                      <<b, label[b][1], label[b][2]>> \notin own
               PROVE  Valid(label[b][1], label[b][2], b)
    BY DEF HitsAccepted
  <2>1. PICK k \in Key, g \in Group : label[b] = <<k, g>>
    BY DEF IInv, RegInv, Types, Labels
  <2> QED BY <2>1 DEF IInv, RegInv, Accepted, Valid
<1> QED BY <1>1, RegistryInv, PTL

-----------------------------------------------------------------------------
\* The cap takes no record, tag or mapping of the entry being recorded.
LEMMA DropSpares ==
  ASSUME NEW ks, NEW mapped \in [BlockId -> Labels], NEW es,
         NEW rs \in [Key -> [BlockId -> RecordSet]], NEW ts \in [BlockId -> TagSet],
         Drop(ks, mapped, es, rs, ts),
         NEW k \in Key, k \notin ks, NEW g \in Group, NEW b \in BlockId,
         rs[k][b] # None, rs[k][b].group = g,
         ts[b] = [epoch |-> rs[k][b].epoch, key |-> k], mapped[b] = <<k, g>>
  PROVE  Valid(k, g, b)'
<1>1. /\ recs' = [x \in Key |-> IF x \in ks THEN NoRecs ELSE rs[x]]
      /\ tags' = [c \in BlockId |-> IF Untagged(c, ks, rs, ts) THEN None ELSE ts[c]]
      /\ label' = [c \in BlockId |-> IF Unmapped(c, ks, rs, mapped) THEN None
                                     ELSE mapped[c]]
  BY DEF Drop
<1>2. ~Untagged(b, ks, rs, ts)
  <2> SUFFICES ASSUME NEW x \in ks, ts[b] = [epoch |-> rs[x][b].epoch, key |-> x]
               PROVE  FALSE
    BY DEF Untagged
  <2>1. x = k
    OBVIOUS
  <2> QED BY <2>1
<1>3. ~Unmapped(b, ks, rs, mapped)
  BY DEF Unmapped
<1>4. recs'[k] = rs[k] /\ tags'[b] = ts[b] /\ label'[b] = mapped[b]
  BY <1>1, <1>2, <1>3
<1> QED BY <1>4 DEF Valid

\* A further group is recorded, and the earlier ones stay.
LEMMA CaptureGroupSurvives ==
  ASSUME IInv, CaptureSurvives, NEW g \in Group, NEW b \in BlockId, NEW chunkEnd \in BOOLEAN,
         CaptureGroup(g, b, chunkEnd)
  PROVE  CaptureSurvives'
<1>0. PICK k : k = capture.key
  OBVIOUS
<1> DEFINE es == MoveToEnd(k)
           rec == [group |-> g, epoch |-> epoch + 1]
           tag == [epoch |-> epoch + 1, key |-> k]
           rs == [recs EXCEPT ![k][b] = rec]
           ts == [tags EXCEPT ![b] = tag]
           mapped == [label EXCEPT ![b] = <<k, g>>]
<1>1. /\ capture # None /\ label[b] = None
      /\ Drop(Victims(es, k), mapped, es, rs, ts)
      /\ capture' = [key |-> k, left |-> capture.left \ {g}, done |-> capture.done \cup {g}]
  BY <1>0 DEF CaptureGroup, Record
<1>2. capture \in [key: Key, left: SUBSET Group, done: SUBSET Group] /\ k \in Key
  BY <1>0, <1>1 DEF IInv, RegInv, Types, CaptureSet
<1>3. /\ rec \in [group: Group, epoch: Nat] /\ rec # None
      /\ tag \in [epoch: Nat, key: Key] /\ tag # None
      /\ <<k, g>> \in Key \X Group
  BY <1>2, NoneAssumption DEF IInv, RegInv, Types
<1>4. /\ rs \in [Key -> [BlockId -> RecordSet]] /\ ts \in [BlockId -> TagSet]
      /\ mapped \in [BlockId -> Labels]
  BY <1>2, <1>3 DEF IInv, RegInv, Types, RecordSet, TagSet, Labels
<1>5. k \notin Victims(es, k)
  BY DEF Victims
<1>6. Valid(k, g, b)'
  <2>1. rs[k][b] = rec /\ ts[b] = tag /\ mapped[b] = <<k, g>>
    BY <1>2 DEF IInv, RegInv, Types
  <2>2. rs[k][b] # None /\ rs[k][b].group = g /\ ts[b] = [epoch |-> rs[k][b].epoch, key |-> k]
    BY <1>3, <2>1
  <2> HIDE DEF es, rs, ts, mapped
  <2> QED BY <1>1, <1>2, <1>4, <1>5, <2>1, <2>2, DropSpares
<1>7. ASSUME NEW h \in capture.done
      PROVE  \E c \in BlockId : Valid(k, h, c)'
  <2>1. PICK c \in BlockId : Valid(k, h, c)
    BY <1>0, <1>1, <1>7 DEF CaptureSurvives
  <2>2. h \in Group
    BY <1>2, <1>7
  <2>3. <<k, h>> # None
    BY <1>2, <2>2, NoneNoLabel
  <2>4. c # b
    BY <1>1, <2>1, <2>3 DEF Valid
  <2>5. rs[k][c] = recs[k][c] /\ ts[c] = tags[c] /\ mapped[c] = label[c]
    BY <1>2, <2>4 DEF IInv, RegInv, Types
  <2>6. /\ rs[k][c] # None /\ rs[k][c].group = h
        /\ ts[c] = [epoch |-> rs[k][c].epoch, key |-> k] /\ mapped[c] = <<k, h>>
    BY <2>1, <2>5 DEF Valid
  <2> HIDE DEF es, rs, ts, mapped
  <2>7. Valid(k, h, c)'
    BY <1>1, <1>2, <1>4, <1>5, <2>2, <2>6, DropSpares
  <2> QED BY <2>7
<1>8. capture'.key = k /\ capture'.done = capture.done \cup {g}
  BY <1>1
<1> QED BY <1>6, <1>7, <1>8 DEF CaptureSurvives

\* While a boundary is recorded group by group with the registry at its cap,
\* record's evictions never cost it a group that is already recorded, although
\* the entry is still incomplete and therefore dead (_enforce_cap spares keep).
THEOREM RegistryCaptureSurvives == Spec => []CaptureSurvives
<1>1. Init => CaptureSurvives
  BY DEF Init, CaptureSurvives
<1>2. IInv /\ CaptureSurvives /\ [Next]_vars => CaptureSurvives'
  <2> SUFFICES ASSUME IInv, CaptureSurvives, [Next]_vars PROVE CaptureSurvives'
    OBVIOUS
  <2>1. ASSUME capture' = None PROVE CaptureSurvives'
    BY <2>1 DEF CaptureSurvives
  <2>2. ASSUME NEW b \in BlockId, Alloc(b) \/ Release(b) PROVE CaptureSurvives'
    BY <2>1, <2>2 DEF Alloc, Release
  <2>3. ASSUME NEW k \in Key, Capture(k) PROVE CaptureSurvives'
    <3>1. capture'.done = {}
      BY <2>3 DEF Capture
    <3> QED BY <3>1 DEF CaptureSurvives
  <2>4. ASSUME NEW g \in Group, NEW b \in BlockId, NEW chunkEnd \in BOOLEAN,
               CaptureGroup(g, b, chunkEnd)
        PROVE  CaptureSurvives'
    BY <2>4, CaptureGroupSurvives
  <2>5. CASE CaptureEnd
    BY <2>1, <2>5 DEF CaptureEnd
  <2>6. ASSUME NEW k \in Key, NEW g \in Group, NEW b \in BlockId, CaptureNative(k, g, b)
        PROVE  CaptureSurvives'
    BY <2>1, <2>6 DEF CaptureNative
  <2>7. ASSUME NEW src \in BlockId, NEW dst \in BlockId, CopyOnWrite(src, dst)
        PROVE  CaptureSurvives'
    BY <2>1, <2>7 DEF CopyOnWrite
  <2>8. ASSUME NEW k \in Key, NEW pick \in [Group -> BlockId], NEW fits \in BOOLEAN,
               Lookup(k, pick, fits)
        PROVE  CaptureSurvives'
    BY <2>1, <2>8 DEF Lookup
  <2>9. CASE RunModel \/ Reset
    BY <2>1, <2>9 DEF RunModel, Reset
  <2>10. CASE UNCHANGED vars
    <3>1. UNCHANGED <<recs, tags, label, capture>>
      BY <2>10 DEF vars, registryVars
    <3> QED BY <3>1 DEF CaptureSurvives, Valid
  <2> QED BY <2>2, <2>3, <2>4, <2>5, <2>6, <2>7, <2>8, <2>9, <2>10 DEF Next
<1> QED BY <1>1, <1>2, RegistryInv, PTL DEF Spec
=============================================================================
