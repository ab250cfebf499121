--------------------------- MODULE ReplayRegistry ---------------------------
(***************************************************************************)
(* The registry of replay-boundary states                                  *)
(* (src/tp4/glm53_replay_boundary.py, class Registry).                     *)
(*                                                                         *)
(* Each KDA group records the block it registered under the hash of a      *)
(* replay boundary.  The registry bounds the number of boundaries and      *)
(* judges a prefix hit on one before it is used.                           *)
(*                                                                         *)
(* A key names a prefix and so its length: the branch of record for one    *)
(* key with two lengths, which the code says cannot happen, is left out.   *)
(* The block pool is external.  A KDA block holds one state and is mapped  *)
(* under one hash, label[b], so both branches of _drop unmap it.           *)
(***************************************************************************)
EXTENDS Naturals, Sequences, FiniteSets, SequencesExt

CONSTANTS
  Key,       \* prefix-chain hashes at replay boundaries
  Group,     \* the KDA cache groups
  BlockId,   \* blocks of the pool
  Cap,       \* GLM53_REPLAY_BOUNDARY_MAX
  None

ASSUME RegistryAssumption == Cap \in Nat \ {0}

\* None is neither a record, a tag nor a label.
ASSUME NoneAssumption ==
  /\ None \notin [group: Group, epoch: Nat]
  /\ None \notin [epoch: Nat, key: Key]
  /\ None \notin Key \X Group

VARIABLES
  entries,   \* keys of the OrderedDict, least recently used first
  recs,      \* Entry.blocks: [group, epoch] or None, by key and block
  tags,      \* [epoch, key] of a block's latest recording, or None
  epoch,     \* registrations so far
  label      \* the pool's map: the <<key, group>> a block is found under, or None

registryVars == <<entries, recs, tags, epoch>>

NoRecs == [b \in BlockId |-> None]

RegistryInit ==
  /\ entries = <<>>
  /\ recs = [k \in Key |-> NoRecs]
  /\ tags = [b \in BlockId |-> None]
  /\ epoch = 0

\* _valid, for a block of group g
Valid(k, g, b) ==
  /\ recs[k][b] # None
  /\ recs[k][b].group = g
  /\ tags[b] = [epoch |-> recs[k][b].epoch, key |-> k]
  /\ label[b] = <<k, g>>

-----------------------------------------------------------------------------
\* _drop of the entries ks, whose records are rs: the pool loses block b.
Unmapped(b, ks, rs, mapped) ==
  \E k \in ks : rs[k][b] # None /\ mapped[b] = <<k, rs[k][b].group>>

\* _drop: block b loses its tag.
Untagged(b, ks, rs, ts) ==
  \E k \in ks : /\ rs[k][b] # None
                /\ ts[b] = [epoch |-> rs[k][b].epoch, key |-> k]

\* _drop of the entries ks, with mapped the pool's map and es, rs, ts the
\* registry before it.
Drop(ks, mapped, es, rs, ts) ==
  /\ entries' = SelectSeq(es, LAMBDA k : k \notin ks)
  /\ recs' = [k \in Key |-> IF k \in ks THEN NoRecs ELSE rs[k]]
  /\ tags' = [b \in BlockId |-> IF Untagged(b, ks, rs, ts) THEN None ELSE ts[b]]
  /\ label' = [b \in BlockId |-> IF Unmapped(b, ks, rs, mapped) THEN None ELSE mapped[b]]

\* _dead: some group has no valid block left.
Dead(k) == \E g \in Group : \A b \in BlockId : ~Valid(k, g, b)

\* Of the entries es, x is dropped before y: dead ones first, then the least
\* recently used.
Sooner(es, x, y) ==
  LET place(z) == CHOOSE i \in DOMAIN es : es[i] = z
  IN  IF Dead(x) = Dead(y) THEN place(x) < place(y) ELSE Dead(x)

\* The entries over the cap.
Excess(es) == IF Len(es) > Cap THEN Len(es) - Cap ELSE 0

\* Mutant of Victims: the entry being recorded is not spared.
VictimsAny(es, keep) ==
  {y \in ToSet(es) : Cardinality({x \in ToSet(es) : Sooner(es, x, y)}) < Excess(es)}

\* _enforce_cap: the entries to drop so that es fits, never keep.  Dropping
\* one entry does not change whether another is dead.
Victims(es, keep) ==
  LET others == ToSet(es) \ {keep}
  IN  {y \in others : Cardinality({x \in others : Sooner(es, x, y)}) < Excess(es)}

MoveToEnd(k) == Append(SelectSeq(entries, LAMBDA x : x # k), k)

\* record: group g has registered block b under k; the pool maps it already.
Record(k, g, b) ==
  LET es == MoveToEnd(k)
      rs == [recs EXCEPT ![k][b] = [group |-> g, epoch |-> epoch + 1]]
      ts == [tags EXCEPT ![b] = [epoch |-> epoch + 1, key |-> k]]
  IN  /\ epoch' = epoch + 1
      /\ Drop(Victims(es, k), [label EXCEPT ![b] = <<k, g>>], es, rs, ts)

\* moved may follow the entry of src: its tag leads to a current record.
Follows(src, g) ==
  LET k == tags[src].key
  IN  /\ tags[src] # None
      /\ recs[k][src] # None
      /\ recs[k][src].group = g
      /\ recs[k][src].epoch = tags[src].epoch

\* Mutant of Moved: the registry does not hear of the move.
MovedUnheard(src, dst, g) == UNCHANGED registryVars

\* moved: copy-on-write has moved the pool's entry of src to dst.
Moved(src, dst, g) ==
  IF Follows(src, g)
  THEN LET k == tags[src].key
       IN  /\ recs' = [recs EXCEPT ![k][src] = None, ![k][dst] = recs[k][src]]
           /\ tags' = [tags EXCEPT ![src] = None, ![dst] = tags[src]]
           /\ UNCHANGED <<entries, epoch>>
  ELSE UNCHANGED registryVars

\* admit: the blocks pick that the pool returns for k, one for each group.
\* Only blocks recorded for the entry are judged.
Judged(k, pick) == {g \in Group : recs[k][pick[g]] # None}

Admits(k, pick) == \A g \in Judged(k, pick) : Valid(k, g, pick[g])

Admit(k, pick) ==
  IF ~Admits(k, pick)
  THEN Drop({k}, label, entries, recs, tags) /\ UNCHANGED epoch
  ELSE /\ entries' = IF Judged(k, pick) = {} THEN entries ELSE MoveToEnd(k)
       /\ UNCHANGED <<recs, tags, epoch, label>>

\* clear: every entry is dropped (a key without an entry has no records).
Clear ==
  /\ entries' = <<>>
  /\ recs' = [k \in Key |-> NoRecs]
  /\ tags' = [b \in BlockId |-> IF Untagged(b, Key, recs, tags) THEN None ELSE tags[b]]
  /\ UNCHANGED epoch
=============================================================================
