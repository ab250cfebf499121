---------------------------- MODULE OpenRegistry ----------------------------
(***************************************************************************)
(* The registry over a block pool that evicts and reuses its blocks, with  *)
(* the copy-on-write of partial tails and the fence of the step            *)
(* (MambaManager of the patched single_type_kv_cache_manager.py).          *)
(*                                                                         *)
(* Hashes are registered while a step is scheduled, states are written     *)
(* when the model runs at its end.  Any request may take, release, capture *)
(* and look up at any time the scheduler allows.                           *)
(***************************************************************************)
EXTENDS ReplayRegistry, FiniteSets

CONSTANTS
  MaxEpoch,  \* bound: registrations
  MaxNative  \* bound: partial tails of the image's own at a time

\* The uses of a block that are no group.
ASSUME UseAssumption == {"free", "held"} \cap Group = {}

VARIABLES
  use,       \* by block: "free", "held" by a request, or the group of which
             \* it is a running slot with a registered state (_partial_hit_reqs)
  holds,     \* the <<key, group>> whose state a block holds, None for others
  after,     \* the same once the model has run this step
  fence,     \* cached_blocks_this_step: labels registered in this step
  due,       \* blocks whose registered state is written when the model runs
  pinned,    \* blocks with a copy to or from them queued in this step
  hits,      \* history: the <<block, key, group>> given to requests this step
  capture,   \* the boundary being registered: [key, left, done], or None
  own        \* history: the <<block, key, group>> the image registered itself

vars == <<registryVars, label, use, holds, after, fence, due, pinned, hits, capture, own>>

Init ==
  /\ RegistryInit
  /\ label = [b \in BlockId |-> None]
  /\ use = [b \in BlockId |-> "free"]
  /\ holds = [b \in BlockId |-> None]
  /\ after = [b \in BlockId |-> None]
  /\ fence = {} /\ due = {} /\ pinned = {} /\ hits = {}
  /\ capture = None
  /\ own = {}

OwnBut(b) == {o \in own : o[1] # b}

\* get_new_blocks: a free block is taken, its hash is evicted; the registry
\* does not hear of it.
Alloc(b) ==
  /\ capture = None
  /\ use[b] = "free" /\ b \notin pinned
  /\ use' = [use EXCEPT ![b] = "held"]
  /\ label' = [label EXCEPT ![b] = None]
  /\ after' = [after EXCEPT ![b] = None]
  /\ own' = OwnBut(b)
  /\ UNCHANGED <<registryVars, holds, fence, due, pinned, hits, capture>>

\* The request ends, is preempted, or no longer needs the block.  Not when it
\* registered it in this step: the running loop preempts from the tail of
\* the list, requests that it has not reached.
Release(b) ==
  /\ capture = None
  /\ use[b] # "free" /\ b \notin due
  /\ use' = [use EXCEPT ![b] = "free"]
  /\ UNCHANGED <<registryVars, label, holds, after, fence, due, pinned, hits, capture, own>>

\* cache_blocks of a request whose chunk covers the boundary k begins.
Capture(k) ==
  /\ capture = None
  /\ capture' = [key |-> k, left |-> Group, done |-> {}]
  /\ UNCHANGED <<registryVars, label, use, holds, after, fence, due, pinned, hits, own>>

\* One group: _cache_partial_tail_block at a chunk end (the block is the
\* running slot) or _glm53_rb_register_export.
CaptureGroup(g, b, chunkEnd) ==
  /\ capture # None
  /\ g \in capture.left
  /\ use[b] = "held" /\ label[b] = None
  /\ epoch < MaxEpoch
  /\ Record(capture.key, g, b)
  /\ use' = [use EXCEPT ![b] = IF chunkEnd THEN g ELSE "held"]
  /\ after' = [after EXCEPT ![b] = <<capture.key, g>>]
  /\ fence' = fence \cup {<<capture.key, g>>}
  /\ due' = due \cup {b}
  /\ capture' = [key |-> capture.key, left |-> capture.left \ {g},
                 done |-> capture.done \cup {g}]
  /\ own' = OwnBut(b)
  /\ UNCHANGED <<holds, pinned, hits>>

\* The other groups registered nothing (no block at the column).
CaptureEnd ==
  /\ capture # None
  /\ capture' = None
  /\ UNCHANGED <<registryVars, label, use, holds, after, fence, due, pinned, hits, own>>

\* _cache_partial_tail_block at the last hash boundary of a shorter prompt:
\* the same hash, without the registry.
CaptureNative(k, g, b) ==
  /\ capture = None /\ Cardinality(own) < MaxNative
  /\ use[b] = "held" /\ label[b] = None
  /\ label' = [label EXCEPT ![b] = <<k, g>>]
  /\ use' = [use EXCEPT ![b] = g]
  /\ after' = [after EXCEPT ![b] = <<k, g>>]
  /\ fence' = fence \cup {<<k, g>>}
  /\ due' = due \cup {b}
  /\ own' = own \cup {<<b, k, g>>}
  /\ UNCHANGED <<registryVars, holds, pinned, hits, capture>>

\* Mutant of CopyOnWrite: a hit in the same step is not deferred.
CopyOnWriteUnfenced(src, dst) ==
  /\ capture = None
  /\ use[src] \in Group /\ src \notin due
  /\ use[dst] = "free" /\ dst \notin pinned
  /\ use' = [use EXCEPT ![src] = "held"]
  /\ label' = [label EXCEPT ![src] = None, ![dst] = label[src]]
  /\ after' = [after EXCEPT ![src] = None, ![dst] = holds[src]]
  /\ own' = {IF o[1] = src THEN <<dst, o[2], o[3]>> ELSE o : o \in OwnBut(dst)}
  /\ Moved(src, dst, use[src])
  /\ due' = due \cup {dst}
  /\ pinned' = pinned \cup {src, dst}
  /\ UNCHANGED <<holds, fence, hits, capture>>

\* allocate_new_blocks of the producer in a later step: the hash moves to a
\* new block that the copy fills before the model overwrites the running
\* slot; both stay until then, and a hit in the same step is deferred.
CopyOnWrite(src, dst) ==
  /\ capture = None
  /\ use[src] \in Group /\ src \notin due
  /\ use[dst] = "free" /\ dst \notin pinned
  /\ use' = [use EXCEPT ![src] = "held"]
  /\ label' = [label EXCEPT ![src] = None, ![dst] = label[src]]
  /\ after' = [after EXCEPT ![src] = None, ![dst] = holds[src]]
  /\ fence' = fence \cup ({label[src]} \ {None})
  /\ own' = {IF o[1] = src THEN <<dst, o[2], o[3]>> ELSE o : o \in OwnBut(dst)}
  /\ Moved(src, dst, use[src])
  /\ due' = due \cup {dst}
  /\ pinned' = pinned \cup {src, dst}
  /\ UNCHANGED <<holds, hits, capture>>

\* get_num_blocks_to_allocate: a hash of this step counts as no memory.
Usable(k) == \A g \in Group : <<k, g>> \notin fence

\* find_longest_cache_hit finds k in every group and asks the registry; if
\* the request fits as well, its blocks stay until they have been copied.
Lookup(k, pick, fits) ==
  LET used == IF Admits(k, pick) /\ Usable(k) /\ fits THEN Group ELSE {}
  IN  /\ capture = None
      /\ \A g \in Group : label[pick[g]] = <<k, g>>
      /\ Admit(k, pick)
      /\ pinned' = pinned \cup {pick[g] : g \in used}
      /\ hits' = hits \cup {<<pick[g], k, g>> : g \in used}
      /\ UNCHANGED <<use, holds, after, fence, due, capture, own>>

\* The model runs; the next step starts (new_step_starts).
RunModel ==
  /\ capture = None
  /\ holds' = after
  /\ fence' = {} /\ due' = {} /\ pinned' = {} /\ hits' = {}
  /\ UNCHANGED <<registryVars, label, use, after, capture, own>>

\* reset_prefix_cache, which succeeds only when no block is in use.
Reset ==
  /\ capture = None /\ fence = {} /\ due = {} /\ pinned = {} /\ hits = {}
  /\ \A b \in BlockId : use[b] = "free"
  /\ label' = [b \in BlockId |-> None]
  /\ own' = {}
  /\ Clear
  /\ UNCHANGED <<use, holds, after, fence, due, pinned, hits, capture>>

Next ==
  \/ \E b \in BlockId : Alloc(b) \/ Release(b)
  \/ \E k \in Key : Capture(k)
  \/ \E g \in Group, b \in BlockId, chunkEnd \in BOOLEAN :
       CaptureGroup(g, b, chunkEnd)
  \/ CaptureEnd
  \/ \E k \in Key, g \in Group, b \in BlockId : CaptureNative(k, g, b)
  \/ \E src, dst \in BlockId : CopyOnWrite(src, dst)
  \/ \E k \in Key, pick \in [Group -> BlockId], fits \in BOOLEAN :
       Lookup(k, pick, fits)
  \/ RunModel
  \/ Reset

Spec == Init /\ [][Next]_vars

-----------------------------------------------------------------------------
Labels == (Key \X Group) \cup {None}

\* The type invariant.
TypeOK ==
  /\ recs \in [Key -> [BlockId -> [group: Group, epoch: 1..MaxEpoch] \cup {None}]]
  /\ tags \in [BlockId -> [epoch: 1..MaxEpoch, key: Key] \cup {None}]
  /\ epoch \in 0..MaxEpoch
  /\ entries \in Seq(Key)
  /\ due \cup pinned \subseteq BlockId /\ fence \subseteq Labels
  /\ {label, holds, after} \subseteq [BlockId -> Labels]
  /\ use \in [BlockId -> {"free", "held"} \cup Group]

\* A state that a request resumes from is the state of its prefix, in every
\* group, although hashes are registered before the states are written,
\* move to other blocks, and outlive the request that wrote them.
HitSound == \A h \in hits : holds[h[1]] = <<h[2], h[3]>>

\* A tag always leads to a current record of its entry: no eviction, move,
\* drop or reuse of a block leaves one behind, so tags do not accumulate.
TagsOwned ==
  \A b \in BlockId : tags[b] # None =>
    /\ recs[tags[b].key][b] # None
    /\ recs[tags[b].key][b].epoch = tags[b].epoch

\* While a boundary is recorded group by group, with the registry at its
\* cap, the groups recorded so far stay valid: the entry is incomplete and
\* therefore dead, and still not evicted.
CaptureSurvives ==
  capture # None =>
    \A g \in capture.done : \E b \in BlockId : Valid(capture.key, g, b)

\* Whatever the pool finds under the key of a boundary, other than a tail of
\* the image's own, is recorded and valid: admit never refuses it, however
\* blocks were evicted, reused and moved.
HitsAccepted ==
  \A b \in BlockId :
    (label[b] # None /\ <<b, label[b][1], label[b][2]>> \notin own)
      => Valid(label[b][1], label[b][2], b)

\* "An invalidation or a cap eviction removes the entry's recorded blocks
\* from the pool (a stale tag included) and leaves the image's own entries
\* alone" (docstring of glm53_replay_boundary.py).
NativeKept == \A o \in own : label[o[1]] = <<o[2], o[3]>>
=============================================================================
