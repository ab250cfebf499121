---------------------------- MODULE ResponseItems ----------------------------
(***************************************************************************)
(* How the deltas of the output parser become the items of a streamed      *)
(* response (streaming_events.py, the simple processor).                   *)
(*                                                                         *)
(* The model generates pieces of reasoning, content and tool calls one     *)
(* after the other; the parser merges those of a batch into one delta,     *)
(* which has a field for each sort and no order between them.  The place   *)
(* of a piece in the generation stands for its text.                       *)
(***************************************************************************)
EXTENDS Integers, Sequences, FiniteSets, SequencesExt

CONSTANTS
  MaxPieces,  \* bound on the pieces of a generation
  MaxBatch    \* bound on the pieces of a delta

VARIABLES
  pieces,     \* what was generated, in order
  hidden,     \* include_reasoning is off
  proc,       \* the processor's state
  items,      \* streamed_output_items
  trace,      \* the events the client has seen
  phase       \* whether the stream goes on, and how it ended

itemVars == <<pieces, hidden, proc, items, trace, phase>>

None == "none"
Absent == [is |-> FALSE, text |-> << >>]
Field(text) == [is |-> TRUE, text |-> text]

-----------------------------------------------------------------------------
\* The parser.

Sorts == {"reasoning", "content", "name", "args"}

\* What may follow what: reasoning comes first, and arguments belong to the
\* call that is being generated.
Follows(before, sort) ==
  CASE sort = "reasoning" -> \A i \in DOMAIN before : before[i] = "reasoning"
    [] sort = "args" -> before # << >> /\ before[Len(before)] \in {"name", "args"}
    [] OTHER -> TRUE

\* The call that a name or arguments belong to: a new call has the next index.
CallOf(ps, i) == Cardinality({j \in 1..i : ps[j] = "name"}) - 1

\* The numbers of a set up to n, in their order.
Ascending(set, n) == FlattenSeq([k \in 1..n |-> IF k \in set THEN <<k>> ELSE << >>])

\* The places of some sorts from a place on.
Places(ps, first, sorts) ==
  Ascending({i \in first..Len(ps) : ps[i] \in sorts}, Len(ps))

Optional(text, blank) == IF text # << >> \/ blank THEN Field(text) ELSE Absent

\* One entry for each piece of a call.
Entry(ps, i) ==
  [index |-> CallOf(ps, i),
   name  |-> IF ps[i] = "name" THEN i ELSE 0,
   args  |-> IF ps[i] = "args" THEN <<i>> ELSE << >>]

\* The delta of the pieces from a place on; its content may be the empty
\* string, and reasoning that was not asked for is taken out.
Delta(ps, first, blank, aligned) ==
  LET called == Places(ps, first, {"name", "args"})
      content == Places(ps, first, {"content"}) IN
  [reasoning |-> IF hidden THEN Absent
                 ELSE Optional(Places(ps, first, {"reasoning"}), FALSE),
   content   |-> Optional(content, blank),
   logs      |-> IF aligned THEN content ELSE << >>,
   tools     |-> [i \in DOMAIN called |-> Entry(ps, called[i])]]

-----------------------------------------------------------------------------
\* split_delta.

Only(d, tools) == [d EXCEPT !.reasoning = Absent, !.content = Absent, !.tools = tools]

Indices(d) == {d.tools[i].index : i \in DOMAIN d.tools}

\* The entries that begin a group, and the group of an index.
Starts(d) ==
  {i \in DOMAIN d.tools : \A j \in 1..(i - 1) : d.tools[j].index # d.tools[i].index}

Group(d, x) ==
  LET own == Ascending({i \in DOMAIN d.tools : d.tools[i].index = x}, Len(d.tools))
  IN  [k \in DOMAIN own |-> d.tools[own[k]]]

Introduces(d, x) == \E i \in DOMAIN d.tools : d.tools[i].index = x /\ d.tools[i].name # 0

\* The groups with a new call or without, in the order of their first entries.
Groups(d, new) ==
  LET starts == Ascending({i \in Starts(d) : Introduces(d, d.tools[i].index) = new},
                          Len(d.tools))
  IN  [k \in DOMAIN starts |-> Only(d, Group(d, d.tools[starts[k]].index))]

Texts(d) ==
  (IF d.reasoning.is THEN <<[Only(d, << >>) EXCEPT !.reasoning = d.reasoning]>> ELSE << >>)
    \o (IF d.content.is THEN <<[Only(d, << >>) EXCEPT !.content = d.content]>> ELSE << >>)

Fields(d) == Len(Texts(d)) + (IF d.tools # << >> THEN 1 ELSE 0)

\* Mutant of SplitDelta: the order before the correction, texts first and then all calls.
SplitDeltaTextsFirst(d) ==
  IF Fields(d) <= 1 /\ Cardinality(Indices(d)) <= 1
  THEN <<d>>
  ELSE Texts(d) \o Groups(d, FALSE) \o Groups(d, TRUE)

\* The tail of the open call, then the texts, then the calls that are new.
SplitDelta(d) ==
  IF Fields(d) <= 1 /\ Cardinality(Indices(d)) <= 1
  THEN <<d>>
  ELSE Groups(d, FALSE) \o Texts(d) \o Groups(d, TRUE)

-----------------------------------------------------------------------------
\* SimpleStreamingEventProcessor, on records of its state, the items done and
\* the events sent.

Fresh == [state |-> None, opened |-> 0, nth |-> 0, call |-> 0, name |-> 0,
          text |-> << >>, logs |-> << >>, whole |-> TRUE, sent |-> FALSE]

TargetState(d) ==
  CASE d.tools # << >> -> "call"
    [] d.tools = << >> /\ d.reasoning.is -> "reasoning"
    [] d.tools = << >> /\ ~d.reasoning.is /\ d.content.text # << >> -> "content"
    [] OTHER -> None

NeedsTransition(p, target, d) ==
  \/ p.state # target
  \/ target = "call" /\ p.call # d.tools[1].index

Event(type, p, text) ==
  [type |-> type, id |-> p.opened, index |-> p.nth, state |-> p.state, text |-> text]

\* Mutant of Status: the stream does not know of calls that were cut off.
StatusCompleted(p, truncated) == "completed"

\* A call that was cut off is incomplete.
Status(p, truncated) ==
  IF truncated /\ p.state = "call" THEN "incomplete" ELSE "completed"

\* The done events of the open item; without arguments a call has no event
\* for them.
CloseCurrent(s, truncated) ==
  LET p == s.proc
      item == [id |-> p.opened, state |-> p.state, name |-> p.name, text |-> p.text,
               logs |-> p.logs,
               status |-> Status(p, truncated)]
  IN IF p.state = None THEN s
     ELSE [s EXCEPT !.proc = [p EXCEPT !.nth = @ + 1, !.state = None],
                    !.items = Append(@, item),
                    !.trace = @ \o (IF p.state = "call" /\ ~p.sent THEN << >>
                                    ELSE <<Event("text_done", p, p.text)>>)
                                \o <<Event("done", p, p.text)>>]

\* Mutant of Blank: a call starts with the text of the item before it.
BlankKept(p, target, d) ==
  CASE target = "content" -> [p EXCEPT !.text = << >>, !.logs = << >>, !.whole = TRUE]
    [] target = "reasoning" -> [p EXCEPT !.text = << >>]
    [] OTHER -> [p EXCEPT !.call = d.tools[1].index, !.name = d.tools[1].name,
                          !.sent = FALSE]

\* What opening resets.
Blank(p, target, d) ==
  CASE target = "content" -> [p EXCEPT !.text = << >>, !.logs = << >>, !.whole = TRUE]
    [] target = "reasoning" -> [p EXCEPT !.text = << >>]
    [] OTHER -> [p EXCEPT !.text = << >>, !.call = d.tools[1].index,
                          !.name = d.tools[1].name, !.sent = FALSE]

\* A new item; a call without a name is refused by the item's type.
OpenItem(s, target, d) ==
  LET p == [Blank(s.proc, target, d) EXCEPT !.state = target, !.opened = @ + 1] IN
  IF target = "call" /\ d.tools[1].name = 0
  THEN [s EXCEPT !.rejected = TRUE]
  ELSE [s EXCEPT !.proc = p, !.trace = Append(@, Event("added", p, << >>))]

\* Mutant of Arguments: only the first entry of a group counts.
ArgumentsFirst(d) == d.tools[1].args

Arguments(d) == FlattenSeq([i \in DOMAIN d.tools |-> d.tools[i].args])

\* Mutant of LogsAfter: each part keeps what it has.
LogsAfterEach(p, d) == p.logs \o d.logs

\* One part without log-probabilities leaves the whole message without.
WholeAfter(p, d) == p.whole /\ d.logs = d.content.text
LogsAfter(p, d) == IF WholeAfter(p, d) THEN p.logs \o d.logs ELSE << >>

\* The text a delta adds.
New(p, d) ==
  CASE p.state = "call" -> Arguments(d)
    [] p.state = "reasoning" -> d.reasoning.text
    [] OTHER -> d.content.text

EmitDelta(s, d) ==
  LET p == s.proc
      told == [p EXCEPT !.text = @ \o New(p, d)]
      grown == IF p.state = "content"
               THEN [told EXCEPT !.logs = LogsAfter(p, d), !.whole = WholeAfter(p, d)]
               ELSE [told EXCEPT !.sent = TRUE]
  IN IF p.state = "call" /\ Arguments(d) = << >> THEN s
     ELSE [s EXCEPT !.proc = grown, !.trace = Append(@, Event("delta", grown, New(p, d)))]

\* One part of a delta; an exception ends the stream.
Step(s, d) ==
  LET target == TargetState(d)
      turned == IF NeedsTransition(s.proc, target, d)
                THEN OpenItem(CloseCurrent(s, FALSE), target, d)
                ELSE s
  IN IF s.rejected \/ target = None THEN s
     ELSE IF turned.rejected THEN turned
     ELSE EmitDelta(turned, d)

\* The parts of a delta one after the other.
Run(s, parts) ==
  LET run[k \in 0..Len(parts)] == IF k = 0 THEN s ELSE Step(run[k - 1], parts[k])
  IN  run[Len(parts)]

Processed(d) ==
  Run([proc |-> proc, items |-> items, trace |-> trace, rejected |-> FALSE], SplitDelta(d))

-----------------------------------------------------------------------------
ItemsInit ==
  /\ pieces = << >>
  /\ hidden \in BOOLEAN
  /\ proc = Fresh
  /\ items = << >>
  /\ trace = << >>
  /\ phase = "streaming"

\* A batch of pieces comes out of the parser and goes through the processor.
Parse(n, blank, aligned) ==
  /\ phase = "streaming"
  /\ Len(pieces) + n <= MaxPieces
  /\ \E more \in [1..n -> Sorts] :
       LET ps == pieces \o more
           s == Processed(Delta(ps, Len(pieces) + 1, blank, aligned)) IN
       /\ \A i \in (Len(pieces) + 1)..Len(ps) : Follows(SubSeq(ps, 1, i - 1), ps[i])
       /\ pieces' = ps
       /\ proc' = s.proc /\ items' = s.items /\ trace' = s.trace
       /\ phase' = IF s.rejected THEN "rejected" ELSE "streaming"
  /\ UNCHANGED hidden

\* The end of the stream. The parser knows whether a call was cut off: here one
\* that it has told the client of, which a call without a name yet is not.
EndStream(truncated) ==
  LET s == CloseCurrent([proc |-> proc, items |-> items, trace |-> trace], truncated) IN
  /\ phase = "streaming"
  /\ truncated => Follows(pieces, "args")
  /\ proc' = s.proc /\ items' = s.items /\ trace' = s.trace
  /\ phase' = IF truncated THEN "truncated" ELSE "finished"
  /\ UNCHANGED <<pieces, hidden>>

ItemsNext ==
  \/ \E n \in 1..MaxBatch, blank, aligned \in BOOLEAN : Parse(n, blank, aligned)
  \/ \E truncated \in BOOLEAN : EndStream(truncated)

ItemsSpec == ItemsInit /\ [][ItemsNext]_itemVars

-----------------------------------------------------------------------------
\* The items as they stand: those done and the open one.
Standing ==
  items \o IF proc.state = None THEN << >>
           ELSE <<[id |-> proc.opened, state |-> proc.state, name |-> proc.name,
                   text |-> proc.text, logs |-> proc.logs, status |-> "in_progress"]>>

TextOf(state) ==
  FlattenSeq([i \in DOMAIN Standing |->
                IF Standing[i].state = state THEN Standing[i].text ELSE << >>])

Calls == {i \in DOMAIN Standing : Standing[i].state = "call"}

\* Whatever is merged into one delta (split_delta, emit_delta), no text is
\* lost, doubled or moved within its sort, reasoning that was not asked for
\* stays out, each call is one item with its own name and all of its arguments,
\* in the order of the calls, and no tail of a call is left over as a call
\* without a name.
NothingLost ==
  /\ phase # "rejected"
  /\ TextOf("content") = Places(pieces, 1, {"content"})
  /\ TextOf("reasoning") = IF hidden THEN << >> ELSE Places(pieces, 1, {"reasoning"})
  /\ {Standing[i].name : i \in Calls} = {k \in DOMAIN pieces : pieces[k] = "name"}
  /\ \A i, j \in Calls : i < j => Standing[i].name < Standing[j].name
  /\ \A i \in Calls :
       LET call == CallOf(pieces, Standing[i].name) IN
       Standing[i].text = Ascending({k \in DOMAIN pieces :
                                       pieces[k] = "args" /\ CallOf(pieces, k) = call},
                                    Len(pieces))

\* What a client puts together from the deltas of an item.
Deltas(id) ==
  FlattenSeq([k \in DOMAIN trace |->
                IF trace[k].type = "delta" /\ trace[k].id = id THEN trace[k].text ELSE << >>])

DoneAt == {k \in DOMAIN trace : trace[k].type = "done"}

\* Every item is announced, told and finished before the next is announced, at
\* the next index, and the item kept for the final response is the one the
\* client has put together from the deltas (open_item, emit_delta,
\* close_current).
ClientAgrees ==
  /\ Len(items) = Cardinality(DoneAt)
  /\ \A k \in DOMAIN trace :
       /\ trace[k].index = Cardinality({j \in DoneAt : j < k})
       /\ trace[k].type = "added" <=> k = 1 \/ k - 1 \in DoneAt
       /\ trace[k].type = "added" => \A j \in 1..(k - 1) : trace[j].id # trace[k].id
       /\ trace[k].type # "added" => trace[k].id = trace[k - 1].id
       /\ trace[k].type \in {"text_done", "done"} => trace[k].text = Deltas(trace[k].id)
  /\ \A k \in DoneAt :
       LET item == items[trace[k].index + 1] IN
       item.id = trace[k].id /\ item.state = trace[k].state /\ item.text = trace[k].text

\* A call that was cut off is the last item and the only one that is marked,
\* as every reader of the stored response relies on (close_current).
CutOffMarked ==
  phase \in {"finished", "truncated"} =>
    \A i \in DOMAIN items :
      items[i].status = "incomplete" <=> phase = "truncated" /\ i = Len(items)

\* A message has the log-probabilities of all of its text or none: those of a
\* part would be read as those of the whole (emit_delta).
LogsOfWholeText ==
  \A i \in DOMAIN items :
    items[i].state = "content" => items[i].logs \in {<< >>, items[i].text}

\* What is said of a finished item besides its text is true of all of it.
KeptTrue == CutOffMarked /\ LogsOfWholeText
=============================================================================
