-------------------------------- MODULE Arena --------------------------------
(***************************************************************************)
(* Device memory as the host hands it out: the allocator of the runtime    *)
(* (hw/runtime.py, Allocator) and the static planner of a whole network    *)
(* (hw/memplan.py).  Both take the first free span that fits, or the next  *)
(* words never used, and merge what they give back with its neighbours.    *)
(*                                                                         *)
(* A span is [at, n].  An arena is [free, top]: the spans given back, a    *)
(* list in order of address and so the set of them, and the first word     *)
(* never handed out.                                                       *)
(***************************************************************************)
EXTENDS Integers, Sequences, FiniteSets
LOCAL INSTANCE SequencesExt
LOCAL INSTANCE FiniteSetsExt

Span(at, n) == [at |-> at, n |-> n]
EndOf(s) == s.at + s.n
Words(s) == s.at .. EndOf(s) - 1
RoundUp(n, q) == ((n + q - 1) \div q) * q
Lowest(s) == CHOOSE x \in s : \A y \in s : x <= y

GiveApart(free, span) == free \cup {span}   \* mutant of Give: neighbours are not merged

(* A span goes back, and adjacent spans become one: from every span that   *)
(* none ends at, up to the end of the next that none begins behind.        *)
Give(free, span) ==
    LET all   == free \cup {span}
        first == {s \in all : \A t \in all : EndOf(t) # s.at}
        last  == {s \in all : \A t \in all : EndOf(s) # t.at}
    IN  {Span(s.at, Lowest({EndOf(t) : t \in {u \in last : u.at >= s.at}}) - s.at) : s \in first}

Fits(free, n) == {s \in free : s.n >= n}
FirstFit(free, n) == CHOOSE s \in Fits(free, n) : \A t \in Fits(free, n) : s.at <= t.at

(* The word where n words are put, and the arena after it.                 *)
Take(arena, n) ==
    IF Fits(arena.free, n) = {}
    THEN [at |-> arena.top, arena |-> [arena EXCEPT !.top = @ + n]]
    ELSE LET span == FirstFit(arena.free, n)
             left == arena.free \ {span}
         IN  [at |-> span.at,
              arena |-> [arena EXCEPT !.free =
                  IF span.n > n THEN Give(left, Span(span.at + n, span.n - n)) ELSE left]]

---------------------------------------------------------------------------
(* The runtime's heap: an arena of size words, and the spans in use.       *)
NewHeap(size) == [arena |-> [free |-> {}, top |-> 0], size |-> size, live |-> {}]

HeapHas(heap, n) == Fits(heap.arena.free, n) # {} \/ heap.arena.top + n <= heap.size
HeapTake(heap, n) ==
    LET t == Take(heap.arena, n)
    IN  [heap EXCEPT !.arena = t.arena, !.live = @ \cup {Span(t.at, n)}]
HeapGive(heap, at) ==
    LET s == CHOOSE s \in heap.live : s.at = at
    IN  [heap EXCEPT !.arena.free = Give(@, s), !.live = @ \ {s}]

(* What is in use and what is free are every word below the top, once      *)
(* each, and no two free spans could have been one.                        *)
HeapWhole(heap) ==
    LET free == heap.arena.free
        all  == heap.live \cup free
    IN  /\ heap.live \cap free = {}
        /\ UNION {Words(s) : s \in all} = 0 .. heap.arena.top - 1
        /\ \A s, t \in all : s # t => Words(s) \cap Words(t) = {}
        /\ \A s, t \in free : EndOf(s) # t.at
        /\ heap.arena.top <= heap.size

---------------------------------------------------------------------------
(* A plan: words and align of the arena; tensors, each [name, n, kind,     *)
(* layout], in the order they were declared; steps, each [reads, writes,   *)
(* wants], in the order they run; reuse, whether dead words are used       *)
(* again.  Wants are [name, layout].                                       *)
Names(plan) == {plan.tensors[i].name : i \in 1..Len(plan.tensors)}
Tensor(plan, name) ==
    plan.tensors[CHOOSE i \in 1..Len(plan.tensors) : plan.tensors[i].name = name]
Steps(plan) == 1..Len(plan.steps)
RangeOf(seq) == {seq[i] : i \in 1..Len(seq)}
Touches(step) == RangeOf(step.reads) \cup RangeOf(step.writes)

(* The step at which a tensor comes to be: 0 is before the first.          *)
Early(plan, name) == Tensor(plan, name).kind \in {"weight", "input"}
Writers(plan, name) == {i \in Steps(plan) : name \in RangeOf(plan.steps[i].writes)}
First(plan, name) == IF Early(plan, name) THEN 0 ELSE Min(Writers(plan, name))

(* The last step that touches it; the host reads an output after them all. *)
LastUse(plan, name) ==
    IF Tensor(plan, name).kind = "output" THEN Len(plan.steps) + 1
    ELSE Max({0} \cup {i \in Steps(plan) : name \in Touches(plan.steps[i])})

(* What solve refuses.  A step's writes come before its reads here, so a   *)
(* step may read what only it writes.                                      *)
ReadUnwritten(plan) == \E i \in Steps(plan) : \E name \in RangeOf(plan.steps[i].reads) :
                           ~Early(plan, name) /\ \A w \in Writers(plan, name) : w > i
NeverUsed(plan) == \E name \in Names(plan) : ~Early(plan, name) /\ Writers(plan, name) = {}
BadLayout(plan) == \E i \in Steps(plan) : \E want \in plan.steps[i].wants :
                       \/ want.name \notin Touches(plan.steps[i])
                       \/ want.layout # Tensor(plan, want.name).layout

---------------------------------------------------------------------------
(* Placing: s has the arena, the tensors that live in it, and every        *)
(* address given so far.                                                   *)
Place(plan, s, name) ==
    LET t == Take(s.arena, Tensor(plan, name).n)
    IN  [arena |-> t.arena, live |-> s.live \cup {name}, word |-> s.word \o
            <<[name |-> name, at |-> t.at]>>]

WordOf(words, name) == words[CHOOSE i \in 1..Len(words) : words[i].name = name].at

Bury(plan, s, name) ==
    [s EXCEPT !.live = @ \ {name},
              !.arena.free = Give(@, Span(WordOf(s.word, name), Tensor(plan, name).n))]

PackFreesFirst(plan, s, i) ==   \* mutant of PackStep: the dead go first
    LET step   == plan.steps[i]
        dead   == {name \in Touches(step) \cap s.live : LastUse(plan, name) = i}
        buried == FoldLeft(LAMBDA q, name : Bury(plan, q, name), s, SetToSeq(dead))
        New(q) == SelectSeq(step.writes, LAMBDA name :
                      name \notin q.live /\ Tensor(plan, name).kind # "weight")
    IN  FoldLeft(LAMBDA q, name : Place(plan, q, name), buried, New(buried))

(* What a step writes is placed before what dies at it is given back, so   *)
(* a result never lands on an operand the step still reads.                *)
PackStep(plan, s, i) ==
    LET step   == plan.steps[i]
        new    == SelectSeq(step.writes, LAMBDA name :
                      name \notin s.live /\ Tensor(plan, name).kind # "weight")
        placed == FoldLeft(LAMBDA q, name : Place(plan, q, name), s, new)
        dead   == {name \in Touches(step) \cap placed.live : LastUse(plan, name) = i}
    IN  FoldLeft(LAMBDA q, name : Bury(plan, q, name), placed, SetToSeq(dead))

NamesOf(plan, Test(_)) ==
    LET all == [i \in 1..Len(plan.tensors) |-> plan.tensors[i].name]
    IN  SelectSeq(all, Test)

(* Weights from the bottom in declaration order; then the rest.            *)
Packed(plan) ==
    LET Weight(name) == Tensor(plan, name).kind = "weight"
        Rest(name)   == ~Weight(name) /\ (plan.reuse => First(plan, name) = 0)
        none   == [arena |-> [free |-> {}, top |-> 0], live |-> {}, word |-> <<>>]
        sunk   == FoldLeft(LAMBDA q, name : Place(plan, q, name), none, NamesOf(plan, Weight))
        start  == FoldLeft(LAMBDA q, name : Place(plan, q, name),
                           [sunk EXCEPT !.live = {}], NamesOf(plan, Rest))
    IN  IF ~plan.reuse THEN start
        ELSE FoldLeft(LAMBDA q, i : PackStep(plan, q, i), start, [i \in 1..Len(plan.steps) |-> i])

Refusal(plan) ==
    CASE ReadUnwritten(plan) -> "unwritten"
      [] NeverUsed(plan)     -> "unused"
      [] BadLayout(plan)     -> "layout"
      [] Packed(plan).arena.top > plan.words -> "full"
      [] OTHER -> "none"

Solve(plan) ==
    LET p == Packed(plan)
    IN  [word |-> [name \in Names(plan) |-> WordOf(p.word, name)], words |-> p.arena.top]

---------------------------------------------------------------------------
(* The checks of a placement, given as name -> word.                       *)
SpanOf(plan, word, name) == Span(word[name], Tensor(plan, name).n)
ByAddress(plan, word, names) ==
    SortSeq(SetToSeq(names), LAMBDA a, b :
        word[a] < word[b] \/ (word[a] = word[b] /\ Tensor(plan, a).n < Tensor(plan, b).n))
LiveAt(plan, i) == {name \in Names(plan) : First(plan, name) <= i /\ i <= LastUse(plan, name)}

(* Conflicts at a step: of the live tensors by address, neighbours only.   *)
Conflicts(plan, word, i) ==
    LET s == ByAddress(plan, word, LiveAt(plan, i))
    IN  {j \in 1..Len(s) - 1 : word[s[j + 1]] < word[s[j]] + Tensor(plan, s[j]).n}

(* What is wrong with a placement, [word, words]: the steps at which live  *)
(* tensors overlap, the results that nothing reads, an arena that is full. *)
Complaints(plan, p) ==
    [overlap |-> {i \in 0 .. Len(plan.steps) + 1 : Conflicts(plan, p.word, i) # {}},
     unread  |-> {name \in Names(plan) : Tensor(plan, name).kind = "act"
                                          /\ First(plan, name) = LastUse(plan, name)},
     over    |-> p.words > plan.words]

(* Each tensor with those that share a word with it.                       *)
Aliases(plan, word) ==
    [a \in Names(plan) |-> {b \in Names(plan) \ {a} :
        Words(SpanOf(plan, word, a)) \cap Words(SpanOf(plan, word, b)) # {}}]

(* The tracker: which tensors hold what was written to them.               *)
WroteKeeps(alias, valid, name) == valid \cup {name}   \* mutant of Wrote
Wrote(alias, valid, name) == (valid \ alias[name]) \cup {name}
MayRead(alias, valid, name) == name \in valid \/ alias[name] = {}
=============================================================================
