--------------------------- MODULE SessionTheorems ---------------------------
(***************************************************************************)
(* The allocator of the runtime over any session: every word below the top *)
(* is in use or free, once, and a buffer keeps its words to itself.        *)
(***************************************************************************)
EXTENDS Session, TLAPS
LOCAL INSTANCE WellFoundedInduction

Spans == [at : Nat, n : Nat \ {0}]

(***************************************************************************)
(* Spans as intervals.                                                     *)
(***************************************************************************)
Clear(s, t) == EndOf(s) <= t.at \/ EndOf(t) <= s.at
Apart(S) == \A s, t \in S : s # t => Clear(s, t)

LEMMA SpanParts ==
  ASSUME NEW s \in Spans
  PROVE  s.at \in Nat /\ s.n \in Nat \ {0} /\ EndOf(s) \in Nat /\ s.at < EndOf(s)
  BY DEF Spans, EndOf

LEMMA SpanSame ==
  ASSUME NEW s \in Spans, NEW t \in Spans, s.at = t.at, EndOf(s) = EndOf(t) PROVE s = t
  BY DEF Spans, EndOf

LEMMA ClearWords ==
  ASSUME NEW s \in Spans, NEW t \in Spans
  PROVE  Words(s) \cap Words(t) = {} <=> Clear(s, t)
  <1> USE SpanParts
  <1>1. ASSUME Clear(s, t) PROVE Words(s) \cap Words(t) = {} BY <1>1 DEF Clear, Words
  <1>2. ASSUME ~Clear(s, t) PROVE Words(s) \cap Words(t) # {}
    <2>1. CASE s.at <= t.at BY <1>2, <2>1 DEF Clear, Words
    <2>2. CASE t.at <= s.at BY <1>2, <2>2 DEF Clear, Words
    <2> QED BY <2>1, <2>2
  <1> QED BY <1>1, <1>2

LEMMA LowestIs ==
  ASSUME NEW S \in SUBSET Int, NEW m \in S, \A x \in S : m <= x PROVE Lowest(S) = m
  <1>1. \E x \in S : \A y \in S : x <= y OBVIOUS
  <1>2. Lowest(S) \in S /\ \A y \in S : Lowest(S) <= y BY <1>1 DEF Lowest
  <1>3. Lowest(S) <= m /\ m <= Lowest(S) BY <1>2
  <1>4. Lowest(S) \in Int /\ m \in Int BY <1>2
  <1> QED BY <1>3, <1>4

(***************************************************************************)
(* A span goes back to a list of spans that are apart and merged.          *)
(***************************************************************************)
Merged(free) == \A s, t \in free : EndOf(s) # t.at

(* The one span that ends where it begins, or begins where it ends.        *)
LEMMA GiveIs ==
  ASSUME NEW free \in SUBSET Spans, NEW span \in Spans, span \notin free,
         Apart(free \cup {span}), Merged(free)
  PROVE  \E h, e \in free \cup {span} : \E J \in Spans :
           /\ Give(free, span) = {t \in free : EndOf(t) # span.at /\ t.at # EndOf(span)} \cup {J}
           /\ J.at = h.at /\ EndOf(J) = EndOf(e) /\ h.at <= span.at /\ EndOf(span) <= EndOf(e)
           /\ \A t \in free : EndOf(t) = span.at <=> t = h
           /\ \A t \in free : t.at = EndOf(span) <=> t = e
           /\ h = span \/ EndOf(h) = span.at
           /\ e = span \/ e.at = EndOf(span)
  <1> DEFINE B == {t \in free : EndOf(t) = span.at}
             A == {t \in free : t.at = EndOf(span)}
             all == free \cup {span}
             first == {s \in all : \A t \in all : EndOf(t) # s.at}
             last == {s \in all : \A t \in all : EndOf(s) # t.at}
             ends(s) == {EndOf(t) : t \in {u \in last : u.at >= s.at}}
  <1>1. \A s \in all : s \in Spans /\ s.at \in Nat /\ s.n \in Nat \ {0} /\ EndOf(s) \in Nat /\ s.at < EndOf(s)
    BY SpanParts
  <1>2. \A s, t \in all : s # t => EndOf(s) <= t.at \/ EndOf(t) <= s.at
    BY DEF Apart, Clear
  <1>3. B = {} \/ \E l \in free : B = {l}
    <2>1. \A s, t \in B : s = t BY <1>1, <1>2
    <2> QED BY <2>1
  <1>4. A = {} \/ \E r \in free : A = {r}
    <2>1. \A s, t \in A : s = t BY <1>1, <1>2
    <2> QED BY <2>1
  <1>5. PICK h \in all : (B = {} /\ h = span) \/ (h \in free /\ B = {h}) BY <1>3
  <1>6. PICK e \in all : (A = {} /\ e = span) \/ (e \in free /\ A = {e}) BY <1>4
  <1>7. h.at <= span.at /\ EndOf(span) <= EndOf(e)
    BY <1>1, <1>5, <1>6
  <1> DEFINE J == Span(h.at, EndOf(e) - h.at)
  <1>8. J \in Spans /\ J.at = h.at /\ EndOf(J) = EndOf(e)
    BY <1>1, <1>7 DEF Span, Spans, EndOf
  <1>9. first = (free \ (B \cup A)) \cup {h}
    BY <1>1, <1>2, <1>5, <1>6 DEF Merged
  <1>10. ASSUME NEW s \in free, s \notin B, s \notin A
         PROVE  Lowest(ends(s)) = EndOf(s)
    <2>1. s \in last BY <1>10 DEF Merged
    <2>2. EndOf(s) \in ends(s) BY <1>1, <2>1
    <2>3. \A x \in ends(s) : EndOf(s) <= x BY <1>1, <1>2
    <2>4. ends(s) \in SUBSET Int BY <1>1
    <2> QED BY <2>2, <2>3, <2>4, LowestIs
  <1>11. Lowest(ends(h)) = EndOf(e)
    <2>1. e \in last BY <1>1, <1>2, <1>6 DEF Merged
    <2>2. e.at >= h.at BY <1>1, <1>5, <1>6
    <2>3. EndOf(e) \in ends(h) BY <2>1, <2>2
    <2>4. ASSUME NEW u \in last, u.at >= h.at PROVE EndOf(e) <= EndOf(u)
      BY <1>1, <1>2, <1>5, <1>6, <2>4
    <2>5. ends(h) \in SUBSET Int BY <1>1
    <2> QED BY <2>3, <2>4, <2>5, LowestIs
  <1>12. Give(free, span) = {Span(s.at, Lowest(ends(s)) - s.at) : s \in first}
    BY DEF Give
  <1>13. \A s \in free : s \notin B /\ s \notin A => Span(s.at, Lowest(ends(s)) - s.at) = s
    BY <1>1, <1>10 DEF Span, EndOf, Spans
  <1>14. Span(h.at, Lowest(ends(h)) - h.at) = J
    BY <1>11
  <1>15. Give(free, span) = {t \in free : EndOf(t) # span.at /\ t.at # EndOf(span)} \cup {J}
    <2>1. {t \in free : EndOf(t) # span.at /\ t.at # EndOf(span)} = free \ (B \cup A) OBVIOUS
    <2> HIDE DEF first, ends, J
    <2> QED BY <1>5, <1>9, <1>12, <1>13, <1>14, <2>1
  <1>16. \A t \in free : EndOf(t) = span.at <=> t = h BY <1>5
  <1>17. \A t \in free : t.at = EndOf(span) <=> t = e BY <1>6
  <1>18. (h = span \/ EndOf(h) = span.at) /\ (e = span \/ e.at = EndOf(span)) BY <1>5, <1>6
  <1> HIDE DEF J
  <1> QED BY <1>7, <1>8, <1>15, <1>16, <1>17, <1>18

(* Nothing is lost and nothing is doubled: the words are those there were, *)
(* a span that was clear of them still is, and no two could be one.        *)
LEMMA GiveCorrect ==
  ASSUME NEW free \in SUBSET Spans, NEW span \in Spans, span \notin free,
         Apart(free \cup {span}), Merged(free)
  PROVE  /\ Give(free, span) \in SUBSET Spans
         /\ Apart(Give(free, span))
         /\ Merged(Give(free, span))
         /\ \A w \in Int : (\E t \in Give(free, span) : t.at <= w /\ w < EndOf(t))
                        <=> (\E t \in free \cup {span} : t.at <= w /\ w < EndOf(t))
         /\ \A s \in Spans : (\A t \in free \cup {span} : Clear(s, t)) =>
                               \A t \in Give(free, span) : Clear(s, t)
  <1> DEFINE all == free \cup {span}
             rest == {t \in free : EndOf(t) # span.at /\ t.at # EndOf(span)}
             G == Give(free, span)
  <1>1. PICK h \in all, e \in all, J \in Spans :
           /\ G = rest \cup {J}
           /\ J.at = h.at /\ EndOf(J) = EndOf(e) /\ h.at <= span.at /\ EndOf(span) <= EndOf(e)
           /\ \A t \in free : EndOf(t) = span.at <=> t = h
           /\ \A t \in free : t.at = EndOf(span) <=> t = e
           /\ h = span \/ EndOf(h) = span.at
           /\ e = span \/ e.at = EndOf(span)
    BY GiveIs
  <1> HIDE DEF G
  <1>2. /\ \A s \in Spans : s.at \in Nat /\ EndOf(s) \in Nat /\ s.at < EndOf(s)
        /\ all \in SUBSET Spans /\ rest \in SUBSET Spans
    BY SpanParts
  <1>3. \A s, t \in all : s # t => Clear(s, t) BY DEF Apart
  <1>4. ASSUME NEW s \in Spans, Clear(s, h), Clear(s, span), Clear(s, e) PROVE Clear(s, J)
    BY <1>1, <1>2, <1>4 DEF Clear
  <1>5. \A s \in rest : s \in all /\ s # h /\ s # span /\ s # e
    BY <1>1
  <1>6. \A s \in rest : Clear(s, J) /\ Clear(J, s)
    <2> TAKE s \in rest
    <2>1. Clear(s, h) /\ Clear(s, span) /\ Clear(s, e) BY <1>3, <1>5
    <2>2. Clear(s, J) BY <1>2, <1>4, <2>1
    <2> QED BY <2>2 DEF Clear
  <1>7. G \in SUBSET Spans BY <1>1, <1>2
  <1>8. Apart(G)
    <2>1. \A s, t \in rest : s # t => Clear(s, t) BY <1>3, <1>5
    <2> QED BY <1>1, <1>6, <2>1 DEF Apart
  <1>9. Merged(G)
    <2>1. \A s, t \in rest : EndOf(s) # t.at BY DEF Merged
    <2>2. ASSUME NEW s \in rest PROVE EndOf(s) # J.at
      <3>1. CASE h = span BY <1>1, <3>1
      <3>2. CASE h \in free BY <1>1, <3>2 DEF Merged
      <3> QED BY <3>1, <3>2
    <2>3. ASSUME NEW s \in rest PROVE EndOf(J) # s.at
      <3>1. CASE e = span BY <1>1, <3>1
      <3>2. CASE e \in free BY <1>1, <3>2 DEF Merged
      <3> QED BY <3>1, <3>2
    <2>4. EndOf(J) # J.at BY <1>2
    <2> QED BY <1>1, <2>1, <2>2, <2>3, <2>4 DEF Merged
  <1>10. ASSUME NEW w \in Int
         PROVE  (\E t \in G : t.at <= w /\ w < EndOf(t)) <=> \E t \in all : t.at <= w /\ w < EndOf(t)
    <2> DEFINE In(t) == t.at <= w /\ w < EndOf(t)
    <2>1. In(J) <=> In(h) \/ In(span) \/ In(e) BY <1>1, <1>2
    <2>2. \A t \in all : t \in rest \/ t = h \/ t = e \/ t = span BY <1>1
    <2> HIDE DEF In
    <2>3. (\E t \in G : In(t)) <=> \E t \in all : In(t)
      BY <1>1, <1>5, <2>1, <2>2
    <2> QED BY <2>3 DEF In
  <1>11. ASSUME NEW s \in Spans, \A t \in all : Clear(s, t) PROVE \A t \in G : Clear(s, t)
    <2>1. Clear(s, J) BY <1>4, <1>11
    <2> QED BY <1>1, <1>5, <1>11, <2>1
  <1> QED BY <1>7, <1>8, <1>9, <1>10, <1>11 DEF G

(***************************************************************************)
(* The heap, with its words as intervals.                                  *)
(***************************************************************************)
Heaps == [arena : [free : SUBSET Spans, top : Nat], size : Nat, live : SUBSET Spans]
Within(w, t) == t.at <= w /\ w < EndOf(t)
HeapOK(heap) == heap \in Heaps /\ HeapWhole(heap)

LEMMA WholeIs ==
  ASSUME NEW heap \in Heaps
  PROVE  HeapWhole(heap) <=>
           /\ heap.live \cap heap.arena.free = {}
           /\ \A w \in Int : (0 <= w /\ w < heap.arena.top) <=>
                              \E t \in heap.live \cup heap.arena.free : Within(w, t)
           /\ Apart(heap.live \cup heap.arena.free)
           /\ Merged(heap.arena.free)
           /\ heap.arena.top <= heap.size
  <1> DEFINE all == heap.live \cup heap.arena.free
             U == UNION {Words(s) : s \in all}
  <1>1. all \in SUBSET Spans /\ heap.arena.top \in Nat BY DEF Heaps
  <1>2. Apart(all) <=> \A s, t \in all : s # t => Words(s) \cap Words(t) = {}
    BY <1>1, ClearWords DEF Apart
  <1>3. \A t \in all : \A w : w \in Words(t) <=> w \in Int /\ Within(w, t)
    BY <1>1, SpanParts DEF Words, Within
  <1>4. \A w : w \in U <=> \E t \in all : w \in Words(t) OBVIOUS
  <1>5. \A w : w \in 0 .. heap.arena.top - 1 <=> w \in Int /\ 0 <= w /\ w < heap.arena.top
    BY <1>1
  <1> HIDE DEF U
  <1>6. U = 0 .. heap.arena.top - 1 <=>
            \A w \in Int : (0 <= w /\ w < heap.arena.top) <=> \E t \in all : Within(w, t)
    <2>1. \A w : w \in U <=> w \in Int /\ \E t \in all : Within(w, t) BY <1>3, <1>4
    <2> HIDE DEF all
    <2> QED BY <1>5, <2>1
  <1> QED BY <1>2, <1>6 DEF HeapWhole, Merged, U

LEMMA LeastOf ==
  ASSUME NEW S, S \subseteq Nat, S # {} PROVE \E m \in S : \A k \in S : m <= k
  <1> DEFINE R == {ss \in Nat \X Nat : ss[1] < ss[2]}
  <1>1. IsWellFoundedOn(R, Nat) BY NatLessThanWellFounded DEF OpToRel
  <1>2. PICK x \in S : \A y \in S : ~ (<<y, x>> \in R)
    <2> HIDE DEF R
    <2> QED BY <1>1, WFMin
  <1>3. ASSUME NEW y \in S PROVE x <= y
    <2>1. <<y, x>> \in Nat \X Nat /\ <<y, x>> \notin R BY <1>2
    <2> QED BY <2>1
  <1> QED BY <1>3

LEMMA HeapParts ==
  ASSUME NEW heap \in Heaps, NEW a, NEW s
  PROVE  /\ [heap EXCEPT !.arena = a, !.live = s] = [arena |-> a, size |-> heap.size, live |-> s]
         /\ [heap EXCEPT !.arena.free = a, !.live = s]
                = [arena |-> [free |-> a, top |-> heap.arena.top], size |-> heap.size, live |-> s]
  <1> DEFINE b == [heap.arena EXCEPT !.free = a]
  <1>1. heap = [arena |-> heap.arena, size |-> heap.size, live |-> heap.live] BY DEF Heaps
  <1>2. heap.arena = [free |-> heap.arena.free, top |-> heap.arena.top] BY DEF Heaps
  <1>3. b = [free |-> a, top |-> heap.arena.top] BY <1>2
  <1>4. ASSUME NEW x PROVE [heap EXCEPT !.arena = x, !.live = s] = [arena |-> x, size |-> heap.size, live |-> s]
    <2> DEFINE y == [heap EXCEPT !.arena = x]
    <2>1. y = [arena |-> x, size |-> heap.size, live |-> heap.live] BY <1>1
    <2> HIDE DEF y
    <2>2. [y EXCEPT !.live = s] = [arena |-> x, size |-> heap.size, live |-> s] BY <2>1
    <2> QED BY <2>2 DEF y
  <1> QED BY <1>3, <1>4

(* The first span that fits is one that does.                              *)
LEMMA FirstFits ==
  ASSUME NEW free \in SUBSET Spans, NEW n \in Nat, Fits(free, n) # {}
  PROVE  FirstFit(free, n) \in free /\ FirstFit(free, n).n >= n
  <1> DEFINE T == {s.at : s \in Fits(free, n)}
  <1>1. T \subseteq Nat /\ T # {} BY DEF Spans, Fits
  <1>2. PICK x \in T : \A y \in T : x <= y BY <1>1, LeastOf
  <1>3. \E s \in Fits(free, n) : \A t \in Fits(free, n) : s.at <= t.at BY <1>2
  <1>4. FirstFit(free, n) \in Fits(free, n) BY <1>3 DEF FirstFit
  <1> QED BY <1>4 DEF Fits

(* What is taken was free or is new, and the rest is as it was.            *)
LEMMA TakeKeeps ==
  ASSUME NEW heap, HeapOK(heap), NEW n \in Nat \ {0}, HeapHas(heap, n)
  PROVE  LET at == Take(heap.arena, n).at
         IN  /\ at \in Nat
             /\ HeapOK(HeapTake(heap, n))
             /\ HeapTake(heap, n).live = heap.live \cup {Span(at, n)}
             /\ \A s \in heap.live : s.at # at
  <1> DEFINE free == heap.arena.free
             top == heap.arena.top
             live == heap.live
             all == live \cup free
             at == Take(heap.arena, n).at
             new == HeapTake(heap, n)
  <1>1. heap \in Heaps /\ free \in SUBSET Spans /\ top \in Nat /\ live \in SUBSET Spans /\ heap.size \in Nat
    BY DEF HeapOK, Heaps
  <1>2. /\ live \cap free = {}
        /\ \A w \in Int : (0 <= w /\ w < top) <=> \E t \in all : Within(w, t)
        /\ Apart(all) /\ Merged(free) /\ top <= heap.size
    BY <1>1, WholeIs DEF HeapOK
  <1>3. \A s \in Spans : s.at \in Nat /\ EndOf(s) \in Nat /\ s.at < EndOf(s) BY SpanParts
  <1>4. new = [arena |-> Take(heap.arena, n).arena, size |-> heap.size, live |-> live \cup {Span(at, n)}]
    <2> DEFINE a == Take(heap.arena, n).arena
               l == live \cup {Span(at, n)}
    <2>1. new = [heap EXCEPT !.arena = a, !.live = l] BY DEF HeapTake
    <2> HIDE DEF a, l, new
    <2>2. new = [arena |-> a, size |-> heap.size, live |-> l] BY <1>1, <2>1, HeapParts, ZenonT(60)
    <2> QED BY <2>2 DEF a, l
  <1>5. heap.arena = [free |-> free, top |-> top] BY <1>1 DEF Heaps
  <1>6. CASE Fits(free, n) = {}
    <2> DEFINE s == Span(top, n)
    <2>1. at = top /\ Take(heap.arena, n).arena = [free |-> free, top |-> top + n]
      BY <1>5, <1>6 DEF Take
    <2>2. s \in Spans /\ s.at = top /\ EndOf(s) = top + n BY <1>1 DEF Span, Spans, EndOf
    <2>3. top + n <= heap.size BY <1>6 DEF HeapHas
    <2>4. \A t \in all : EndOf(t) <= top
      <3> TAKE t \in all
      <3>1. EndOf(t) - 1 \in Int /\ Within(EndOf(t) - 1, t) BY <1>1, <1>3 DEF Within
      <3>2. EndOf(t) - 1 < top BY <1>2, <3>1
      <3> QED BY <1>1, <1>3, <3>2
    <2>5. \A t \in all : Clear(t, s) /\ Clear(s, t) /\ t # s /\ t.at # top
      BY <1>1, <1>3, <2>2, <2>4 DEF Clear
    <2> HIDE DEF s
    <2>6. new.arena.free = free /\ new.arena.top = top + n /\ new.size = heap.size /\ new.live = live \cup {s}
      BY <1>4, <2>1 DEF s
    <2>7. new \in Heaps BY <1>1, <1>4, <2>1, <2>2 DEF Heaps, s
    <2>8. Apart((live \cup {s}) \cup free) BY <1>2, <2>5 DEF Apart
    <2>9. ASSUME NEW w \in Int
          PROVE  (0 <= w /\ w < top + n) <=> \E t \in (live \cup {s}) \cup free : Within(w, t)
      <3>1. (0 <= w /\ w < top + n) <=> (0 <= w /\ w < top) \/ Within(w, s)
        BY <1>1, <2>2 DEF Within
      <3> QED BY <1>2, <3>1
    <2>10. HeapWhole(new)
      BY <1>2, <2>3, <2>5, <2>6, <2>7, <2>8, <2>9, WholeIs
    <2> QED BY <1>1, <2>1, <2>5, <2>6, <2>7, <2>10 DEF HeapOK, s
  <1>7. CASE Fits(free, n) # {}
    <2> DEFINE f == FirstFit(free, n)
               s == Span(f.at, n)
               r == Span(f.at + n, f.n - n)
               left == free \ {f}
               G == IF f.n > n THEN Give(left, r) ELSE left
    <2>1. f \in free /\ f.n >= n BY <1>1, <1>7, FirstFits
    <2>2. at = f.at /\ Take(heap.arena, n).arena = [free |-> G, top |-> top]
      BY <1>5, <1>7 DEF Take
    <2>3. f \in Spans /\ f.at \in Nat /\ f.n \in Nat \ {0} /\ EndOf(f) = f.at + f.n
      BY <1>1, <2>1 DEF Spans, EndOf
    <2>4. s \in Spans /\ s.at = f.at /\ EndOf(s) = f.at + n BY <2>1, <2>3 DEF Span, Spans, EndOf
    <2>5. f.n > n => r \in Spans /\ r.at = f.at + n /\ EndOf(r) = EndOf(f)
      BY <2>1, <2>3 DEF Span, Spans, EndOf
    <2>6. f.n = n => s = f BY <2>3 DEF Span, Spans
    <2> HIDE DEF f, s, r
    <2>7. /\ \A t \in live \cup left : Clear(t, f) /\ Clear(f, t)
          /\ \A t \in live \cup left : \A u \in live \cup left : t # u => Clear(t, u)
      BY <1>2, <2>1 DEF Apart
    <2>8. \A t \in live \cup left : Clear(t, s) /\ Clear(s, t) /\ t # s /\ t.at # f.at
      BY <1>1, <1>3, <2>1, <2>3, <2>4, <2>7 DEF Clear
    <2>9. /\ G \in SUBSET Spans /\ Apart(G) /\ Merged(G)
          /\ \A w \in Int : (\E t \in G : Within(w, t)) \/ Within(w, s) <=> \E t \in free : Within(w, t)
          /\ \A u \in Spans : (\A t \in left : Clear(u, t)) /\ Clear(u, f) => \A t \in G : Clear(u, t)
          /\ \A t \in G : Clear(s, t)
      <3>1. CASE f.n > n
        <4>1. G = Give(left, r) BY <3>1
        <4>2. r \in Spans /\ r.at = f.at + n /\ EndOf(r) = EndOf(f) BY <2>5, <3>1
        <4>3. \A t \in live \cup left : Clear(t, r) /\ Clear(r, t) /\ t # r
          BY <1>1, <1>3, <2>1, <2>3, <2>7, <4>2 DEF Clear
        <4>4. left \in SUBSET Spans /\ r \notin left /\ Apart(left \cup {r}) /\ Merged(left)
          BY <1>1, <1>2, <2>7, <4>3 DEF Apart, Merged
        <4>5. /\ Give(left, r) \in SUBSET Spans
              /\ Apart(Give(left, r))
              /\ Merged(Give(left, r))
              /\ \A w \in Int : (\E t \in Give(left, r) : t.at <= w /\ w < EndOf(t))
                             <=> (\E t \in left \cup {r} : t.at <= w /\ w < EndOf(t))
              /\ \A u \in Spans : (\A t \in left \cup {r} : Clear(u, t)) => \A t \in Give(left, r) : Clear(u, t)
          BY <4>2, <4>4, GiveCorrect
        <4>6. ASSUME NEW w \in Int
              PROVE  (\E t \in G : Within(w, t)) \/ Within(w, s) <=> \E t \in free : Within(w, t)
          <5>1. (\E t \in G : Within(w, t)) <=> (\E t \in left : Within(w, t)) \/ Within(w, r)
            BY <4>1, <4>5 DEF Within
          <5>2. Within(w, f) <=> Within(w, s) \/ Within(w, r)
            BY <2>1, <2>3, <2>4, <4>2 DEF Within
          <5> QED BY <2>1, <5>1, <5>2
        <4>7. ASSUME NEW u \in Spans, \A t \in left : Clear(u, t), Clear(u, f)
              PROVE  \A t \in G : Clear(u, t)
          <5>1. Clear(u, r) BY <1>3, <2>1, <2>3, <4>2, <4>7 DEF Clear
          <5> QED BY <4>1, <4>5, <4>7, <5>1
        <4>8. \A t \in G : Clear(s, t)
          <5>1. Clear(s, r) BY <2>3, <2>4, <4>2 DEF Clear
          <5> QED BY <2>4, <2>8, <4>1, <4>5, <5>1
        <4> QED BY <4>1, <4>5, <4>6, <4>7, <4>8
      <3>2. CASE f.n = n
        <4>1. G = left /\ s = f BY <2>6, <3>2
        <4>2. G \in SUBSET Spans BY <1>1, <4>1
        <4>3. Apart(G) BY <2>7, <4>1 DEF Apart
        <4>4. Merged(G) BY <1>2, <4>1 DEF Merged
        <4>5. \A w \in Int : (\E t \in G : Within(w, t)) \/ Within(w, s) <=> \E t \in free : Within(w, t)
          BY <2>1, <4>1
        <4>6. \A u \in Spans : (\A t \in left : Clear(u, t)) /\ Clear(u, f) => \A t \in G : Clear(u, t)
          BY <4>1
        <4>7. \A t \in G : Clear(s, t) BY <2>8, <4>1
        <4> HIDE DEF G, left
        <4> QED BY <4>2, <4>3, <4>4, <4>5, <4>6, <4>7
      <3>3. f.n > n \/ f.n = n BY <2>1, <2>3
      <3> HIDE DEF G
      <3> QED BY <3>1, <3>2, <3>3
    <2> HIDE DEF G
    <2>10. new.arena.free = G /\ new.arena.top = top /\ new.size = heap.size /\ new.live = live \cup {s}
      BY <1>4, <2>2 DEF s
    <2>11. new \in Heaps BY <1>1, <1>4, <2>2, <2>4, <2>9 DEF Heaps, s
    <2>12. \A t \in live \cup {s} : \A u \in G : Clear(t, u) /\ Clear(u, t)
      <3>1. ASSUME NEW t \in live, NEW u \in G PROVE Clear(t, u)
        <4>1. t \in Spans /\ Clear(t, f) BY <1>1, <2>7
        <4>2. \A v \in left : Clear(t, v) BY <1>2, <2>1 DEF Apart
        <4> QED BY <2>9, <4>1, <4>2
      <3> QED BY <2>9, <3>1 DEF Clear
    <2>13. Apart((live \cup {s}) \cup G)
      <3>1. \A t, u \in live \cup {s} : t # u => Clear(t, u) BY <2>7, <2>8
      <3>2. \A t, u \in G : t # u => Clear(t, u) BY <2>9 DEF Apart
      <3> QED BY <2>12, <3>1, <3>2 DEF Apart
    <2>14. (live \cup {s}) \cap G = {}
      <3>1. \A t \in Spans : ~Clear(t, t) BY <1>3 DEF Clear
      <3> QED BY <2>9, <2>12, <3>1
    <2>15. ASSUME NEW w \in Int
           PROVE  (0 <= w /\ w < top) <=> \E t \in (live \cup {s}) \cup G : Within(w, t)
      <3>1. (\E t \in (live \cup {s}) \cup G : Within(w, t))
              <=> (\E t \in live : Within(w, t)) \/ (\E t \in G : Within(w, t)) \/ Within(w, s) OBVIOUS
      <3>2. (\E t \in all : Within(w, t)) <=> (\E t \in live : Within(w, t)) \/ (\E t \in free : Within(w, t)) OBVIOUS
      <3> QED BY <1>2, <2>9, <3>1, <3>2
    <2>16. HeapWhole(new) BY <1>2, <2>9, <2>10, <2>11, <2>13, <2>14, <2>15, WholeIs
    <2> QED BY <2>2, <2>3, <2>8, <2>10, <2>11, <2>16 DEF HeapOK, s
  <1> QED BY <1>6, <1>7

(* What is given back is free, and the rest is as it was.                  *)
LEMMA GiveKeeps ==
  ASSUME NEW heap, HeapOK(heap), NEW s \in heap.live
  PROVE  HeapOK(HeapGive(heap, s.at)) /\ HeapGive(heap, s.at).live = heap.live \ {s}
  <1> DEFINE free == heap.arena.free
             top == heap.arena.top
             live == heap.live
             new == HeapGive(heap, s.at)
             G == Give(free, s)
  <1>1. heap \in Heaps /\ free \in SUBSET Spans /\ top \in Nat /\ live \in SUBSET Spans /\ heap.size \in Nat
    BY DEF HeapOK, Heaps
  <1>2. /\ live \cap free = {}
        /\ \A w \in Int : (0 <= w /\ w < top) <=> \E t \in live \cup free : Within(w, t)
        /\ Apart(live \cup free) /\ Merged(free) /\ top <= heap.size
    BY <1>1, WholeIs DEF HeapOK
  <1>3. \A t \in live : t.at = s.at => t = s
    BY <1>1, <1>2, SpanParts DEF Apart, Clear
  <1>4. (CHOOSE t \in live : t.at = s.at) = s BY <1>3
  <1>5. new = [arena |-> [free |-> G, top |-> top], size |-> heap.size, live |-> live \ {s}]
    <2> DEFINE l == live \ {s}
    <2>1. new = [heap EXCEPT !.arena.free = G, !.live = l] BY <1>4 DEF HeapGive
    <2> HIDE DEF G, l, new
    <2> QED BY <1>1, <2>1, HeapParts DEF l
  <1>6. /\ \A t \in live \cup free : t # s => Clear(t, s) /\ Clear(s, t)
        /\ \A t, u \in live \cup free : t # u => Clear(t, u)
    BY <1>2 DEF Apart
  <1>7. s \in Spans /\ s \notin free /\ Apart(free \cup {s})
    BY <1>1, <1>2 DEF Apart
  <1>8. /\ G \in SUBSET Spans /\ Apart(G) /\ Merged(G)
        /\ \A w \in Int : (\E t \in G : Within(w, t)) <=> \E t \in free \cup {s} : Within(w, t)
        /\ \A u \in Spans : (\A t \in free \cup {s} : Clear(u, t)) => \A t \in G : Clear(u, t)
    BY <1>1, <1>2, <1>7, GiveCorrect DEF Within
  <1> HIDE DEF G, new
  <1>9. new \in Heaps BY <1>1, <1>5, <1>8 DEF Heaps
  <1>10. ASSUME NEW t \in live \ {s}, NEW u \in G PROVE Clear(t, u) /\ Clear(u, t)
    <2>1. \A v \in free \cup {s} : Clear(t, v) BY <1>2, <1>6
    <2>2. Clear(t, u) BY <1>1, <1>8, <2>1
    <2> QED BY <2>2 DEF Clear
  <1>11. Apart((live \ {s}) \cup G)
    <2>1. \A t, u \in G : t # u => Clear(t, u) BY <1>8 DEF Apart
    <2> QED BY <1>6, <1>10, <2>1 DEF Apart
  <1>12. (live \ {s}) \cap G = {}
    <2>1. \A t \in Spans : ~Clear(t, t) BY SpanParts DEF Clear
    <2> QED BY <1>1, <1>10, <2>1
  <1>13. ASSUME NEW w \in Int
         PROVE  (0 <= w /\ w < top) <=> \E t \in (live \ {s}) \cup G : Within(w, t)
    <2>1. (\E t \in live \cup free : Within(w, t))
             <=> (\E t \in live \ {s} : Within(w, t)) \/ \E t \in free \cup {s} : Within(w, t) OBVIOUS
    <2> QED BY <1>2, <1>8, <2>1
  <1>14. new.arena.free = G /\ new.arena.top = top /\ new.size = heap.size /\ new.live = live \ {s}
    BY <1>5
  <1>15. HeapWhole(new) BY <1>2, <1>8, <1>9, <1>11, <1>12, <1>13, <1>14, WholeIs
  <1> QED BY <1>9, <1>14, <1>15 DEF HeapOK, new

LEMMA RoundedUp ==
  ASSUME NEW n \in Nat \ {0}, NEW q \in Nat \ {0} PROVE RoundUp(n, q) \in Nat \ {0}
  <1> DEFINE d == (n + q - 1) \div q
  <1>1. d \in Int /\ d >= 1
    <2> DEFINE a == n + q - 1
    <2>1. a \in Nat /\ a >= q OBVIOUS
    <2>2. a = q * (a \div q) + (a % q) /\ a % q \in 0 .. q - 1 /\ a \div q \in Int BY <2>1
    <2>3. ASSUME a \div q <= 0 PROVE FALSE
      <3>1. q * (a \div q) <= 0 BY <2>2, <2>3
      <3> QED BY <2>1, <2>2, <3>1
    <2> QED BY <2>2, <2>3
  <1> HIDE DEF d
  <1>2. d * q \in Int /\ d * q >= 1 BY <1>1
  <1> QED BY <1>2 DEF RoundUp, d

(***************************************************************************)
(* The driver's own state, over any session.                               *)
(***************************************************************************)
Buffers == Seq([at : Nat, n : Nat \ {0}, freed : BOOLEAN])
HostInv ==
  /\ ask \in Sessions /\ done \in Nat
  /\ "heap" \in DOMAIN host /\ "bufs" \in DOMAIN host
  /\ HeapOK(host.heap) /\ host.bufs \in Buffers /\ BuffersOwn

LEMMA HostInit == ASSUME Init PROVE HostInv
  <1> DEFINE size == ask.board.words
             new == NewHeap(size)
  <1>1. ask \in Sessions /\ done = 0 /\ host.heap = new /\ host.bufs = <<>>
        /\ "heap" \in DOMAIN host /\ "bufs" \in DOMAIN host
    BY DEF Init
  <1>2. size \in Nat BY <1>1, SessionsAssumption
  <1>3. new = [arena |-> [free |-> {}, top |-> 0], size |-> size, live |-> {}] BY DEF NewHeap
  <1>4. new \in Heaps BY <1>2, <1>3 DEF Heaps
  <1>5. HeapWhole(new) BY <1>2, <1>3, <1>4, WholeIs DEF Apart, Merged
  <1> HIDE DEF new
  <1>6. <<>> \in Buffers BY DEF Buffers
  <1>7. BuffersOwn BY <1>1 DEF BuffersOwn
  <1> QED BY <1>1, <1>4, <1>5, <1>6, <1>7 DEF HostInv, HeapOK

(* What every step but two leaves alone.                                   *)
Same ==
  /\ ask' = ask /\ done' \in Nat /\ DOMAIN host' = DOMAIN host
  /\ host'.heap = host.heap /\ host'.bufs = host.bufs

LEMMA SameKeeps == ASSUME HostInv, Same PROVE HostInv'
  BY DEF HostInv, Same, BuffersOwn

LEMMA OthersSame ==
  ASSUME HostInv, [Next]_vars, ~Allocate, ~Release PROVE Same
  <1>1. ASSUME Begin PROVE Same BY <1>1 DEF Begin, Same, HostInv, Still
  <1>2. ASSUME Expand PROVE Same BY <1>2 DEF Expand, Same, HostInv, Still, Kept
  <1>3. ASSUME Ending PROVE Same BY <1>3 DEF Ending, Same, HostInv, Finish
  <1>4. ASSUME Failing PROVE Same BY <1>4 DEF Failing, Same, HostInv, Finish
  <1>5. ASSUME Upload PROVE Same BY <1>5 DEF Upload, Same, HostInv, Still
  <1>6. ASSUME Stage PROVE Same BY <1>6 DEF Stage, Same, HostInv, Still
  <1>7. ASSUME Write PROVE Same BY <1>7 DEF Write, Same, HostInv, Still
  <1>8. ASSUME Await PROVE Same BY <1>8 DEF Await, Same, HostInv, Still
  <1>9. ASSUME ReadReg PROVE Same BY <1>9 DEF ReadReg, Same, HostInv, Still
  <1>10. ASSUME Drain PROVE Same BY <1>10 DEF Drain, Same, HostInv, Still
  <1>11. ASSUME Send PROVE Same BY <1>11 DEF Send, Same, HostInv, Still
  <1>12. ASSUME TakeReply PROVE Same BY <1>12 DEF TakeReply, Same, HostInv, Still
  <1>13. ASSUME NoReply PROVE Same BY <1>13 DEF NoReply, Same, HostInv, Waited, Still
  <1>14. ASSUME NoMatch PROVE Same BY <1>14 DEF NoMatch, Same, HostInv, Waited, Finish
  <1>15. ASSUME Retry PROVE Same BY <1>15 DEF Retry, Same, HostInv, Still
  <1>16. ASSUME TransferFails PROVE Same BY <1>16 DEF TransferFails, Same, HostInv, Finish
  <1>17. ASSUME Unreadable PROVE Same BY <1>17 DEF Unreadable, Same, HostInv, Finish
  <1>18. ASSUME JtagWrite PROVE Same BY <1>18 DEF JtagWrite, Same, HostInv, Still
  <1>19. ASSUME JtagRead PROVE Same BY <1>19 DEF JtagRead, Same, HostInv, Still
  <1>20. ASSUME Open PROVE Same
    <2>1. Len(ask.script) \in Nat BY SessionsAssumption DEF HostInv
    <2> QED BY <1>20, <2>1 DEF Open, Same, HostInv
  <1>21. ASSUME NEW k \in 1..Want, Transfer(k) PROVE Same
    BY <1>21 DEF Transfer, Same, HostInv, Still
  <1>22. ASSUME UNCHANGED hostVars PROVE Same BY <1>22 DEF hostVars, Same, HostInv
  <1> QED BY <1>1, <1>2, <1>3, <1>4, <1>5, <1>6, <1>7, <1>8, <1>9, <1>10, <1>11, <1>12, <1>13, <1>14, <1>15, <1>16, <1>17, <1>18, <1>19, <1>20, <1>21, <1>22 DEF Next, HostNext, Closed, vars

LEMMA AllocateKeeps == ASSUME HostInv, Allocate PROVE HostInv'
  <1> DEFINE c == Call
             n == RoundUp(c.n, Hw.align)
             at == Take(host.heap.arena, n).at
             b == [at |-> at, n |-> n, freed |-> FALSE]
  <1>1. ask' = ask /\ done' = done BY DEF Allocate, Still
  <1>2. CASE UNCHANGED host BY <1>1, <1>2, SameKeeps DEF Same, HostInv
  <1>3. CASE ~UNCHANGED host
    <2>1. /\ c.n > 0 /\ HeapHas(host.heap, n)
          /\ host' = [host EXCEPT !.heap = HeapTake(@, n), !.bufs = Append(@, b)]
      <3>1. /\ ~(c.n <= 0) /\ HeapHas(host.heap, n)
            /\ host' = [host EXCEPT !.heap = HeapTake(@, n), !.bufs = Append(@, b)]
        BY <1>3 DEF Allocate
      <3>2. c.n \in Int
        <4>1. done < Len(ask.script) /\ c.m = "alloc" BY DEF Allocate, Calls
        <4>2. Len(ask.script) \in Nat /\ done + 1 \in 1..Len(ask.script)
          BY <4>1, SessionsAssumption DEF HostInv
        <4> QED BY <4>1, <4>2, SessionsAssumption DEF HostInv, Call
      <3> QED BY <3>1, <3>2
    <2>2. n \in Nat \ {0}
      <3>1. c.n \in Nat \ {0}
        <4>1. done < Len(ask.script) /\ c.m = "alloc" BY DEF Allocate, Calls
        <4>2. Len(ask.script) \in Nat /\ done + 1 \in 1..Len(ask.script)
          BY <4>1, SessionsAssumption DEF HostInv
        <4>3. c.n \in Int BY <4>1, <4>2, SessionsAssumption DEF HostInv, Call
        <4> QED BY <2>1, <4>3
      <3> QED BY <3>1, RoundedUp, SessionsAssumption
    <2> HIDE DEF c, n
    <2>3. /\ at \in Nat /\ HeapOK(HeapTake(host.heap, n))
          /\ HeapTake(host.heap, n).live = host.heap.live \cup {Span(at, n)}
          /\ \A s \in host.heap.live : s.at # at
      BY <2>1, <2>2, TakeKeeps DEF HostInv
    <2>4. b \in [at : Nat, n : Nat \ {0}, freed : BOOLEAN] BY <2>2, <2>3
    <2> HIDE DEF b, at
    <2>5. /\ DOMAIN host' = DOMAIN host /\ host'.heap = HeapTake(host.heap, n)
          /\ host'.bufs = Append(host.bufs, b)
      BY <2>1 DEF HostInv
    <2>6. host.bufs \in Buffers /\ host'.bufs \in Buffers
      BY <2>4, <2>5 DEF HostInv, Buffers
    <2>7. /\ DOMAIN host.bufs = 1..Len(host.bufs) /\ Len(host.bufs) \in Nat
          /\ DOMAIN host'.bufs = 1..(Len(host.bufs) + 1)
          /\ \A i \in 1..Len(host.bufs) : host'.bufs[i] = host.bufs[i]
          /\ host'.bufs[Len(host.bufs) + 1] = b
      BY <2>5, <2>6 DEF Buffers
    <2>8. b.at = at /\ b.n = n BY DEF b
    <2>9. \A i \in DOMAIN host.bufs : ~host.bufs[i].freed =>
             /\ Span(host.bufs[i].at, host.bufs[i].n) \in host.heap.live
             /\ host.bufs[i].at # at
      BY <2>3 DEF HostInv, BuffersOwn, Span
    <2>10. BuffersOwn'
      <3> SUFFICES ASSUME NEW i \in 1..(Len(host.bufs) + 1), ~host'.bufs[i].freed
                   PROVE  /\ Span(host'.bufs[i].at, host'.bufs[i].n) \in host'.heap.live
                          /\ \A j \in 1..(Len(host.bufs) + 1) :
                                 ~host'.bufs[j].freed /\ j # i => host'.bufs[j].at # host'.bufs[i].at
        BY <2>7 DEF BuffersOwn
      <3>1. host'.heap.live = host.heap.live \cup {Span(at, n)} BY <2>3, <2>5
      <3>2. CASE i = Len(host.bufs) + 1
        <4>1. \A j \in 1..(Len(host.bufs) + 1) : j # i => j \in 1..Len(host.bufs) BY <2>7, <3>2
        <4> QED BY <2>7, <2>8, <2>9, <3>1, <3>2, <4>1
      <3>3. CASE i \in 1..Len(host.bufs)
        <4>1. ~host.bufs[i].freed BY <2>7, <3>3
        <4>2. \A j \in 1..(Len(host.bufs) + 1) : j \in 1..Len(host.bufs) \/ j = Len(host.bufs) + 1
          BY <2>7
        <4>3. \A j \in 1..Len(host.bufs) :
                 ~host.bufs[j].freed /\ j # i => host.bufs[j].at # host.bufs[i].at
          BY <2>7, <3>3, <4>1 DEF HostInv, BuffersOwn
        <4> QED BY <2>7, <2>8, <2>9, <3>1, <3>3, <4>1, <4>2, <4>3, ZenonT(40)
      <3> QED BY <2>7, <3>2, <3>3
    <2> QED BY <1>1, <2>3, <2>5, <2>6, <2>10 DEF HostInv
  <1> QED BY <1>2, <1>3

LEMMA ItemOf == ASSUME NEW T, NEW q \in Seq(T), NEW i \in DOMAIN q PROVE q[i] \in T
  OBVIOUS

LEMMA FreedOf ==
  ASSUME NEW r \in [at : Nat, n : Nat \ {0}, freed : BOOLEAN]
  PROVE  /\ [r EXCEPT !.freed = TRUE] \in [at : Nat, n : Nat \ {0}, freed : BOOLEAN]
         /\ [r EXCEPT !.freed = TRUE].freed
  <1>1. /\ r.at \in Nat /\ r.n \in Nat \ {0}
        /\ r = [at |-> r.at, n |-> r.n, freed |-> r.freed]
    OBVIOUS
  <1>2. [r EXCEPT !.freed = TRUE] = [at |-> r.at, n |-> r.n, freed |-> TRUE]
    <2> DEFINE v == TRUE
    <2> HIDE DEF v
    <2>1. [r EXCEPT !.freed = v] = [at |-> r.at, n |-> r.n, freed |-> v] BY <1>1
    <2> QED BY <2>1 DEF v
  <1>3. [at |-> r.at, n |-> r.n, freed |-> TRUE] \in [at : Nat, n : Nat \ {0}, freed : BOOLEAN]
    BY <1>1, Zenon
  <1>4. [at |-> r.at, n |-> r.n, freed |-> TRUE].freed OBVIOUS
  <1> QED BY <1>2, <1>3, <1>4, Zenon

LEMMA ReleaseKeeps == ASSUME HostInv, Release PROVE HostInv'
  <1> DEFINE b == Call.buf
             s == Span(host.bufs[b].at, host.bufs[b].n)
  <1>1. ask' = ask /\ done' = done BY DEF Release, Still
  <1>2. CASE UNCHANGED host BY <1>1, <1>2, SameKeeps DEF Same, HostInv
  <1>3. CASE ~UNCHANGED host
    <2>1. /\ b \in DOMAIN host.bufs /\ ~host.bufs[b].freed
          /\ host' = [host EXCEPT !.heap = HeapGive(@, host.bufs[b].at), !.bufs[b].freed = TRUE]
      BY <1>3 DEF Release, Freed
    <2>2. s \in host.heap.live /\ s.at = host.bufs[b].at
      BY <2>1 DEF HostInv, BuffersOwn, Span
    <2>3. /\ HeapOK(HeapGive(host.heap, host.bufs[b].at))
          /\ HeapGive(host.heap, host.bufs[b].at).live = host.heap.live \ {s}
      BY <2>2, GiveKeeps DEF HostInv
    <2>4. /\ DOMAIN host' = DOMAIN host /\ host'.heap = HeapGive(host.heap, host.bufs[b].at)
          /\ host'.bufs = [host.bufs EXCEPT ![b].freed = TRUE]
      BY <2>1 DEF HostInv
    <2>5. host.bufs \in Seq([at : Nat, n : Nat \ {0}, freed : BOOLEAN]) BY DEF HostInv, Buffers
    <2>6. /\ [host.bufs[b] EXCEPT !.freed = TRUE] \in [at : Nat, n : Nat \ {0}, freed : BOOLEAN]
          /\ [host.bufs[b] EXCEPT !.freed = TRUE].freed
      <3>1. host.bufs[b] \in [at : Nat, n : Nat \ {0}, freed : BOOLEAN] BY <2>1, <2>5, ItemOf, Zenon
      <3> QED BY <3>1, FreedOf
    <2>7. host'.bufs \in Buffers BY <2>1, <2>4, <2>5, <2>6, SMTT(40) DEF Buffers
    <2>8. /\ DOMAIN host'.bufs = DOMAIN host.bufs /\ host'.bufs[b].freed
          /\ \A i \in DOMAIN host.bufs : i # b => host'.bufs[i] = host.bufs[i]
      <3> DEFINE r == [host.bufs[b] EXCEPT !.freed = TRUE]
      <3>1. host'.bufs = [host.bufs EXCEPT ![b] = r] BY <2>4
      <3>2. r.freed BY <2>6
      <3> HIDE DEF r
      <3> QED BY <2>1, <3>1, <3>2
    <2>9. BuffersOwn'
      <3> SUFFICES ASSUME NEW i \in DOMAIN host.bufs, ~host'.bufs[i].freed
                   PROVE  /\ Span(host'.bufs[i].at, host'.bufs[i].n) \in host'.heap.live
                          /\ \A j \in DOMAIN host.bufs :
                                 ~host'.bufs[j].freed /\ j # i => host'.bufs[j].at # host'.bufs[i].at
        BY <2>8 DEF BuffersOwn
      <3>1. i # b /\ host'.bufs[i] = host.bufs[i] BY <2>8
      <3>2. /\ Span(host.bufs[i].at, host.bufs[i].n) \in host.heap.live
            /\ host.bufs[i].at # host.bufs[b].at
            /\ \A j \in DOMAIN host.bufs : ~host.bufs[j].freed /\ j # i => host.bufs[j].at # host.bufs[i].at
        BY <2>1, <3>1 DEF HostInv, BuffersOwn
      <3>3. Span(host.bufs[i].at, host.bufs[i].n) # s BY <3>2 DEF Span
      <3>4. Span(host'.bufs[i].at, host'.bufs[i].n) \in host'.heap.live
        BY <2>3, <2>4, <3>1, <3>2, <3>3
      <3>5. ASSUME NEW j \in DOMAIN host.bufs, ~host'.bufs[j].freed, j # i
            PROVE  host'.bufs[j].at # host'.bufs[i].at
        <4>1. host'.bufs[j] = host.bufs[j] BY <2>8, <3>5
        <4> QED BY <3>1, <3>2, <3>5, <4>1
      <3> QED BY <3>4, <3>5
    <2> QED BY <1>1, <2>3, <2>4, <2>7, <2>9 DEF HostInv
  <1> QED BY <1>2, <1>3

(* Whatever a session calls, and in whatever order: the allocator's words  *)
(* are in use or free, once each and merged, and a buffer that is not      *)
(* freed has a span of its own.                                            *)
THEOREM WordsOnce == Spec => []ArenaWhole
  <1>1. Init => HostInv BY HostInit
  <1>2. HostInv /\ [Next]_vars => HostInv'
    BY OthersSame, SameKeeps, AllocateKeeps, ReleaseKeeps
  <1>3. HostInv => ArenaWhole BY DEF HostInv, HeapOK, ArenaWhole
  <1> QED BY <1>1, <1>2, <1>3, PTL DEF Spec
=============================================================================
