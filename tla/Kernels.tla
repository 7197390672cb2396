------------------------------ MODULE Kernels -------------------------------
(***************************************************************************)
(* The kernels the library has (dsl/library.py, dsl/nn.py): Python functions *)
(* over traced values whose loops run while tracing.  One that returns      *)
(* several values, or threads some through a loop, leaves them in t.vs.  A  *)
(* number of the code that is no integer is an integer here.                *)
(***************************************************************************)
EXTENDS Tracer
LOCAL INSTANCE FiniteSetsExt
LOCAL INSTANCE SequencesExt

LOG2_E == 3
GELU_SCALE == 1
GELU_CUBIC == 2
BIG == 32768 % P
eps == 1

range(n) == [i \in 1 .. n |-> i - 1]

(* A loop of Python over the elements of seq, from the traces ts.           *)
Loop(ts, seq, Body(_, _)) ==
    FoldLeft(LAMBDA us, i : Then(us, LAMBDA u : Body(u, i)), ts, seq)

(* e^x is 2^(x log2 e).                                                     *)
exp(t, x) == Then(WithScalar(t, "mul", x, LOG2_E), LAMBDA s : UnaryOp(s, "exp2", s.v))

sigmoid(t, x) ==
    Then(UnaryOp(t, "neg", x), LAMBDA n :
    Then(exp(n, n.v), LAMBDA e :
    Then(ScalarWith(e, "add", 1, e.v), LAMBDA d :
         UnaryOp(d, "recip", d.v))))

tanh(t, x) ==
    Then(ScalarWith(t, "mul", 2, x), LAMBDA y :
    Then(exp(y, y.v), LAMBDA e :
    Then(WithScalar(e, "add", e.v, 1), LAMBDA d :
    Then(UnaryOp(d, "recip", d.v), LAMBDA r :
    Then(ScalarWith(r, "mul", 2, r.v), LAMBDA m :
         ScalarWith(m, "sub", 1, m.v))))))

silu(t, x) == Then(sigmoid(t, x), LAMBDA s : BinaryOp(s, "mul", x, s.v))

gelu(t, x) ==
    Then(BinaryOp(t, "mul", x, x), LAMBDA x2 :
    Then(BinaryOp(x2, "mul", x2.v, x), LAMBDA x3 :
    Then(ScalarWith(x3, "mul", GELU_CUBIC, x3.v), LAMBDA c :
    Then(BinaryOp(c, "add", x, c.v), LAMBDA a :
    Then(ScalarWith(a, "mul", GELU_SCALE, a.v), LAMBDA inner :
    Then(ScalarWith(inner, "mul", Reciprocal(2), x), LAMBDA half :
    Then(tanh(half, inner.v), LAMBDA h :
    Then(ScalarWith(h, "add", 1, h.v), LAMBDA one :
         BinaryOp(one, "mul", half.v, one.v)))))))))

(* 1 / sqrt(x + eps)                                                        *)
Deviation(t, x) == Then(WithScalar(t, "add", x, eps), LAMBDA e : UnaryOp(e, "rsqrt", e.v))

rmsnorm(t, x, g) ==
    Then(BinaryOp(t, "mul", x, x), LAMBDA sq :
    Then(Mean(sq, sq.v, Reciprocal), LAMBDA ms :
    Then(Deviation(ms, ms.v), LAMBDA r :
    Then(BinaryOp(r, "mul", x, r.v), LAMBDA y :
         BinaryOp(y, "mul", y.v, g)))))

layernorm(t, x, g, b) ==
    Then(Mean(t, x, Reciprocal), LAMBDA m :
    Then(BinaryOp(m, "sub", x, m.v), LAMBDA d :
    Then(BinaryOp(d, "mul", d.v, d.v), LAMBDA sq :
    Then(Mean(sq, sq.v, Reciprocal), LAMBDA v :
    Then(Deviation(v, v.v), LAMBDA r :
    Then(BinaryOp(r, "mul", d.v, r.v), LAMBDA y :
    Then(BinaryOp(y, "mul", y.v, g), LAMBDA z :
         BinaryOp(z, "add", z.v, b))))))))

(* The channels are the last axis of a rank 4 operand and the first of any  *)
(* other; the groups are cut from the flat order all the same.              *)
groupnorm(t, x, g, b, groups) ==
    LET s == ShapeAt(t, x)
        n == IF Len(s) = 4 THEN s[1] ELSE 1
        chan == IF Len(s) = 4 THEN Last(s) ELSE s[1]
        rows == <<n * groups, Numel(s) \div (n * groups)>>
    IN  IF chan % groups # 0 THEN {}
        ELSE Then(Shaped(t, x, rows), LAMBDA xf :
             Then(Shaped(xf, g, rows), LAMBDA gf :
             Then(Shaped(gf, b, rows), LAMBDA bf :
             Then(layernorm(bf, xf.v, gf.v, bf.v), LAMBDA y :
                  Shaped(y, y.v, s)))))

geglu(t, x, w) ==
    LET half == Last(ShapeAt(t, w)) \div 2
    IN  Then(_contract(t, x, w), LAMBDA p :
        Then(Item(p, p.v, <<Whole, From(0, half)>>), LAMBDA a :
        Then(Item(a, p.v, <<Whole, From(half, 2 * half)>>), LAMBDA b :
        Then(gelu(b, b.v), LAMBDA u :
             BinaryOp(u, "mul", a.v, u.v)))))

(* Nearest 2x as a product with a matrix of zeros and ones.                 *)
upsample_nearest2x(t, x, dup) ==
    LET s == ShapeAt(t, x)
    IN  IF Len(s) # 4 \/ ShapeAt(t, dup) # <<4 * s[2] * s[3], s[2] * s[3]>> THEN {}
        ELSE Then(Shaped(t, x, <<s[2] * s[3], s[1] * s[4]>>), LAMBDA r :
             Then(_contract(r, dup, r.v), LAMBDA p :
                  Shaped(p, p.v, <<s[1], 2 * s[2], 2 * s[3], s[4]>>)))

nearest2x_matrix(h, w) ==
    Array(<<4 * h * w, h * w>>, LAMBDA ix :
        LET y == ix[1] \div (2 * w)
            x == ix[1] % (2 * w)
        IN  IF ix[2] = (y \div 2) * w + x \div 2 THEN 1 ELSE 0)

softmax(t, x) ==
    Then(Rowwise(t, "rmax", x), LAMBDA m :
    Then(BinaryOp(m, "sub", x, m.v), LAMBDA d :
    Then(exp(d, d.v), LAMBDA e :
    Then(Rowwise(e, "sum", e.v), LAMBDA s :
         BinaryOp(s, "div", e.v, s.v)))))

split_k_epilogue(t, partials, dt) ==
    Then(Converted(t, partials, E8M15), LAMBDA w :
    Then(Emit(w, Reduce(w.g, "sum", w.v, {1}, FALSE)), LAMBDA s :
         Converted(s, s.v, dt)))

-----------------------------------------------------------------------------
_band(t, x, axis, lo, hi) ==
    Item(t, x, [i \in DOMAIN ShapeAt(t, x) |-> IF i = axis THEN From(lo, hi) ELSE Whole])

(* Every step-th of count elements: the axis is split and column 0 kept.    *)
_pick(t, x, axis, start, count, step) ==
    IF step = 1 THEN _band(t, x, axis, start, start + count)
    ELSE Then(_band(t, x, axis, start, start + count * step), LAMBDA v :
         Then(LET s == ShapeAt(v, v.v)
              IN  Shaped(v, v.v, SubSeq(s, 1, axis - 1) \o <<count, step>>
                                 \o SubSeq(s, axis + 1, Len(s))), LAMBDA w :
              Item(w, w.v, [i \in 1 .. axis |-> Whole] \o <<At(0)>>)))

(* A convolution is a product for every tap of the filter, of a window of   *)
(* the padded input; the padding behind is as long as the last stride asks. *)
conv2d(t, x, w, stride, padding) ==
    LET s == ShapeAt(t, x)
        k == ShapeAt(t, w)
        ho == (s[2] + 2 * padding[1] - k[1]) \div stride[1] + 1
        wo == (s[3] + 2 * padding[2] - k[2]) \div stride[2] + 1
        hp == k[1] - 1 + ho * stride[1]
        wp == k[2] - 1 + wo * stride[2]
        widths == <<<<0, 0>>, <<padding[1], hp - s[2] - padding[1]>>,
                    <<padding[2], wp - s[3] - padding[2]>>, <<0, 0>>>>
        Framed == IF \A i \in 1 .. 4 : widths[i] = <<0, 0>> THEN {[t EXCEPT !.v = x]}
                  ELSE Padded(t, x, widths)
        Tap(u, i, xp) ==
            Then(_pick(u, xp, 2, i \div k[2], ho, stride[1]), LAMBDA a :
            Then(_pick(a, a.v, 3, i % k[2], wo, stride[2]), LAMBDA b :
            Then(Shaped(b, b.v, <<s[1] * ho * wo, s[4]>>), LAMBDA c :
            Then(Item(c, w, <<At(i \div k[2]), At(i % k[2])>>), LAMBDA f :
            Then(_contract(f, c.v, f.v), LAMBDA part :
                 IF i = 0 THEN {part} ELSE BinaryOp(part, "add", u.v, part.v))))))
    IN  IF Len(s) # 4 \/ Len(k) # 4 THEN {}
        ELSE IF s[4] # k[3] \/ ho <= 0 \/ wo <= 0 THEN {}
        ELSE Then(Framed, LAMBDA xp :
             Then(Loop({xp}, range(k[1] * k[2]), LAMBDA u, i : Tap(u, i, xp.v)), LAMBDA acc :
                  Shaped(acc, acc.v, <<s[1], ho, wo, k[4]>>)))

conv1d(t, x, w, stride, padding) ==
    LET s == ShapeAt(t, x)
        k == ShapeAt(t, w)
    IN  IF Len(s) # 3 \/ Len(k) # 3 THEN {}
        ELSE Then(Shaped(t, x, <<s[1], 1, s[2], s[3]>>), LAMBDA a :
             Then(Shaped(a, w, <<1, k[1], k[2], k[3]>>), LAMBDA b :
             Then(conv2d(b, a.v, b.v, <<1, stride>>, <<0, padding>>), LAMBDA y :
                  Shaped(y, y.v, <<s[1], ShapeAt(y, y.v)[3], k[3]>>))))

-----------------------------------------------------------------------------
(* The rows lo .. hi - 1.                                                   *)
RowsOf(t, x, lo, hi) == Item(t, x, <<From(lo, hi)>>)

(* An integer no smaller, by adding and subtracting a number beyond which   *)
(* there are no fractions.                                                  *)
_ceil(t, x) ==
    Then(WithScalar(t, "add", x, 1), LAMBDA a :
    Then(WithScalar(a, "add", a.v, BIG), LAMBDA b :
         WithScalar(b, "sub", b.v, BIG)))

(* What a raised maximum leaves of the sums made below the old one.         *)
CorrectionInverted(t, m, m2) == Then(BinaryOp(t, "sub", m2, m), LAMBDA d : UnaryOp(d, "exp2", d.v))
Correction(t, m, m2) == Then(BinaryOp(t, "sub", m, m2), LAMBDA d : UnaryOp(d, "exp2", d.v))

(* The scores of a block of keys, and the maximum of every row of them.     *)
Scores(t, q, k, scale, lo, hi) ==
    Then(RowsOf(t, k, lo, hi), LAMBDA kj :
    Then(Turned(kj, kj.v), LAMBDA kt :
    Then(_contract(kt, q, kt.v), LAMBDA s :
         WithScalar(s, "mul", s.v, scale))))
Highest(t, s, pow2_corr) ==
    Then(Rowwise(t, "rmax", s), LAMBDA m : IF pow2_corr THEN _ceil(m, m.v) ELSE {m})

(* exp2(s - m), masked by tri where there is one.                           *)
Weights(t, s, m, tri) ==
    Then(BinaryOp(t, "sub", s, m), LAMBDA d :
    Then(UnaryOp(d, "exp2", d.v), LAMBDA e :
         IF tri = 0 THEN {e} ELSE BinaryOp(e, "mul", e.v, tri)))

(* Online softmax over the key blocks lo .. hi - 1: the running maximum m,  *)
(* the sums ell and the product acc; what was summed is rescaled when a     *)
(* later block raises the maximum.  tri masks the last block.               *)
_attend(t, q, k, v, scale, block, lo, hi, tri, pow2_corr) ==
    LET Mask(j) == IF j = hi - 1 THEN tri ELSE 0
        First(u) ==
            Then(Scores(u, q, k, scale, lo * block, (lo + 1) * block), LAMBDA s :
            Then(Highest(s, s.v, pow2_corr), LAMBDA m :
            Then(Weights(m, s.v, m.v, Mask(lo)), LAMBDA p :
            Then(RowsOf(p, v, lo * block, (lo + 1) * block), LAMBDA vj :
            Then(Rowwise(vj, "sum", p.v), LAMBDA ell :
            Then(_contract(ell, p.v, vj.v), LAMBDA acc :
                 {[g |-> acc.g, v |-> acc.v, m |-> m.v, ell |-> ell.v, acc |-> acc.v]}))))))
        Block(u, j) ==
            Then(Scores(u, q, k, scale, j * block, (j + 1) * block), LAMBDA s :
            Then(Highest(s, s.v, pow2_corr), LAMBDA mj :
            Then(BinaryOp(mj, "max", u.m, mj.v), LAMBDA m :
            Then(Correction(m, u.m, m.v), LAMBDA corr :
            Then(Weights(corr, s.v, m.v, Mask(j)), LAMBDA p :
            Then(RowsOf(p, v, j * block, (j + 1) * block), LAMBDA vj :
            Then(BinaryOp(vj, "mul", u.ell, corr.v), LAMBDA old :
            Then(Rowwise(old, "sum", p.v), LAMBDA sum :
            Then(BinaryOp(sum, "add", old.v, sum.v), LAMBDA ell :
            Then(BinaryOp(ell, "mul", u.acc, corr.v), LAMBDA was :
            Then(_contract(was, p.v, vj.v), LAMBDA new :
            Then(BinaryOp(new, "add", was.v, new.v), LAMBDA acc :
                 {[g |-> acc.g, v |-> acc.v, m |-> m.v, ell |-> ell.v, acc |-> acc.v]}))))))))))))
    IN  Then(Loop(First(t), SubSeq(range(hi), lo + 2, hi), Block), LAMBDA u :
             BinaryOp(u, "div", u.acc, u.ell))

(* The result out of head h joins those before it in vs: as one more value, *)
(* or summed through its rows of the output projection.                     *)
WithHead(vs, out, h, wo, chan) ==
    IF wo = 0 THEN {[g |-> out.g, v |-> out.v, vs |-> Append(vs, out.v)]}
    ELSE Then(RowsOf(out, wo, h * chan, (h + 1) * chan), LAMBDA w :
         Then(_contract(w, out.v, w.v), LAMBDA y :
         Then(IF vs = <<>> THEN {y} ELSE BinaryOp(y, "add", vs[1], y.v), LAMBDA s :
              {[g |-> s.g, v |-> s.v, vs |-> <<s.v>>]})))

NoHeads(t) == {[g |-> t.g, v |-> t.v, vs |-> <<>>]}

_head(t, x, rank, b, h) ==
    CASE rank = 2 -> {[t EXCEPT !.v = x]}
      [] rank = 3 -> Item(t, x, <<At(h)>>)
      [] rank = 4 -> Then(Item(t, x, <<At(b)>>), LAMBDA a : Item(a, a.v, <<At(h)>>))

(* k and v may have fewer heads than q, each for a group of query heads; a  *)
(* causal kernel reads the key blocks up to its own only.                   *)
attention(t, q, k, v, scale, block, causal, tri, wo, pow2_corr) ==
    LET sq == ShapeAt(t, q)
        sk == ShapeAt(t, k)
        rank == Len(sq)
        tlen == sq[rank - 1]
        klen == sk[rank - 1]
        chan == sq[rank]
        batch == IF rank = 4 THEN sq[1] ELSE 1
        heads == IF rank >= 3 THEN sq[rank - 2] ELSE 1
        kv_heads == IF rank >= 3 THEN sk[rank - 2] ELSE 1
        group == heads \div kv_heads
        parts == IF causal THEN tlen \div block ELSE 1
        OneHead(u, b, i, h) ==
            Then(_head(u, q, rank, b, h), LAMBDA qh :
            Then(IF causal THEN RowsOf(qh, qh.v, i * block, (i + 1) * block) ELSE {qh}, LAMBDA qi :
            Then(_head(qi, k, rank, b, h \div group), LAMBDA kh :
            Then(_head(kh, v, rank, b, h \div group), LAMBDA vh :
            Then(_attend(vh, qi.v, kh.v, vh.v, scale * LOG2_E, block, 0,
                         IF causal THEN i + 1 ELSE klen \div block,
                         IF causal THEN tri ELSE 0, pow2_corr), LAMBDA out :
                 WithHead(u.vs, out, h, wo, chan))))))
        Part(u, n) ==
            Then(Loop(NoHeads(u), range(heads), LAMBDA w, h : OneHead(w, n \div parts, n % parts, h)),
                 LAMBDA w : {[w EXCEPT !.vs = u.vs \o @]})
    IN  IF rank \notin {2, 3, 4} \/ Len(sk) # rank \/ Len(ShapeAt(t, v)) # rank THEN {}
        ELSE IF \/ klen % block # 0 \/ tlen % block # 0 \/ heads % kv_heads # 0
                \/ causal /\ (tri = 0 \/ tlen # klen) THEN {}
        ELSE Loop(NoHeads(t), range(batch * parts), Part)

(* One product per head with its columns of the weights.                    *)
project_heads(t, x, w, heads) ==
    LET cols == ShapeAt(t, w)[2]
        dh == cols \div heads
        OneHead(u, h) ==
            Then(Item(u, w, <<Whole, From(h * dh, (h + 1) * dh)>>), LAMBDA c :
            Then(_contract(c, x, c.v), LAMBDA y :
                 {[g |-> y.g, v |-> y.v, vs |-> Append(u.vs, y.v)]}))
    IN  IF cols % heads # 0 THEN {} ELSE Loop(NoHeads(t), range(heads), OneHead)

multihead(t, qs, ks, vs, scale, block, wo) ==
    LET chan == Last(ShapeAt(t, qs[1]))
        klen == ShapeAt(t, ks[1])[1]
        OneHead(u, h) ==
            Then(_attend(u, qs[h + 1], ks[h + 1], vs[h + 1], scale * LOG2_E, block, 0,
                         klen \div block, 0, FALSE), LAMBDA out :
                 WithHead(u.vs, out, h, wo, chan))
    IN  IF Len(qs) # Len(ks) \/ Len(ks) # Len(vs) \/ klen % block # 0 THEN {}
        ELSE Loop(NoHeads(t), range(Len(qs)), OneHead)

-----------------------------------------------------------------------------
(* silu(x @ a) @ b                                                          *)
Expert(t, x, a, b) ==
    Then(_contract(t, x, a), LAMBDA h :
    Then(silu(h, h.v), LAMBDA s :
         _contract(s, s.v, b)))

moe_dense(t, x, wg, w1, w2) ==
    LET Weighted(u, gate, e) ==
            Then(Expert(u, x, w1[e], w2[e]), LAMBDA y :
            Then(Item(y, gate, <<Whole, From(e - 1, e)>>), LAMBDA c :
            Then(BinaryOp(c, "mul", y.v, c.v), LAMBDA z :
                 IF e = 1 THEN {z} ELSE BinaryOp(z, "add", u.v, z.v))))
    IN  IF Len(w1) # Len(w2) \/ w1 = <<>> THEN {}
        ELSE Then(_contract(t, x, wg), LAMBDA l :
             Then(softmax(l, l.v), LAMBDA gate :
                  Loop({gate}, [e \in DOMAIN w1 |-> e], LAMBDA u, e : Weighted(u, gate.v, e))))

(* The tokens come grouped by expert, counts[e] of them for expert e.       *)
moe_grouped(t, x, w1, w2, counts) ==
    LET Before(e) == FoldLeft(LAMBDA n, c : n + c, 0, SubSeq(counts, 1, e - 1))
        OneGroup(u, e) ==
            IF counts[e] = 0 THEN {u}
            ELSE Then(RowsOf(u, x, Before(e), Before(e) + counts[e]), LAMBDA r :
                 Then(Expert(r, r.v, w1[e], w2[e]), LAMBDA y :
                      {[g |-> y.g, v |-> y.v, vs |-> Append(u.vs, y.v)]}))
    IN  IF Before(Len(counts) + 1) # ShapeAt(t, x)[1] THEN {}
        ELSE Then(Loop(NoHeads(t), [e \in DOMAIN w1 |-> e], OneGroup), LAMBDA u :
                  CASE u.vs = <<>> -> {}
                    [] Len(u.vs) = 1 -> {u}
                    [] OTHER -> Joined(u, u.vs, 1))
=============================================================================
