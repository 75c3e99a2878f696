------------------------------ MODULE Vectors ------------------------------
(***************************************************************************)
(* Vectors of two, three or four elements (geometry/vector.hpp) in SSE     *)
(* registers (base/simd_sse.hpp). A register always has four lanes; those  *)
(* a vector does not use hold whatever operations leave there. rep has two *)
(* registers and a mask, ref the vectors they stand for. A lane of an      *)
(* integer vector is its pattern of Bits bits, one of a float vector the   *)
(* number of quarters.                                                     *)
(***************************************************************************)
EXTENDS SequencesExt, Integers

CONSTANTS Bits,       \* width of an integer
          Inputs,     \* patterns for four lanes
          MaxSteps    \* operations on the registers
VARIABLES rep, ref, fault

vars == <<rep, ref, fault>>

Lanes == 1 .. 4
X == 1
Y == 2
Z == 3
W == 4
Top == 2 ^ Bits
Wrap(kind, x) == IF kind = "float" THEN x ELSE x % Top
Value(kind, x) == IF kind = "int" /\ 2 * x >= Top THEN x - Top ELSE x
One(kind) == IF kind = "float" THEN 4 ELSE 1

(* The instructions the compiler may use.                                   *)
Builds == {"sse3", "sse4.1"}

set(kind, n, v) ==
    CASE n = 2 -> <<v[X], v[Y], One(kind), 0>>
      [] n = 3 -> <<v[X], v[Y], v[Z], One(kind)>>
      [] n = 4 -> v

-----------------------------------------------------------------------------
(* Arithmetic in registers.                                                 *)
add(kind, a, b) == [i \in Lanes |-> Wrap(kind, a[i] + b[i])]
sub(kind, a, b) == [i \in Lanes |-> Wrap(kind, a[i] - b[i])]
neg(kind, a) == [i \in Lanes |-> Wrap(kind, 0 - a[i])]

shuffle2aabb(q, a, b) == <<a[q[X]], a[q[Y]], b[q[Z]], b[q[W]]>>
shuffle(q, v) == shuffle2aabb(q, v, v)

(* The products of lanes 0 and 2, each over two lanes.                      *)
mul_epu32(a, b) == <<(a[X] * b[X]) % Top, (a[X] * b[X]) \div Top, (a[Z] * b[Z]) % Top, (a[Z] * b[Z]) \div Top>>
srli4(a) == <<a[Y], a[Z], a[W], 0>>
unpacklo(a, b) == <<a[X], b[X], a[Y], b[Y]>>

mul(build, a, b) ==
    IF build = "sse4.1" THEN [i \in Lanes |-> (a[i] * b[i]) % Top]
    ELSE unpacklo(shuffle(<<X, Z, X, X>>, mul_epu32(a, b)),
                  shuffle(<<X, Z, X, X>>, mul_epu32(srli4(a), srli4(b))))

(* Division in C, lane by lane.                                             *)
Magnitude(x) == IF x < 0 THEN 0 - x ELSE x
Quotient(x, y) == IF (x < 0) = (y < 0) THEN Magnitude(x) \div Magnitude(y) ELSE 0 - (Magnitude(x) \div Magnitude(y))
Traps(kind, x, y) == y = 0 \/ (kind = "int" /\ 2 * x = Top /\ y = Top - 1)
div(kind, a, b) == [i \in Lanes |-> Wrap(kind, Quotient(Value(kind, a[i]), Value(kind, b[i])))]
divrem(kind, a, b) == sub(kind, a, [i \in Lanes |-> Wrap(kind, b[i] * div(kind, a, b)[i])])

(* Comparison of integers is signed, whatever they are.                     *)
Compared(kind, x) == IF kind = "unsigned" THEN Value("int", x) ELSE Value(kind, x)
cmp_eq(a, b) == [i \in Lanes |-> a[i] = b[i]]
cmp_lt(kind, a, b) == [i \in Lanes |-> Compared(kind, a[i]) < Compared(kind, b[i])]
cmp_gt(kind, a, b) == [i \in Lanes |-> Compared(kind, a[i]) > Compared(kind, b[i])]
cmp_lte(kind, a, b) == [i \in Lanes |-> cmp_eq(a, b)[i] \/ cmp_lt(kind, a, b)[i]]
cmp_gte(kind, a, b) == [i \in Lanes |-> cmp_eq(a, b)[i] \/ cmp_gt(kind, a, b)[i]]
bitwise_and(m, k) == [i \in Lanes |-> m[i] /\ k[i]]
bitwise_or(m, k) == [i \in Lanes |-> m[i] \/ k[i]]
bitwise_xor(m, k) == [i \in Lanes |-> m[i] # k[i]]
bitwise_not(mask) == [i \in Lanes |-> ~mask[i]]
select(mask, a, b) == [i \in Lanes |-> IF mask[i] THEN a[i] ELSE b[i]]

abs(kind, a) ==
    CASE kind = "float"    -> [i \in Lanes |-> Magnitude(a[i])]
      [] kind = "unsigned" -> a
      [] kind = "int"      -> select(cmp_lt(kind, a, <<0, 0, 0, 0>>), neg(kind, a), a)
min(kind, a, b) == select(cmp_lt(kind, a, b), a, b)
max(kind, a, b) == select(cmp_gt(kind, a, b), a, b)

-----------------------------------------------------------------------------
(* The permutations that take each lane from the one register or the other: *)
(* p tells which, q from which of its lanes.                                *)
Shuffle2(p, q, a, b) ==
    LET of(i)    == IF i = 0 THEN a ELSE b
        other(i) == of(1 - i)
        left  == IF p = <<0, 1, 0, 0>>
                 THEN shuffle2aabb(<<X, q[X], X, q[Y]>>, a, b)
                 ELSE shuffle2aabb(<<q[X], X, q[Y], X>>, of(p[X]), other(p[X]))
        right == IF p[X] = 0
                 THEN shuffle2aabb(<<X, q[Z], X, q[W]>>, of(p[Z]), other(p[Z]))
                 ELSE shuffle2aabb(<<q[Z], X, q[W], X>>, of(p[Z]), other(p[Z]))
    IN  CASE p[X] = p[Y] /\ p[Z] = p[W]  -> shuffle2aabb(q, of(p[X]), of(p[Z]))
          [] p[X] = p[Y] /\ p[Z] # p[W]  ->
               shuffle2aabb(IF p[X] = 0 THEN <<q[X], q[Y], Y, W>> ELSE <<q[X], q[Y], X, Z>>, of(p[X]), right)
          [] p[X] # p[Y] /\ p[Z] = p[W]  ->
               shuffle2aabb(IF p = <<0, 1, 0, 0>> THEN <<Y, W, q[Z], q[W]>> ELSE <<X, Z, q[Z], q[W]>>, left, of(p[Z]))
          [] p = <<0, 1, 0, 1>>          -> shuffle(<<X, Z, Y, W>>, shuffle2aabb(<<q[X], q[Z], q[Y], q[W]>>, a, b))
          [] p \in {<<0, 1, 1, 0>>, <<1, 0, 0, 1>>} ->
               shuffle(<<X, Z, W, Y>>, shuffle2aabb(<<q[X], q[W], q[Y], q[Z]>>, of(p[X]), other(p[X])))
          [] p = <<1, 0, 1, 0>>          -> shuffle(<<Z, X, W, Y>>, shuffle2aabb(<<q[Y], q[W], q[X], q[Z]>>, a, b))

(* shuffle2 of vectors: what is not given is lane 3 of the second register, *)
(* or for two elements lanes 2 and 3 of the first one's.                    *)
shuffle2(n, p, q, a, b) ==
    CASE n = 2 -> Shuffle2(<<p[X], p[Y], p[X], p[X]>>, <<q[X], q[Y], Z, W>>, a, b)
      [] n = 3 -> Shuffle2(<<p[X], p[Y], p[Z], 1>>, <<q[X], q[Y], q[Z], W>>, a, b)
      [] n = 4 -> Shuffle2(p, q, a, b)

shuffle_axes(n, q, v) ==
    CASE n = 2 -> shuffle(<<q[X], q[Y], Z, W>>, v)
      [] n = 3 -> shuffle(<<q[X], q[Y], q[Z], W>>, v)
      [] n = 4 -> shuffle(q, v)

rotate_right1(v) == shuffle(<<W, X, Y, Z>>, v)
rotate_left1(v) == shuffle(<<Y, Z, W, X>>, v)
shift_right1(v) == [rotate_right1(v) EXCEPT ![X] = 0]

(* Horizontal addition.                                                     *)
hadd(kind, v) == LET low == Wrap(kind, v[X] + v[Y])
                     high == Wrap(kind, v[Z] + v[W]) IN <<low, high, low, high>>
hadd2(kind, build, v) ==
    IF kind = "float" \/ build = "sse4.1" THEN shuffle(<<X, X, Z, W>>, hadd(kind, v))
    ELSE set(kind, 2, <<Wrap(kind, v[X] + v[Y]), Wrap(kind, v[X] + v[Y])>>)
hadd3(kind, v) ==
    LET masked == Shuffle2(<<0, 0, 0, 1>>, <<X, Y, Z, W>>, v, <<0, 0, 0, 0>>)
    IN  shuffle(<<X, X, X, X>>, hadd(kind, hadd(kind, masked)))
hadd4(kind, v) == hadd(kind, hadd(kind, v))
sumv(kind, build, n, v) ==
    CASE n = 2 -> hadd2(kind, build, v) [] n = 3 -> hadd3(kind, v) [] n = 4 -> hadd4(kind, v)
dot(kind, build, n, a, b) == sumv(kind, build, n, mul(build, a, b))[X]

cross(kind, build, a, b) ==
    LET yzx(v) == shuffle_axes(3, <<Y, Z, X>>, v)
        zxy(v) == shuffle_axes(3, <<Z, X, Y>>, v)
    IN  sub(kind, mul(build, yzx(a), zxy(b)), mul(build, zxy(a), yzx(b)))

(* The square root of an integer is that of the float, cut off; there is no *)
(* such number for a negative one.                                          *)
Root(x) == CHOOSE r \in 0 .. Top : r * r <= x /\ x < (r + 1) * (r + 1)
sqrt(v) == [i \in Lanes |-> IF Value("int", v[i]) >= 0 THEN Root(v[i]) ELSE Top \div 2]
lengthv(kind, build, n, v) == sqrt(sumv(kind, build, n, mul(build, v, v)))

(* Rounding of a number of quarters, to the even one of two that are near.  *)
Nearest(x) == LET down == x \div 4  IN
    IF x % 4 > 2 \/ (x % 4 = 2 /\ down % 2 = 1) THEN down + 1 ELSE down
round(v) == [i \in Lanes |-> 4 * Nearest(v[i])]
floor(build, v) == [i \in Lanes |-> IF build = "sse4.1" THEN 4 * (v[i] \div 4) ELSE 4 * Nearest(v[i] - 2)]
ceil(build, v) == [i \in Lanes |-> IF build = "sse4.1" THEN 0 - 4 * ((0 - v[i]) \div 4) ELSE 4 * Nearest(v[i] + 2)]

to_float(v) == [i \in Lanes |-> 4 * Value("int", v[i])]
to_integer(v) == [i \in Lanes |-> Wrap("int", Quotient(v[i], 4))]

-----------------------------------------------------------------------------
(* The tests of a mask look at the lanes of the vector only.                *)
all_true(n, mask) == \A i \in 1 .. n : mask[i]
any_true(n, mask) == \E i \in 1 .. n : mask[i]
num_true(mask) == Cardinality({i \in Lanes : mask[i]})

-----------------------------------------------------------------------------
NoMask == <<FALSE, FALSE, FALSE, FALSE>>

Init ==
    \E kind \in {"int", "unsigned", "float"}, n \in 2 .. 4, build \in Builds, a, b \in Inputs :
      /\ rep = [kind |-> kind, n |-> n, build |-> build, steps |-> 0,
                a |-> set(kind, n, a), b |-> set(kind, n, b), mask |-> NoMask]
      /\ ref = [a |-> SubSeq(a, 1, n), b |-> SubSeq(b, 1, n), mask |-> SubSeq(NoMask, 1, n)]
      /\ fault = "none"

K == rep.kind
N == rep.n
Used == 1 .. N
A(i) == Value(K, ref.a[i])
B(i) == Value(K, ref.b[i])
Element(x) == Wrap(K, x)

(* An operation leaves its result in the first register.                    *)
Put(lanes, elements) ==
    /\ rep.steps < MaxSteps
    /\ rep' = [rep EXCEPT !.a = lanes, !.steps = @ + 1]
    /\ ref' = [ref EXCEPT !.a = elements]
Fine == UNCHANGED fault
Fault(when, why) == fault' = IF when THEN why ELSE fault

Add == Put(add(K, rep.a, rep.b), [i \in Used |-> Element(A(i) + B(i))]) /\ Fine
Sub == Put(sub(K, rep.a, rep.b), [i \in Used |-> Element(A(i) - B(i))]) /\ Fine
Neg == K # "unsigned" /\ Put(neg(K, rep.a), [i \in Used |-> Element(0 - A(i))]) /\ Fine
Abs == Put(abs(K, rep.a), [i \in Used |-> Element(Magnitude(A(i)))]) /\ Fine
Mul == K # "float" /\ Put(mul(rep.build, rep.a, rep.b), [i \in Used |-> Element(A(i) * B(i))]) /\ Fine

(* The lanes that are not used are divided as well.                         *)
Div ==
    LET unused == {i \in Lanes \ Used : Traps(K, rep.a[i], rep.b[i])}
        Rest(i) == A(i) - B(i) * Quotient(A(i), B(i))
    IN  /\ K # "float" /\ rep.steps < MaxSteps
        /\ \A i \in Used : ~Traps(K, rep.a[i], rep.b[i])
        /\ IF unused # {} THEN /\ fault' = "unused lane divided by zero" /\ UNCHANGED <<rep, ref>>
           ELSE /\ \/ Put(div(K, rep.a, rep.b), [i \in Used |-> Element(Quotient(A(i), B(i)))])
                   \/ Put(divrem(K, rep.a, rep.b), [i \in Used |-> Element(Rest(i))])
                /\ Fine

(* Unsigned integers on the two sides of the sign bit compare wrongly.      *)
SignsDiffer == K = "unsigned" /\ \E i \in Used : (2 * A(i) >= Top) # (2 * B(i) >= Top)

Compare ==
    /\ rep.steps < MaxSteps
    /\ \/ /\ rep' = [rep EXCEPT !.mask = cmp_lt(K, rep.a, rep.b), !.steps = @ + 1]
          /\ ref' = [ref EXCEPT !.mask = [i \in Used |-> A(i) < B(i)]]
       \/ /\ rep' = [rep EXCEPT !.mask = cmp_lte(K, rep.a, rep.b), !.steps = @ + 1]
          /\ ref' = [ref EXCEPT !.mask = [i \in Used |-> A(i) <= B(i)]]
       \/ /\ rep' = [rep EXCEPT !.mask = bitwise_not(cmp_gte(K, rep.a, rep.b)), !.steps = @ + 1]
          /\ ref' = [ref EXCEPT !.mask = [i \in Used |-> A(i) < B(i)]]
    /\ Fault(SignsDiffer, "signed comparison")

(* Masks are combined: this one with where the registers are equal.         *)
Combine ==
    LET same == cmp_eq(rep.a, rep.b)
        Same(i) == ref.a[i] = ref.b[i]
    IN  /\ rep.steps < MaxSteps /\ Fine
        /\ \/ /\ rep' = [rep EXCEPT !.mask = bitwise_and(@, same), !.steps = @ + 1]
              /\ ref' = [ref EXCEPT !.mask = [i \in Used |-> ref.mask[i] /\ Same(i)]]
           \/ /\ rep' = [rep EXCEPT !.mask = bitwise_or(@, same), !.steps = @ + 1]
              /\ ref' = [ref EXCEPT !.mask = [i \in Used |-> ref.mask[i] \/ Same(i)]]
           \/ /\ rep' = [rep EXCEPT !.mask = bitwise_xor(@, same), !.steps = @ + 1]
              /\ ref' = [ref EXCEPT !.mask = [i \in Used |-> ref.mask[i] # Same(i)]]

SetElement == \E i, j \in Used : Put([rep.a EXCEPT ![i] = rep.b[j]], [ref.a EXCEPT ![i] = ref.b[j]]) /\ Fine

Select == Put(select(rep.mask, rep.a, rep.b), [i \in Used |-> IF ref.mask[i] THEN ref.a[i] ELSE ref.b[i]]) /\ Fine

Smaller(i) == IF A(i) < B(i) THEN ref.a[i] ELSE ref.b[i]
Larger(i) == IF A(i) > B(i) THEN ref.a[i] ELSE ref.b[i]
Min2 == Put(min(K, rep.a, rep.b), [i \in Used |-> Smaller(i)]) /\ Fault(SignsDiffer, "signed comparison")
Max2 == Put(max(K, rep.a, rep.b), [i \in Used |-> Larger(i)]) /\ Fault(SignsDiffer, "signed comparison")

Shuffle == \E p \in {<<0, 0, 0, 0>>, <<1, 0, 0, 1>>}, q \in {<<Y, X, Y, Z>>, <<X, Y, Z, X>>} :
    /\ \A i \in Used : q[i] \in Used
    /\ Put(IF p[X] = 0 THEN shuffle_axes(N, q, rep.a) ELSE shuffle2(N, p, q, rep.a, rep.b),
           [i \in Used |-> IF p[i] = 0 THEN ref.a[q[i]] ELSE ref.b[q[i]]])
    /\ Fine

Rotate == /\ N = 4
          /\ \/ Put(rotate_right1(rep.a), <<Last(ref.a)>> \o Front(ref.a))
             \/ Put(rotate_left1(rep.a), Tail(ref.a) \o <<Head(ref.a)>>)
             \/ Put(shift_right1(rep.a), <<0>> \o Front(ref.a))
          /\ Fine

Swap == /\ rep.steps < MaxSteps /\ Fine
        /\ rep' = [rep EXCEPT !.a = rep.b, !.b = rep.a, !.steps = @ + 1]
        /\ ref' = [ref EXCEPT !.a = ref.b, !.b = ref.a]

Sum(f(_)) == FoldLeft(LAMBDA s, i : s + f(i), 0, [i \in Used |-> i])
Squares(i) == A(i) * A(i)

Sumv == Put(sumv(K, rep.build, N, rep.a), [i \in Used |-> Element(Sum(A))]) /\ Fine
Length == /\ K = "int" /\ 2 * Sum(Squares) < Top
          /\ Put(lengthv(K, rep.build, N, rep.a), [i \in Used |-> Root(Sum(Squares))]) /\ Fine

(* rsqrt of integers is their square root.                                  *)
Rsqrt == K # "float" /\ rep.steps < MaxSteps /\ fault' = "not the reciprocal" /\ UNCHANGED <<rep, ref>>

Cross ==
    LET Part(i, j) == Element(A(i) * B(j) - A(j) * B(i))
    IN  N = 3 /\ K # "float"
        /\ Put(cross(K, rep.build, rep.a, rep.b), <<Part(Y, Z), Part(Z, X), Part(X, Y)>>) /\ Fine

Round == K = "float" /\ Put(round(rep.a), [i \in Used |-> 4 * Nearest(A(i))]) /\ Fine

(* Without SSE 4.1 one half is taken off and the rest rounded, which takes  *)
(* odd integers to the even one next to them.                               *)
OddInteger == rep.build = "sse3" /\ \E i \in Used : A(i) % 8 = 4
Floor == /\ K = "float" /\ Fault(OddInteger, "rounded to even")
         /\ Put(floor(rep.build, rep.a), [i \in Used |-> 4 * (A(i) \div 4)])
Ceil == /\ K = "float" /\ Fault(OddInteger, "rounded to even")
        /\ Put(ceil(rep.build, rep.a), [i \in Used |-> 4 * ((A(i) + 3) \div 4)])

(* Unsigned integers are taken for signed ones.                             *)
Convert ==
    /\ rep.steps < MaxSteps
    /\ \/ /\ K # "float"
          /\ rep' = [rep EXCEPT !.kind = "float", !.a = to_float(@), !.b = to_float(@), !.steps = @ + 1]
          /\ ref' = [ref EXCEPT !.a = [i \in Used |-> 4 * A(i)], !.b = [i \in Used |-> 4 * B(i)]]
          /\ Fault(K = "unsigned" /\ \E i \in Used : 2 * A(i) >= Top \/ 2 * B(i) >= Top, "signed conversion")
       \/ /\ K = "float" /\ Fine
          /\ \A i \in Used : {A(i), B(i)} \subseteq 0 .. 2 * Top - 1
          /\ rep' = [rep EXCEPT !.kind = "int", !.a = to_integer(@), !.b = to_integer(@), !.steps = @ + 1]
          /\ ref' = [ref EXCEPT !.a = [i \in Used |-> A(i) \div 4], !.b = [i \in Used |-> B(i) \div 4]]

(* A vector that is loaded from memory takes four elements from there.      *)
Load == /\ rep.steps < MaxSteps /\ N < 4
        /\ fault' = "read past the end" /\ UNCHANGED <<rep, ref>>

Next ==
    /\ fault = "none"
    /\ \/ Add \/ Sub \/ Neg \/ Abs \/ Mul \/ Div \/ Min2 \/ Max2
       \/ Compare \/ Combine \/ Select \/ SetElement
       \/ Shuffle \/ Rotate \/ Swap \/ Sumv \/ Length \/ Rsqrt \/ Cross
       \/ Round \/ Floor \/ Ceil \/ Convert \/ Load

Spec == Init /\ [][Next]_vars

-----------------------------------------------------------------------------
(* Each of the ways to take four lanes from two registers takes the lanes   *)
(* that were asked for.                                                     *)
ShufflesSelect ==
    \A p \in [Lanes -> {0, 1}], q \in [Lanes -> Lanes] :
      Shuffle2(p, q, rep.a, rep.b) = [i \in Lanes |-> IF p[i] = 0 THEN rep.a[q[i]] ELSE rep.b[q[i]]]

(* The lanes of a vector hold what the operations give element by element,  *)
(* whatever is in the others; and what is drawn from all lanes at once, a   *)
(* sum, a product, a test of a mask, is not disturbed by those either.      *)
Represents ==
    fault = "none" =>
      /\ SubSeq(rep.a, 1, N) = ref.a /\ SubSeq(rep.b, 1, N) = ref.b
      /\ SubSeq(rep.mask, 1, N) = ref.mask
      /\ sumv(K, rep.build, N, rep.a)[X] = Element(Sum(A))
      /\ K # "float" => dot(K, rep.build, N, rep.a, rep.b) = Element(Sum(LAMBDA i : A(i) * B(i)))
      /\ all_true(N, rep.mask) <=> FALSE \notin ToSet(ref.mask)
      /\ any_true(N, rep.mask) <=> TRUE \in ToSet(ref.mask)
      /\ N = 4 => num_true(rep.mask) = Len(SelectSeq(ref.mask, LAMBDA m : m))
      /\ rep.steps = 0 /\ N = 4 /\ K = "int" => ShufflesSelect
=============================================================================
