------------------------------ MODULE Geometry ------------------------------
(***************************************************************************)
(* Rectangles, segments and matrices (geometry/rect.hpp, 2d.hpp and        *)
(* matrix.hpp) on whole numbers. One step computes one result, which rep   *)
(* has with what it was computed from; ref has what the operation is for.  *)
(* Numbers are exact here: rounding is left out.                           *)
(***************************************************************************)
EXTENDS SequencesExt, Integers

CONSTANTS Grid,      \* coordinates
          Entries    \* elements of matrices
VARIABLES rep, ref, fault

vars == <<rep, ref, fault>>

Points == Grid \X Grid
Nothing == [x |-> 0, y |-> 0, over |-> 0]
Smallest(a, b) == IF a < b THEN a ELSE b
Largest(a, b) == IF a > b THEN a ELSE b

Init == rep = [op |-> "none"] /\ ref = [op |-> "none"] /\ fault = "none"

(* The result of the code, what it should be, and why it may not be that.   *)
Compute(op, result, expected, why) ==
    /\ rep.op = "none"
    /\ rep' = [op |-> op, result |-> result]
    /\ ref' = expected
    /\ fault' = why
NoFault == "none"
When(cond, why) == IF cond THEN why ELSE NoFault

-----------------------------------------------------------------------------
(* Rectangles: an origin and a size, each a pair.                           *)
Rects == {r \in [origin : Points, size : Points] : TRUE}
End(r) == <<r.origin[1] + r.size[1], r.origin[2] + r.size[2]>>
Both(f(_, _), a, b) == <<f(a[1], b[1]), f(a[2], b[2])>>

intersection_area(r, s) ==
    LET ends    == Both(Smallest, End(r), End(s))
        origins == Both(Largest, r.origin, s.origin)
    IN  <<Largest(0, ends[1] - origins[1]), Largest(0, ends[2] - origins[2])>>

intersects_point(r, p) ==
    \A i \in 1 .. 2 : p[i] >= r.origin[i] /\ p[i] < End(r)[i]

intersects(r, s) == intersection_area(r, s) # <<0, 0>>

join(r, s) ==
    LET origin == Both(Smallest, r.origin, s.origin)
        end    == Both(Largest, End(r), End(s))
    IN  [origin |-> origin, size |-> <<end[1] - origin[1], end[2] - origin[2]>>]

join_point(r, p) == join(r, [origin |-> p, size |-> <<0, 0>>])

(* The unit squares within a rectangle.                                     *)
Squares(r) == {c \in (r.origin[1] .. End(r)[1]) \X (r.origin[2] .. End(r)[2]) : intersects_point(r, c)}
Area(a) == a[1] * a[2]
Covers(r, s) == \A i \in 1 .. 2 : r.origin[i] <= s.origin[i] /\ End(s)[i] <= End(r)[i]
Hull(r, s) ==
    LET Between(i) == {r.origin[i], s.origin[i]} \X {End(r)[i], End(s)[i]}
    IN  CHOOSE h \in {[origin |-> <<x[1], y[1]>>, size |-> <<x[2] - x[1], y[2] - y[1]>>] :
                          x \in Between(1), y \in Between(2)} : Covers(h, r) /\ Covers(h, s)

(* Rectangles whose edges meet are said to intersect.                       *)
EdgesMeet(r, s) == LET a == intersection_area(r, s) IN (a[1] = 0) # (a[2] = 0)

RectArea == \E r, s \in Rects :
    Compute("area", Area(intersection_area(r, s)), Cardinality(Squares(r) \cap Squares(s)), NoFault)
RectIntersects == \E r, s \in Rects :
    Compute("intersects", intersects(r, s), Squares(r) \cap Squares(s) # {}, When(EdgesMeet(r, s), "edges meet"))
RectJoin == \E r, s \in Rects : Compute("join", join(r, s), Hull(r, s), NoFault)
RectJoinPoint == \E r \in Rects, p \in Points :
    Compute("join", join_point(r, p), Hull(r, [origin |-> p, size |-> <<0, 0>>]), NoFault)

(* The bounds of a rectangle turned by a quarter about its centre, all in   *)
(* halves: the origin stays where it was.                                   *)
bounds_of_rotated_rectangle(r) == [origin |-> r.origin, size |-> <<r.size[2], r.size[1]>>]
Centre(r) == <<2 * r.origin[1] + r.size[1], 2 * r.origin[2] + r.size[2]>>
RectRotated == \E r \in Rects :
    Compute("rotated", Centre(bounds_of_rotated_rectangle(r)), Centre(r),
            When(r.size[1] # r.size[2], "not about the centre"))

-----------------------------------------------------------------------------
(* Segments. A point where two meet is given with its denominator.          *)
Minus(a, b) == <<a[1] - b[1], a[2] - b[2]>>

line_intersection(p0, p1, q0, q1) ==
    LET s0 == Minus(p1, p0)
        s1 == Minus(q1, q0)
        b  == Minus(p0, q0)
        divisor == s1[2] * s0[1] - s1[1] * s0[2]
        s == s0[1] * b[2] - s0[2] * b[1]
        t == s1[1] * b[2] - s1[2] * b[1]
        Within(x) == IF divisor > 0 THEN 0 <= x /\ x <= divisor ELSE divisor <= x /\ x <= 0
    IN  IF divisor # 0 /\ Within(s) /\ Within(t)
        THEN [x |-> p0[1] * divisor + t * s0[1], y |-> p0[2] * divisor + t * s0[2], over |-> divisor]
        ELSE Nothing

Side(p, q, r) == (q[1] - p[1]) * (r[2] - p[2]) - (q[2] - p[2]) * (r[1] - p[1])
Apart(p, q, r, s) == Side(p, q, r) * Side(p, q, s) <= 0
Parallel(p0, p1, q0, q1) == Side(<<0, 0>>, Minus(p1, p0), Minus(q1, q0)) = 0
OnLine(m, p, q) == (q[1] - p[1]) * (m.y - p[2] * m.over) = (q[2] - p[2]) * (m.x - p[1] * m.over)

(* Two that are not parallel meet if and only if the ends of each are not   *)
(* on the same side of the other, in the point that is on both.             *)
Meet(p0, p1, q0, q1) == ~Parallel(p0, p1, q0, q1) /\ Apart(p0, p1, q0, q1) /\ Apart(q0, q1, p0, p1)
SegmentsMeet == \E p0, p1, q0, q1 \in Points :
    LET m == line_intersection(p0, p1, q0, q1)
        met == m # Nothing
    IN  Compute("meet", <<met, met => OnLine(m, p0, p1) /\ OnLine(m, q0, q1)>>,
                <<Meet(p0, p1, q0, q1), TRUE>>, NoFault)

(* The corners do not go around the rectangle: the second and the fourth of *)
(* the edges are its diagonals.                                             *)
Corners(r) == <<r.origin, <<End(r)[1], r.origin[2]>>, <<r.origin[1], End(r)[2]>>, End(r)>>
Edges(r) == [i \in 1 .. 4 |-> <<Corners(r)[i], Corners(r)[(i % 4) + 1]>>]
intersection_line(r, p, q) ==
    LET hits == {i \in 1 .. 4 : line_intersection(p, q, Edges(r)[i][1], Edges(r)[i][2]) # Nothing}
    IN  hits # {}
AroundRect(r) == LET c == Corners(r) IN {<<c[1], c[2]>>, <<c[2], c[4]>>, <<c[4], c[3]>>, <<c[3], c[1]>>}
RectLine == \E r \in Rects, p, q \in Points :
    LET upright == \E e \in {<<Corners(r)[2], Corners(r)[4]>>, <<Corners(r)[3], Corners(r)[1]>>} : Meet(p, q, e[1], e[2])
        level   == \E i \in {1, 3} : Meet(p, q, Edges(r)[i][1], Edges(r)[i][2])
    IN  Compute("line", intersection_line(r, p, q), \E e \in AroundRect(r) : Meet(p, q, e[1], e[2]),
                When(~level, "corners out of order"))

(* The projection of a polygon: a first point is the least, but never the   *)
(* greatest.                                                                *)
Endless == 100
project_polygon(dots) ==
    FoldLeft(LAMBDA r, d : IF d < r[1] THEN <<d, r[2]>> ELSE IF d > r[2] THEN <<r[1], d>> ELSE r,
             <<Endless, 0 - Endless>>, dots)
Dots == UNION {[1 .. n -> Grid] : n \in 1 .. 3}
ProjectPolygon == \E dots \in Dots :
    Compute("project", project_polygon(dots),
            <<CHOOSE d \in ToSet(dots) : \A e \in ToSet(dots) : d <= e,
              CHOOSE d \in ToSet(dots) : \A e \in ToSet(dots) : d >= e>>,
            When(\A i \in 2 .. Len(dots) : dots[i] < dots[1], "the first is the greatest"))

interval_distance(a, b) == IF a[1] < b[1] THEN b[1] - a[2] ELSE a[1] - b[2]
Intervals == {i \in Points : i[1] <= i[2]}
IntervalDistance == \E a, b \in Intervals :
    Compute("distance", interval_distance(a, b) > 0, (a[1] .. a[2]) \cap (b[1] .. b[2]) = {}, NoFault)

-----------------------------------------------------------------------------
(* Matrices: the rows, each a sequence.                                     *)
Width(a) == Len(a[1])
Height(a) == Len(a)
Matrix(w, h, f(_, _)) == [i \in 1 .. h |-> [j \in 1 .. w |-> f(i, j)]]
Square == [1 .. 2 -> [1 .. 2 -> Entries]]
Shapes == {Matrix(w, h, LAMBDA i, j : i + 2 * j) : w, h \in 2 .. 4}
column_at(a, j) == [i \in 1 .. Height(a) |-> a[i][j]]
Product(r, c) == FoldLeft(LAMBDA sum, k : sum + r[k] * c[k], 0, [k \in 1 .. Len(r) |-> k])

identity(n) == Matrix(n, n, LAMBDA i, j : IF i = j THEN 1 ELSE 0)

(* The loops over the rows of a matrix go to its width.                     *)
add_matrix(a, b) == [i \in 1 .. Height(a) |->
    IF i <= Width(a) THEN [j \in 1 .. Width(a) |-> a[i][j] + b[i][j]] ELSE a[i]]
sub_matrix(a, b) == [i \in 1 .. Height(a) |->
    IF i <= Width(a) THEN [j \in 1 .. Width(a) |-> a[i][j] - b[i][j]] ELSE a[i]]
set_column(a, j, col) == [i \in 1 .. Height(a) |->
    IF i <= Width(a) THEN [a[i] EXCEPT ![j] = col[i]] ELSE a[i]]
NotSquare(a) == CASE Width(a) > Height(a) -> "past the last row"
                  [] Width(a) < Height(a) -> "rows left out"
                  [] OTHER                -> NoFault

(* A product by a number is computed, and then the matrix returned.         *)
scale_matrix(a, s) == a

(* The type of a product has the width of the first matrix and the height   *)
(* of the width of the second.                                              *)
multiply(a, b) == [i \in 1 .. Height(a) |-> [j \in 1 .. Width(b) |-> Product(column_at(b, j), a[i])]]
WrongShape(a, b) == Height(a) # Width(b) \/ Width(a) # Width(b)

MatrixAdd == \E a \in Shapes \cup Square :
    Compute("add", add_matrix(a, a), Matrix(Width(a), Height(a), LAMBDA i, j : 2 * a[i][j]), NotSquare(a))
MatrixSub == \E a \in Shapes \cup Square :
    Compute("sub", sub_matrix(a, a), Matrix(Width(a), Height(a), LAMBDA i, j : 0), NotSquare(a))
MatrixSetColumn == \E a \in Shapes \cup Square : \E j \in 1 .. Width(a) :
    Compute("column", column_at(set_column(a, j, [i \in 1 .. Height(a) |-> i]), j),
            [i \in 1 .. Height(a) |-> i], NotSquare(a))
MatrixScale == \E a \in Square, s \in Entries :
    Compute("scale", scale_matrix(a, s), Matrix(2, 2, LAMBDA i, j : s * a[i][j]), When(s # 1, "not scaled"))
MatrixMultiply == \E a, b \in Square \cup Shapes :
    /\ Width(a) = Height(b)
    /\ Compute("multiply", multiply(a, b),
               Matrix(Width(b), Height(a), LAMBDA i, j : Product(a[i], column_at(b, j))),
               When(WrongShape(a, b), "wrong shape"))

(* A vector that is one short gets a one, which the result is cut back by.  *)
matrix_transform(a, v) == [i \in 1 .. Height(a) |-> Product(a[i], v)]
transform_padded(a, p) == SubSeq(matrix_transform(a, p \o <<1>>), 1, Height(a) - 1)

make_2d_translation_matrix33(t) == <<<<1, 0, t[1]>>, <<0, 1, t[2]>>, <<0, 0, 1>>>>
make_2d_scaling_matrix(s) == <<<<s[1], 0, 0>>, <<0, s[2], 0>>, <<0, 0, 1>>>>
Turn(c, s) == <<<<c, s, 0>>, <<0 - s, c, 0>>, <<0, 0, 1>>>>
make_2d_rotation_matrix33(turn, o) ==
    multiply(multiply(make_2d_translation_matrix33(o), turn), make_2d_translation_matrix33(Minus(<<0, 0>>, o)))
make_2d_transform_matrix(t, s, turn) ==
    multiply(multiply(make_2d_scaling_matrix(s), make_2d_translation_matrix33(t)), turn)
QuarterTurns == {Turn(1, 0), Turn(0, 1), Turn(-1, 0), Turn(0, -1)}

(* Turned about a point, that point stays, and the square of the distance   *)
(* of any other to it; a transform turns, moves and scales, in this order.  *)
Distance(p, q) == LET d == Minus(p, q) IN d[1] * d[1] + d[2] * d[2]
TurnAbout == \E turn \in QuarterTurns, o, p \in Points :
    Compute("turn", Distance(transform_padded(make_2d_rotation_matrix33(turn, o), p), o), Distance(p, o), NoFault)
Transform == \E turn \in QuarterTurns, t, s \in Points :
    LET p == <<1, 2>>
        turned == SubSeq(matrix_transform(turn, p \o <<0>>), 1, 2)
    IN  Compute("transform", transform_padded(make_2d_transform_matrix(t, s, turn), p),
                <<s[1] * (turned[1] + t[1]), s[2] * (turned[2] + t[2])>>, NoFault)

Next ==
    \/ RectArea \/ RectIntersects \/ RectJoin \/ RectJoinPoint \/ RectRotated
    \/ SegmentsMeet \/ RectLine \/ ProjectPolygon \/ IntervalDistance
    \/ MatrixAdd \/ MatrixSub \/ MatrixSetColumn \/ MatrixScale \/ MatrixMultiply \/ TurnAbout \/ Transform

Spec == Init /\ [][Next]_vars

-----------------------------------------------------------------------------
(* What is computed is what the operation is for: the area two rectangles   *)
(* share, the least one around both, the point where segments meet, the     *)
(* extent of a projection, the product of matrices and what they transform. *)
Represents == fault = "none" /\ rep.op # "none" => rep.result = ref
=============================================================================
