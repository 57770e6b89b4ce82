--------------------------------- MODULE Perlin ---------------------------------
(***************************************************************************)
(* PerlinNoise2D of server/src/headers/perlin_noise_generator.hpp, which   *)
(* every pixel of an image comes from.  A cell is a pair of integers, the  *)
(* floors of a point's coordinates; xf and yf are the point's place in it. *)
(*                                                                         *)
(* The code calculates with doubles.  Here places are integers as far as   *)
(* the theorems are concerned: what they state are equations between       *)
(* polynomials in xf or yf, and two polynomials that agree on the integers *)
(* agree everywhere, so the equations hold of the exact values that the    *)
(* doubles round.                                                          *)
(***************************************************************************)
EXTENDS Integers

\* What shuffle makes of 0 .. 255.
Shuffled == [0 .. 255 -> 0 .. 255]

\* makePermutation: the shuffled numbers, twice.
Permutation(p) == [i \in 0 .. 511 |-> IF i < 256 THEN p[i] ELSE p[i - 256]]

dot(v1, v2) == v1.x * v2.x + v1.y * v2.y

fade(t) == ((6 * t - 15) * t + 10) * t * t * t

lerp(t, a, b) == a + t * (b - a)

Vector2(x, y) == [x |-> x, y |-> y]

getConstantVector(value) ==
    CASE value % 4 = 0 -> Vector2(1, 1)
      [] value % 4 = 1 -> Vector2(-1, 1)
      [] value % 4 = 2 -> Vector2(-1, -1)
      [] OTHER         -> Vector2(1, -1)

\* The gradient at the corner of cell <<X, Y>> that is dx cells to the right and
\* dy cells up; & 255 of an int is its remainder.
Corner(p, X, Y, dx, dy) ==
    getConstantVector(Permutation(p)[Permutation(p)[(X % 256) + dx]
                                       + (Y % 256) + dy])

\* The influence of that corner on the point.
Influence(p, X, Y, xf, yf, dx, dy) ==
    dot(Vector2(xf - dx, yf - dy), Corner(p, X, Y, dx, dy))

noise2D(p, X, Y, xf, yf) ==
    LET at(dx, dy) == Influence(p, X, Y, xf, yf, dx, dy)
        lerpBottom == lerp(fade(xf), at(0, 0), at(1, 0))
        lerpTop    == lerp(fade(xf), at(0, 1), at(1, 1))
    IN  lerp(fade(yf), lerpBottom, lerpTop)

=============================================================================
