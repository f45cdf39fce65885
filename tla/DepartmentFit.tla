----------------------------- MODULE DepartmentFit -----------------------------
(***************************************************************************)
(* fitDepartmentLayout: a department grows to its apps and shifts those      *)
(* placed below it, and these shift others. The loop stops after a pass      *)
(* that moved nothing, or after as many passes as there are departments:     *)
(* whether these are enough is the question.                                *)
(***************************************************************************)
EXTENDS Integers, FiniteSetsExt, Functions

CONSTANTS
    Frames,           \* the departments, numbered as they lie from left to right
    Tops, Heights,    \* the places and heights that are stored
    ContentHeights    \* the heights that the apps need; 0: not measured yet

\* layout.ts:98 and home-layout.ts:261 keep a department at least 160 pixels high.
ASSUME FitAssumption ==
    /\ Frames \subseteq Nat /\ IsFiniteSet(Frames)
    /\ Tops \subseteq Nat /\ Tops # {}
    /\ \A h \in Heights : h \in Nat /\ h >= 2
    /\ Heights # {}
    /\ ContentHeights \subseteq Nat /\ 0 \in ContentHeights

VARIABLES
    frames,   \* frame -> what is stored and what was measured
    tops,     \* frame -> where it is put
    passes,   \* passes of the loop so far
    settled   \* the loop is over

fitVars == <<frames, tops, passes, settled>>

FitTypeOK ==
    /\ frames \in [Frames -> [y : Tops, height : Heights, content : ContentHeights]]
    /\ tops \in [Frames -> Nat]
    /\ passes \in 0 .. Cardinality(Frames) /\ settled \in BOOLEAN

HeightOf(f) == Max({frames[f].height, frames[f].content})
StoredBottom(f) == frames[f].y + frames[f].height

\* One pixel of overlap does not make two departments neighbours.
IsBelow(below, above) == below # above /\ frames[below].y + 1 >= StoredBottom(above)
Gap(below, above) == Max({0, frames[below].y - StoredBottom(above)})

\* Where above lets below begin, given its own top.
MinTop(below, above, top) == top + HeightOf(above) + Gap(below, above)

\* From the top, and in one row from the left.
LiesAbove(a, b) == frames[a].y < frames[b].y \/ (frames[a].y = frames[b].y /\ a < b)

Ordered == CHOOSE order \in Surjection(1 .. Cardinality(Frames), Frames) :
             \A i, j \in 1 .. Cardinality(Frames) : i < j => LiesAbove(order[i], order[j])

\* Mutated form: the bottom is taken where above is stored, not where it has been put.
ShiftBelowStored(tops0, above) ==
    [f \in Frames |-> IF IsBelow(f, above)
                      THEN Max({tops0[f], MinTop(f, above, frames[above].y)}) ELSE tops0[f]]

ShiftBelow(tops0, above) ==
    [f \in Frames |-> IF IsBelow(f, above)
                      THEN Max({tops0[f], MinTop(f, above, tops0[above])}) ELSE tops0[f]]

\* The tops once the first of the departments have been gone through.
shifted[i \in 0 .. Cardinality(Frames)] ==
    IF i = 0 THEN tops ELSE ShiftBelow(shifted[i - 1], Ordered[i])

FitInit ==
    /\ frames \in [Frames -> [y : Tops, height : Heights, content : ContentHeights]]
    /\ tops = [f \in Frames |-> frames[f].y]
    /\ passes = 0 /\ settled = (Frames = {})

\* A pass over the departments from the top; those below each are shifted.
Pass ==
    /\ ~ settled
    /\ tops' = shifted[Cardinality(Frames)]
    /\ passes' = passes + 1
    /\ settled' = (tops' = tops \/ passes' = Cardinality(Frames))
    /\ UNCHANGED frames

FitSpec == FitInit /\ [][Pass]_fitVars

\* A department lies where it was stored, or as far down as one above it forces it, with
\* the gap it had: nothing is covered, nothing is moved further than that, and departments
\* of one row stay on one (home-layout.ts:189 "Side-by-side departments stay on their row").
FitIsExact ==
    settled =>
      /\ \A f \in Frames :
           tops[f] = Max({frames[f].y} \cup
                         {MinTop(f, g, tops[g]) : g \in {h \in Frames : IsBelow(f, h)}})
      /\ \A f, g \in Frames : frames[f].y <= frames[g].y => tops[f] <= tops[g]
================================================================================
