------------------------ MODULE EditWorkspaceProofs ------------------------
(***************************************************************************)
(* Proofs about EditWorkspace, for a source of any length, frames of any   *)
(* duration, any suggestions, any positions of the playhead and any bounds *)
(* on the history, the exports and the queue: every document is a list of  *)
(* kept ranges in order, the handles never cross, an edit takes what they  *)
(* enclose, the player comes to play the document, and the workspace       *)
(* implements EditDecisions.                                               *)
(*                                                                         *)
(* The model's sums and folds are recursive functions, whose values are    *)
(* found by induction over a set of numbers: a set of natural numbers that *)
(* holds 0 and each successor holds them all, because what it left out     *)
(* would have a least element.                                             *)
(***************************************************************************)
EXTENDS EditWorkspace, WellFoundedInduction, TLAPS

-----------------------------------------------------------------------------
(* Numbers                                                                  *)

\* Every set of natural numbers has a least one.
LEMMA LeastNumber ==
  ASSUME NEW T, T \subseteq Nat, T # {}
  PROVE  \E n \in T : \A m \in T : n <= m
<1> DEFINE Less == {pair \in Nat \X Nat : pair[1] < pair[2]}
<1>1. IsWellFoundedOn(Less, Nat)
  BY NatLessThanWellFounded DEF OpToRel
<1> HIDE DEF Less
<1>2. \E n \in T : \A m \in T : <<m, n>> \notin Less
  BY <1>1, WFMin
<1>3. PICK n \in T : \A m \in T : <<m, n>> \notin Less
  BY <1>2
<1>4. \A m \in T : ~(m < n)
  BY <1>3 DEF Less
<1> QED
  BY <1>4

\* Induction over the numbers, for a property that is a set of them.
LEMMA Induction ==
  ASSUME NEW T, 0 \in T, \A n \in Nat : n \in T => n + 1 \in T
  PROVE  Nat \subseteq T
<1> SUFFICES ASSUME Nat \ T # {} PROVE FALSE
  OBVIOUS
<1> DEFINE Rest == Nat \ T
<1>1. Rest \subseteq Nat /\ Rest # {}
  OBVIOUS
<1> HIDE DEF Rest
<1>2. PICK n \in Rest : \A m \in Rest : n <= m
  BY <1>1, LeastNumber
<1>3. n # 0 /\ n \in Nat
  BY <1>1 DEF Rest
<1>4. n - 1 \in Nat /\ ~(n <= n - 1) /\ (n - 1) + 1 = n
  BY <1>3
<1>5. n - 1 \in T
  BY <1>2, <1>4 DEF Rest
<1>6. n \in T
  BY <1>4, <1>5
<1> QED
  BY <1>6 DEF Rest

\* The larger and the smaller of two numbers.
LEMMA MaxOfTwo ==
  ASSUME NEW a \in Int, NEW b \in Int
  PROVE  Max({a, b}) = IF a >= b THEN a ELSE b
<1> DEFINE IsMax(x) == x \in {a, b} /\ \A y \in {a, b} : x >= y
<1>1. IsMax(IF a >= b THEN a ELSE b)
  OBVIOUS
<1>2. \A x : IsMax(x) => x = (IF a >= b THEN a ELSE b)
  OBVIOUS
<1>3. Max({a, b}) = CHOOSE x : IsMax(x)
  BY DEF Max
<1> HIDE DEF IsMax
<1> QED
  BY <1>1, <1>2, <1>3

LEMMA MinOfTwo ==
  ASSUME NEW a \in Int, NEW b \in Int
  PROVE  Min({a, b}) = IF a <= b THEN a ELSE b
<1> DEFINE IsMin(x) == x \in {a, b} /\ \A y \in {a, b} : x <= y
<1>1. IsMin(IF a <= b THEN a ELSE b)
  OBVIOUS
<1>2. \A x : IsMin(x) => x = (IF a <= b THEN a ELSE b)
  OBVIOUS
<1>3. Min({a, b}) = CHOOSE x : IsMin(x)
  BY DEF Min
<1> HIDE DEF IsMin
<1> QED
  BY <1>1, <1>2, <1>3

-----------------------------------------------------------------------------
(* The program                                                              *)

Clips == [start : Nat, end : Nat]

\* Clips of the source from a to b, none of them empty, one behind the other.
Within(clips, a, b) ==
  /\ clips \in Seq(Clips)
  /\ \A i \in DOMAIN clips :
       /\ a <= clips[i].start
       /\ clips[i].start < clips[i].end
       /\ clips[i].end <= b
  /\ \A i, j \in DOMAIN clips : i < j => clips[i].end <= clips[j].start

\* The ranges of a document: something is kept.
Kept(ranges) == ranges # <<>> /\ Within(ranges, 0, Duration)

\* The units of the source that clips hold.
UnitsOf(clips) ==
  {u \in Nat : \E i \in DOMAIN clips : clips[i].start <= u /\ u < clips[i].end}

\* Nothing is missing but what lies between a and b, or nothing but that is
\* left.
Lacks(next, ranges, a, b) == UnitsOf(next) = UnitsOf(ranges) \ (a..(b - 1))
HasOnly(next, ranges, a, b) == UnitsOf(next) = UnitsOf(ranges) \cap (a..(b - 1))

\* Something is removed between any two of the clips.
Parted(clips) ==
  \A i, j \in DOMAIN clips : i < j => clips[i].end < clips[j].start

LEMMA ClipHas ==
  ASSUME NEW a, NEW b, NEW ranges, Within(ranges, a, b), NEW i \in DOMAIN ranges
  PROVE  /\ ranges[i] \in Clips
         /\ ranges[i].start \in Nat /\ ranges[i].end \in Nat
         /\ ranges[i].start < ranges[i].end
         /\ a <= ranges[i].start /\ ranges[i].end <= b
         /\ i \in Nat \ {0} /\ i <= Len(ranges)
<1>1. ranges \in Seq(Clips)
  BY DEF Within
<1>2. ranges[i] \in Clips /\ i \in Nat \ {0} /\ i <= Len(ranges)
  BY <1>1
<1>3. ranges[i].start \in Nat /\ ranges[i].end \in Nat
  BY <1>2 DEF Clips
<1> QED
  BY <1>2, <1>3 DEF Within

\* The sums of a sequence of numbers.
SumsOf(f, n, b) == f = [i \in 0..n |-> IF i = 0 THEN 0 ELSE f[i - 1] + b[i]]

LEMMA SumsExist ==
  ASSUME NEW b, NEW n \in Nat, \A i \in 1..n : b[i] \in Nat
  PROVE  \E f \in [0..n -> Nat] : SumsOf(f, n, b)
<1> DEFINE T == {m \in Nat : m <= n => \E f \in [0..m -> Nat] : SumsOf(f, m, b)}
<1>1. 0 \in T
  <2> DEFINE f == [i \in 0..0 |-> 0]
  <2>1. f \in [0..0 -> Nat] /\ SumsOf(f, 0, b)
    BY DEF SumsOf
  <2> QED
    BY <2>1
<1>2. ASSUME NEW m \in Nat, m \in T
      PROVE  m + 1 \in T
  <2> SUFFICES ASSUME m + 1 <= n
               PROVE  \E g \in [0..(m + 1) -> Nat] : SumsOf(g, m + 1, b)
    OBVIOUS
  <2>1. PICK f \in [0..m -> Nat] : SumsOf(f, m, b)
    BY <1>2
  <2> DEFINE g == [i \in 0..(m + 1) |-> IF i = m + 1 THEN f[m] + b[m + 1] ELSE f[i]]
  <2>2. g \in [0..(m + 1) -> Nat]
    OBVIOUS
  <2>3. \A i \in 0..m : f[i] = IF i = 0 THEN 0 ELSE f[i - 1] + b[i]
    BY <2>1 DEF SumsOf
  <2>4. \A i \in 0..(m + 1) : g[i] = IF i = 0 THEN 0 ELSE g[i - 1] + b[i]
    BY <2>3
  <2>5. SumsOf(g, m + 1, b)
    BY <2>2, <2>4 DEF SumsOf
  <2> QED
    BY <2>2, <2>5
<1> HIDE DEF T
<1>3. n \in T
  BY <1>1, <1>2, Induction
<1> QED
  BY <1>3 DEF T

\* How much of a clip comes before a place in the source.
LEMMA BeforeIs ==
  ASSUME NEW clip \in Clips, NEW s \in Int, clip.start < clip.end
  PROVE  Before(clip, s) = IF s <= clip.start THEN 0
                           ELSE IF s >= clip.end THEN clip.end - clip.start
                           ELSE s - clip.start
<1>1. clip.start \in Nat /\ clip.end \in Nat
  BY DEF Clips
<1>2. Min({s, clip.end}) = IF s <= clip.end THEN s ELSE clip.end
  BY <1>1, MinOfTwo
<1>3. Min({s, clip.end}) - clip.start \in Int
  BY <1>1, <1>2
<1>4. Before(clip, s) = IF 0 >= Min({s, clip.end}) - clip.start THEN 0
                        ELSE Min({s, clip.end}) - clip.start
  BY <1>3, MaxOfTwo DEF Before
<1> QED
  BY <1>1, <1>2, <1>4

\* pointForSource() adds up what every clip has before the place.
LEMMA PresentationSums ==
  ASSUME NEW a, NEW b, NEW ranges, Within(ranges, a, b), NEW s \in Int
  PROVE  \E f \in [0..Len(ranges) -> Nat] :
           /\ f[0] = 0
           /\ \A i \in 1..Len(ranges) : f[i] = f[i - 1] + Before(ranges[i], s)
           /\ PresentationOf(ranges, s) = f[Len(ranges)]
<1> DEFINE n == Len(ranges)
           c == [i \in 1..n |-> Before(ranges[i], s)]
           Is(f) == f = [i \in 0..n |-> IF i = 0 THEN 0
                                        ELSE f[i - 1] + Before(ranges[i], s)]
<1>1. ranges \in Seq(Clips) /\ n \in Nat /\ DOMAIN ranges = 1..n
  BY DEF Within
<1>2. \A i \in 1..n : c[i] \in Nat
  <2> SUFFICES ASSUME NEW i \in 1..n PROVE Before(ranges[i], s) \in Nat
    OBVIOUS
  <2>1. ranges[i] \in Clips /\ ranges[i].start < ranges[i].end
    BY <1>1 DEF Within
  <2> QED
    BY <2>1, BeforeIs DEF Clips
<1>3. PICK g \in [0..n -> Nat] : SumsOf(g, n, c)
  <2> HIDE DEF c, n
  <2> QED
    BY <1>1, <1>2, SumsExist
<1>4. Is(g)
  <2>1. \A i \in 0..n : g[i] = IF i = 0 THEN 0 ELSE g[i - 1] + c[i]
    BY <1>3 DEF SumsOf
  <2>2. \A i \in 0..n : i # 0 => c[i] = Before(ranges[i], s)
    BY <1>1
  <2>3. g = [i \in 0..n |-> g[i]]
    OBVIOUS
  <2> HIDE DEF c, n
  <2> QED
    BY <2>1, <2>2, <2>3
<1> DEFINE f == CHOOSE it : Is(it)
<1>5. Is(f)
  <2> HIDE DEF Is
  <2> QED
    BY <1>4
<1>6. PresentationOf(ranges, s) = f[n]
  BY DEF PresentationOf
<1> HIDE DEF f
<1>7. f = g
  <2> DEFINE T == {i \in Nat : i <= n => f[i] = g[i]}
  <2>0. /\ \A i \in 0..n : f[i] = IF i = 0 THEN 0
                                  ELSE f[i - 1] + Before(ranges[i], s)
        /\ \A i \in 0..n : g[i] = IF i = 0 THEN 0
                                  ELSE g[i - 1] + Before(ranges[i], s)
    BY <1>4, <1>5
  <2>1. 0 \in T
    BY <1>1, <2>0
  <2>2. ASSUME NEW i \in Nat, i \in T PROVE i + 1 \in T
    <3>1. CASE i + 1 <= n
      <4>1. i + 1 \in 0..n /\ i + 1 # 0 /\ (i + 1) - 1 = i /\ f[i] = g[i]
        BY <1>1, <2>2, <3>1
      <4> QED
        BY <2>0, <4>1
    <3> QED
      BY <3>1
  <2>3. Nat \subseteq T
    <3> HIDE DEF T
    <3> QED
      BY <2>1, <2>2, Induction
  <2>4. \A i \in 0..n : f[i] = g[i]
    BY <1>1, <2>3
  <2>5. f = [i \in 0..n |-> f[i]] /\ g = [i \in 0..n |-> g[i]]
    BY <1>5
  <2> QED
    BY <2>4, <2>5
<1>8. /\ f \in [0..n -> Nat] /\ f[0] = 0
      /\ \A i \in 1..n : f[i] = f[i - 1] + Before(ranges[i], s)
  <2>1. \A i \in 0..n : f[i] = IF i = 0 THEN 0
                               ELSE f[i - 1] + Before(ranges[i], s)
    BY <1>5
  <2> QED
    BY <1>1, <1>7, <2>1
<1> QED
  BY <1>6, <1>8

\* A place in the source comes no earlier in the program than one before it.
LEMMA PresentationGrows ==
  ASSUME NEW a, NEW b, NEW ranges, Within(ranges, a, b),
         NEW s \in Int, NEW t \in Int, s <= t
  PROVE  /\ PresentationOf(ranges, s) \in Nat
         /\ PresentationOf(ranges, t) \in Nat
         /\ PresentationOf(ranges, s) <= PresentationOf(ranges, t)
<1> DEFINE n == Len(ranges)
           Sums(f, u) ==
             /\ f[0] = 0
             /\ \A i \in 1..n : f[i] = f[i - 1] + Before(ranges[i], u)
             /\ PresentationOf(ranges, u) = f[n]
<1>1. n \in Nat /\ DOMAIN ranges = 1..n
  BY DEF Within
<1>2. PICK f \in [0..n -> Nat] : Sums(f, s)
  BY PresentationSums, ZenonT(40)
<1>3. PICK g \in [0..n -> Nat] : Sums(g, t)
  BY PresentationSums, ZenonT(40)
<1>4. \A i \in 1..n : /\ Before(ranges[i], s) \in Nat
                      /\ Before(ranges[i], t) \in Nat
                      /\ Before(ranges[i], s) <= Before(ranges[i], t)
  <2> SUFFICES ASSUME NEW i \in 1..n
               PROVE  /\ Before(ranges[i], s) \in Nat
                      /\ Before(ranges[i], t) \in Nat
                      /\ Before(ranges[i], s) <= Before(ranges[i], t)
    OBVIOUS
  <2>1. ranges[i] \in Clips /\ ranges[i].start < ranges[i].end
    BY <1>1 DEF Within
  <2>2. ranges[i].start \in Nat /\ ranges[i].end \in Nat
    BY <2>1 DEF Clips
  <2>3. /\ Before(ranges[i], s) =
             IF s <= ranges[i].start THEN 0
             ELSE IF s >= ranges[i].end THEN ranges[i].end - ranges[i].start
             ELSE s - ranges[i].start
        /\ Before(ranges[i], t) =
             IF t <= ranges[i].start THEN 0
             ELSE IF t >= ranges[i].end THEN ranges[i].end - ranges[i].start
             ELSE t - ranges[i].start
    BY <2>1, BeforeIs
  <2> QED
    BY <2>1, <2>2, <2>3
<1> DEFINE T == {i \in Nat : i <= n => f[i] <= g[i]}
<1> HIDE DEF n
<1>5. 0 \in T
  BY <1>2, <1>3
<1>6. ASSUME NEW i \in Nat, i \in T PROVE i + 1 \in T
  <2> SUFFICES ASSUME i + 1 <= n PROVE f[i + 1] <= g[i + 1]
    OBVIOUS
  <2>1. i + 1 \in 1..n /\ (i + 1) - 1 = i /\ i \in 0..n
    BY <1>1
  <2>2. /\ f[i + 1] = f[i] + Before(ranges[i + 1], s)
        /\ g[i + 1] = g[i] + Before(ranges[i + 1], t)
    BY <1>2, <1>3, <2>1
  <2>3. f[i] \in Nat /\ g[i] \in Nat /\ f[i] <= g[i]
    BY <1>1, <1>6, <2>1
  <2> QED
    BY <1>4, <2>1, <2>2, <2>3
<1>7. n \in T
  <2> HIDE DEF T
  <2> QED
    BY <1>1, <1>5, <1>6, Induction
<1> QED
  BY <1>1, <1>2, <1>3, <1>7

\* Two places that differ in what one clip alone has before them.
LEMMA PresentationShifts ==
  ASSUME NEW a, NEW b, NEW ranges, Within(ranges, a, b),
         NEW s \in Int, NEW t \in Int, NEW k \in Int, NEW d \in Int,
         \A i \in DOMAIN ranges :
           Before(ranges[i], t) = Before(ranges[i], s) + (IF i = k THEN d ELSE 0)
  PROVE  PresentationOf(ranges, t) =
           PresentationOf(ranges, s) + (IF k \in DOMAIN ranges THEN d ELSE 0)
<1> DEFINE n == Len(ranges)
           Sums(f, u) ==
             /\ f[0] = 0
             /\ \A i \in 1..n : f[i] = f[i - 1] + Before(ranges[i], u)
             /\ PresentationOf(ranges, u) = f[n]
<1>1. n \in Nat /\ DOMAIN ranges = 1..n
  BY DEF Within
<1>2. PICK f \in [0..n -> Nat] : Sums(f, s)
  BY PresentationSums, ZenonT(40)
<1>3. PICK g \in [0..n -> Nat] : Sums(g, t)
  BY PresentationSums, ZenonT(40)
<1>4. \A i \in 1..n : Before(ranges[i], s) \in Int
  <2> SUFFICES ASSUME NEW i \in 1..n PROVE Before(ranges[i], s) \in Int
    OBVIOUS
  <2>1. ranges[i] \in Clips /\ ranges[i].start < ranges[i].end
    BY <1>1 DEF Within
  <2>2. ranges[i].start \in Nat /\ ranges[i].end \in Nat
    BY <2>1 DEF Clips
  <2> QED
    BY <2>1, <2>2, BeforeIs
<1> DEFINE T == {i \in Nat :
             i <= n => g[i] = f[i] + (IF k \in 1..i THEN d ELSE 0)}
<1> HIDE DEF n
<1>5. 0 \in T
  BY <1>2, <1>3
<1>6. ASSUME NEW i \in Nat, i \in T PROVE i + 1 \in T
  <2> SUFFICES ASSUME i + 1 <= n
               PROVE  g[i + 1] = f[i + 1] + (IF k \in 1..(i + 1) THEN d ELSE 0)
    OBVIOUS
  <2>1. i + 1 \in 1..n /\ (i + 1) - 1 = i /\ i \in 0..n
    BY <1>1
  <2>2. /\ f[i + 1] = f[i] + Before(ranges[i + 1], s)
        /\ g[i + 1] = g[i] + Before(ranges[i + 1], t)
    BY <1>2, <1>3, <2>1
  <2>3. f[i] \in Nat /\ g[i] \in Nat /\ g[i] = f[i] + (IF k \in 1..i THEN d ELSE 0)
    BY <1>1, <1>6, <2>1
  <2>4. Before(ranges[i + 1], t) =
          Before(ranges[i + 1], s) + (IF i + 1 = k THEN d ELSE 0)
    BY <1>1, <2>1
  <2> QED
    BY <1>4, <2>1, <2>2, <2>3, <2>4
<1>7. n \in T
  <2> HIDE DEF T
  <2> QED
    BY <1>1, <1>5, <1>6, Induction
<1> QED
  BY <1>1, <1>2, <1>3, <1>7

\* Within a clip, source and program advance together.
LEMMA WithinClip ==
  ASSUME NEW a, NEW b, NEW ranges, Within(ranges, a, b),
         NEW k \in DOMAIN ranges, NEW s \in Int,
         ranges[k].start <= s, s <= ranges[k].end
  PROVE  PresentationOf(ranges, s) =
           PresentationOf(ranges, ranges[k].start) + (s - ranges[k].start)
<1>0. ranges \in Seq(Clips) /\ k \in Int
  BY DEF Within
<1>1. \A i \in DOMAIN ranges :
        /\ ranges[i] \in Clips /\ ranges[i].start \in Nat
        /\ ranges[i].end \in Nat /\ ranges[i].start < ranges[i].end
        /\ i < k => ranges[i].end <= ranges[k].start
        /\ k < i => ranges[k].end <= ranges[i].start
        /\ i \in Int
  <2>1. \A i \in DOMAIN ranges :
          /\ ranges[i] \in Clips /\ ranges[i].start \in Nat
          /\ ranges[i].end \in Nat /\ ranges[i].start < ranges[i].end
          /\ i \in Int
    BY ClipHas
  <2> QED
    BY <2>1 DEF Within
<1>2. \A i \in DOMAIN ranges :
        Before(ranges[i], s) = Before(ranges[i], ranges[k].start)
                                 + (IF i = k THEN s - ranges[k].start ELSE 0)
  <2> SUFFICES ASSUME NEW i \in DOMAIN ranges
               PROVE  Before(ranges[i], s) =
                        Before(ranges[i], ranges[k].start)
                          + (IF i = k THEN s - ranges[k].start ELSE 0)
    OBVIOUS
  <2> DEFINE u == ranges[k].start
  <2>0. u \in Int
    BY <1>1
  <2>1. /\ Before(ranges[i], s) =
             IF s <= ranges[i].start THEN 0
             ELSE IF s >= ranges[i].end THEN ranges[i].end - ranges[i].start
             ELSE s - ranges[i].start
        /\ Before(ranges[i], u) =
             IF u <= ranges[i].start THEN 0
             ELSE IF u >= ranges[i].end THEN ranges[i].end - ranges[i].start
             ELSE u - ranges[i].start
    <3> HIDE DEF u
    <3> QED
      BY <1>1, <2>0, BeforeIs
  <2>2. CASE i = k
    BY <1>1, <2>1, <2>2
  <2>3. CASE i < k
    BY <1>1, <2>1, <2>3
  <2>4. CASE i > k
    BY <1>1, <2>1, <2>4
  <2> QED
    BY <1>0, <1>1, <2>2, <2>3, <2>4
<1> DEFINE u == ranges[k].start
           d == s - u
<1>3. u \in Int /\ d \in Int
  BY <1>1
<1>4. \A i \in DOMAIN ranges :
        Before(ranges[i], s) = Before(ranges[i], u) + (IF i = k THEN d ELSE 0)
  BY <1>2
<1>5. PresentationOf(ranges, s) =
        PresentationOf(ranges, u) + (IF k \in DOMAIN ranges THEN d ELSE 0)
  <2> HIDE DEF u, d
  <2> QED
    BY <1>0, <1>3, <1>4, PresentationShifts
<1> QED
  BY <1>5

\* Between two clips that follow one another, and outside of all of them,
\* the program stands still.
LEMMA BetweenClips ==
  ASSUME NEW a, NEW b, NEW ranges, Within(ranges, a, b),
         NEW s \in Int, NEW t \in Int, s <= t,
         \A i \in DOMAIN ranges : ranges[i].end <= s \/ t <= ranges[i].start
  PROVE  PresentationOf(ranges, s) = PresentationOf(ranges, t)
<1>0. ranges \in Seq(Clips)
  BY DEF Within
<1>1. \A i \in DOMAIN ranges :
        /\ ranges[i] \in Clips /\ ranges[i].start \in Nat
        /\ ranges[i].end \in Nat /\ ranges[i].start < ranges[i].end
        /\ i # 0
  BY ClipHas
<1>2. \A i \in DOMAIN ranges :
        Before(ranges[i], t) = Before(ranges[i], s) + (IF i = 0 THEN 0 ELSE 0)
  BY <1>1, BeforeIs
<1>3. PresentationOf(ranges, t) =
        PresentationOf(ranges, s) + (IF 0 \in DOMAIN ranges THEN 0 ELSE 0)
  BY <1>2, PresentationShifts
<1>4. PresentationOf(ranges, s) \in Nat
  BY PresentationGrows
<1> QED
  BY <1>3, <1>4

\* The program begins with the first clip.
LEMMA ProgramBegins ==
  ASSUME NEW a, NEW b, NEW ranges, Within(ranges, a, b), NEW s \in Int,
         \A i \in DOMAIN ranges : s <= ranges[i].start
  PROVE  PresentationOf(ranges, s) = 0
<1> DEFINE n == Len(ranges)
<1>1. n \in Nat /\ DOMAIN ranges = 1..n
  BY DEF Within
<1>2. PICK f \in [0..n -> Nat] :
        /\ f[0] = 0
        /\ \A i \in 1..n : f[i] = f[i - 1] + Before(ranges[i], s)
        /\ PresentationOf(ranges, s) = f[n]
  BY PresentationSums
<1>3. \A i \in 1..n : Before(ranges[i], s) = 0
  BY <1>1, ClipHas, BeforeIs
<1> DEFINE T == {i \in Nat : i <= n => f[i] = 0}
<1> HIDE DEF n
<1>4. 0 \in T
  BY <1>2
<1>5. ASSUME NEW i \in Nat, i \in T PROVE i + 1 \in T
  <2> SUFFICES ASSUME i + 1 <= n PROVE f[i + 1] = 0
    OBVIOUS
  <2>1. i + 1 \in 1..n /\ (i + 1) - 1 = i /\ i <= n
    BY <1>1
  <2> QED
    BY <1>2, <1>3, <1>5, <2>1
<1>6. n \in T
  <2> HIDE DEF T
  <2> QED
    BY <1>1, <1>4, <1>5, Induction
<1> QED
  BY <1>1, <1>2, <1>6

\* Every position before the end of the program is on one of its clips.
LEMMA SomeClipIsOn ==
  ASSUME Duration \in Nat, NEW ranges, Kept(ranges),
         NEW p \in Nat, p < ProgramLength(ranges)
  PROVE  \E i \in DOMAIN ranges :
           /\ PresentationOf(ranges, ranges[i].start) <= p
           /\ p < PresentationOf(ranges, ranges[i].start) + Length(ranges[i])
<1> DEFINE n == Len(ranges)
           End(i) == PresentationOf(ranges, ranges[i].end)
           Start(i) == PresentationOf(ranges, ranges[i].start)
           T == {i \in DOMAIN ranges : p < End(i)}
<1>0. Within(ranges, 0, Duration) /\ ranges # <<>>
  BY DEF Kept
<1>1. n \in Nat /\ n # 0 /\ DOMAIN ranges = 1..n
  BY <1>0 DEF Within
<1>2. \A i \in DOMAIN ranges :
        /\ Start(i) \in Nat /\ End(i) \in Nat
        /\ End(i) = Start(i) + Length(ranges[i])
  <2> SUFFICES ASSUME NEW i \in DOMAIN ranges
               PROVE  /\ Start(i) \in Nat /\ End(i) \in Nat
                      /\ End(i) = Start(i) + Length(ranges[i])
    OBVIOUS
  <2>1. /\ ranges[i].start \in Int /\ ranges[i].end \in Int
        /\ ranges[i].start <= ranges[i].end
    BY <1>0, ClipHas
  <2>2. Start(i) \in Nat /\ End(i) \in Nat
    BY <1>0, <2>1, PresentationGrows
  <2> QED
    BY <1>0, <2>1, <2>2, WithinClip DEF Length
<1>3. End(n) = ProgramLength(ranges)
  <2>1. n \in DOMAIN ranges /\ ranges[n].end \in Int /\ ranges[n].end <= Duration
    BY <1>0, <1>1, ClipHas
  <2>2. \A i \in DOMAIN ranges : ranges[i].end <= ranges[n].end
    <3> SUFFICES ASSUME NEW i \in DOMAIN ranges
                 PROVE  ranges[i].end <= ranges[n].end
      OBVIOUS
    <3>1. /\ ranges[n].start \in Nat /\ ranges[n].end \in Nat
          /\ ranges[n].start < ranges[n].end /\ ranges[i].end \in Nat
      BY <1>0, <2>1, ClipHas
    <3>2. i < n => ranges[i].end <= ranges[n].start
      BY <1>0, <2>1 DEF Within
    <3> QED
      BY <1>1, <3>1, <3>2
  <2> QED
    BY <1>0, <2>1, <2>2, BetweenClips DEF ProgramLength
<1>4. n \in T
  BY <1>1, <1>3
<1>5. T \subseteq Nat
  BY <1>1
<1>6. PICK k \in T : \A i \in T : k <= i
  <2> HIDE DEF T
  <2> QED
    BY <1>4, <1>5, LeastNumber
<1>7. k \in DOMAIN ranges /\ k \in Nat /\ p < End(k)
  BY <1>5, <1>6
<1>8. Start(k) <= p
  <2>1. CASE k = 1
    <3>1. \A i \in DOMAIN ranges : ranges[1].start <= ranges[i].start
      <4> SUFFICES ASSUME NEW i \in DOMAIN ranges
                   PROVE  ranges[1].start <= ranges[i].start
        OBVIOUS
      <4>1. /\ ranges[1].start \in Nat /\ ranges[1].end \in Nat
            /\ ranges[1].start < ranges[1].end /\ ranges[i].start \in Nat
        BY <1>0, <1>7, <2>1, ClipHas
      <4>2. 1 < i => ranges[1].end <= ranges[i].start
        BY <1>0, <1>7, <2>1 DEF Within
      <4> QED
        BY <1>1, <4>1, <4>2
    <3>2. ranges[1].start \in Int
      BY <1>0, <1>7, <2>1, ClipHas
    <3>3. Start(k) = 0
      BY <1>0, <2>1, <3>1, <3>2, ProgramBegins
    <3> QED
      BY <3>3
  <2>2. CASE k # 1
    <3> DEFINE j == k - 1
    <3>1. j \in DOMAIN ranges /\ j \in Nat /\ j < k /\ \A i \in DOMAIN ranges : i <= j \/ k <= i
      BY <1>1, <1>7, <2>2
    <3>2. ~(p < End(j))
      <4>1. ~(k <= j)
        BY <1>7, <3>1
      <4>2. j \notin T
        BY <1>6, <4>1
      <4> QED
        BY <3>1, <4>2
    <3>3. /\ ranges[j].end \in Int /\ ranges[k].start \in Int
          /\ ranges[j].end <= ranges[k].start
      <4>1. ranges[j].end \in Nat /\ ranges[k].start \in Nat
        BY <1>0, <1>7, <3>1, ClipHas
      <4>2. ranges[j].end <= ranges[k].start
        BY <1>0, <1>7, <3>1 DEF Within
      <4> QED
        BY <4>1, <4>2
    <3>4. \A i \in DOMAIN ranges :
            ranges[i].end <= ranges[j].end \/ ranges[k].start <= ranges[i].start
      <4> SUFFICES ASSUME NEW i \in DOMAIN ranges
                   PROVE  \/ ranges[i].end <= ranges[j].end
                          \/ ranges[k].start <= ranges[i].start
        OBVIOUS
      <4>1. \A l \in {i, j, k} :
              /\ ranges[l].start \in Nat /\ ranges[l].end \in Nat
              /\ ranges[l].start < ranges[l].end
        BY <1>0, <1>7, <3>1, ClipHas
      <4>2. /\ i < j => ranges[i].end <= ranges[j].start
            /\ k < i => ranges[k].end <= ranges[i].start
        BY <1>0, <1>7, <3>1 DEF Within
      <4>3. i \in Nat
        BY <1>1
      <4> HIDE DEF j
      <4> QED
        BY <1>7, <3>1, <4>1, <4>2, <4>3
    <3>5. End(j) = Start(k)
      BY <1>0, <3>3, <3>4, BetweenClips
    <3> QED
      BY <1>2, <3>1, <3>2, <3>5
  <2> QED
    BY <2>1, <2>2
<1> QED
  BY <1>2, <1>7, <1>8

\* pointAt() finds the content that is on: what comes before it in the program
\* is the position it was found at.
LEMMA SourceIsFound ==
  ASSUME Duration \in Nat, NEW ranges, Kept(ranges),
         NEW p \in Nat, p <= ProgramLength(ranges)
  PROVE  /\ SourceAt(ranges, p) \in 0..Duration
         /\ PresentationOf(ranges, SourceAt(ranges, p)) = p
         /\ p < ProgramLength(ranges) =>
              /\ SourceAt(ranges, p) < Duration
              /\ PresentationOf(ranges, SourceAt(ranges, p) + 1) = p + 1
<1>0. Within(ranges, 0, Duration) /\ ranges # <<>>
  BY DEF Kept
<1>1. Len(ranges) \in Nat /\ Len(ranges) # 0 /\ DOMAIN ranges = 1..Len(ranges)
  BY <1>0 DEF Within
<1>2. ProgramLength(ranges) \in Nat
  BY <1>0, PresentationGrows DEF ProgramLength
<1>3. CASE p >= ProgramLength(ranges)
  <2> DEFINE n == Len(ranges)
  <2>1. SourceAt(ranges, p) = ranges[n].end
    BY <1>3 DEF SourceAt, Last
  <2>2. /\ n \in DOMAIN ranges /\ ranges[n].end \in Nat
        /\ ranges[n].end <= Duration /\ ranges[n].start \in Nat
        /\ ranges[n].start < ranges[n].end
    BY <1>0, <1>1, ClipHas
  <2>3. \A i \in DOMAIN ranges : ranges[i].end <= ranges[n].end
    <3> SUFFICES ASSUME NEW i \in DOMAIN ranges
                 PROVE  ranges[i].end <= ranges[n].end
      OBVIOUS
    <3>1. ranges[i].end \in Nat
      BY <1>0, ClipHas
    <3>2. i < n => ranges[i].end <= ranges[n].start
      BY <1>0, <2>2 DEF Within
    <3> QED
      BY <1>1, <2>2, <3>1, <3>2
  <2>4. PresentationOf(ranges, ranges[n].end) = ProgramLength(ranges)
    BY <1>0, <2>2, <2>3, BetweenClips DEF ProgramLength
  <2> HIDE DEF n
  <2> QED
    BY <1>2, <1>3, <2>1, <2>2, <2>4
<1>4. CASE ~(p >= ProgramLength(ranges))
  <2> DEFINE IsOn(i) ==
               /\ i \in DOMAIN ranges
               /\ PresentationOf(ranges, ranges[i].start) <= p
               /\ p < PresentationOf(ranges, ranges[i].start) + Length(ranges[i])
             on == CHOOSE i \in DOMAIN ranges :
               /\ PresentationOf(ranges, ranges[i].start) <= p
               /\ p < PresentationOf(ranges, ranges[i].start) + Length(ranges[i])
             c == ranges[on].start + p - PresentationOf(ranges, ranges[on].start)
  <2>1. p < ProgramLength(ranges)
    BY <1>2, <1>4
  <2>2. \E i : IsOn(i)
    BY <2>1, SomeClipIsOn
  <2>3. IsOn(on)
    BY <2>2
  <2>4. SourceAt(ranges, p) = c
    BY <1>4 DEF SourceAt
  <2> DEFINE start == ranges[on].start
             end == ranges[on].end
             before == PresentationOf(ranges, start)
  <2>5. on \in DOMAIN ranges /\ before <= p /\ p < before + (end - start)
    BY <2>3 DEF Length
  <2> HIDE DEF on, IsOn
  <2>6. start \in Nat /\ end \in Nat /\ start < end /\ end <= Duration
    BY <1>0, <2>5, ClipHas
  <2>7. before \in Nat
    BY <1>0, <2>6, PresentationGrows
  <2>8. c \in Nat /\ start <= c /\ c < end /\ c + 1 <= end
    BY <2>5, <2>6, <2>7
  <2>9. /\ PresentationOf(ranges, c) = before + (c - start)
        /\ PresentationOf(ranges, c + 1) = before + (c + 1 - start)
    <3>1. c \in Int /\ c + 1 \in Int /\ c <= end /\ start <= c + 1
      BY <2>6, <2>8
    <3>2. \A s \in Int : start <= s /\ s <= end =>
            PresentationOf(ranges, s) = before + (s - start)
      BY <1>0, <2>5, WithinClip
    <3> DEFINE d == c + 1
    <3>3. d \in Int /\ start <= d /\ d <= end
      BY <2>8, <3>1
    <3> HIDE DEF c, start, end, before
    <3>4. PresentationOf(ranges, c) = before + (c - start)
      BY <2>8, <3>1, <3>2
    <3> HIDE DEF d
    <3>5. PresentationOf(ranges, d) = before + (d - start)
      BY <3>2, <3>3
    <3> QED
      BY <2>6, <2>7, <2>8, <3>4, <3>5 DEF d
  <2>10. before + (c - start) = p /\ before + (c + 1 - start) = p + 1
    BY <2>5, <2>6, <2>7
  <2> HIDE DEF c
  <2> QED
    BY <2>4, <2>6, <2>8, <2>9, <2>10
<1> QED
  BY <1>3, <1>4

-----------------------------------------------------------------------------
(* What is kept                                                             *)

\* What is left of a range lies where it was.
LEMMA PieceWithin ==
  ASSUME NEW from \in Nat, NEW to \in Int
  PROVE  Within(Piece(from, to), from, to)
<1>1. CASE from < to
  <2>1. Clip(from, to) \in Clips /\ Clip(from, to).start = from
        /\ Clip(from, to).end = to
    BY <1>1 DEF Clip, Clips
  <2>2. Piece(from, to) = <<Clip(from, to)>>
    BY <1>1 DEF Piece
  <2> QED
    BY <1>1, <2>1, <2>2 DEF Within
<1>2. CASE ~(from < to)
  <2>1. Piece(from, to) = <<>>
    BY <1>2 DEF Piece
  <2> QED
    BY <2>1 DEF Within
<1> QED
  BY <1>1, <1>2

LEMMA ConcatWithin ==
  ASSUME NEW s, NEW t, NEW a \in Int, NEW b \in Int, NEW c \in Int, NEW d \in Int,
         Within(s, a, b), Within(t, c, d), a <= c, b <= c, b <= d
  PROVE  Within(s \o t, a, d)
<1>1. s \in Seq(Clips) /\ t \in Seq(Clips)
  BY DEF Within
<1>2. \A i \in DOMAIN (s \o t) :
        \/ i \in DOMAIN s /\ (s \o t)[i] = s[i]
        \/ /\ ~(i \in DOMAIN s)
           /\ i - Len(s) \in DOMAIN t /\ (s \o t)[i] = t[i - Len(s)]
  BY <1>1
<1>3. s \o t \in Seq(Clips)
  BY <1>1
<1>4. /\ \A i \in DOMAIN s : /\ s[i].start \in Nat /\ s[i].end \in Nat
                             /\ a <= s[i].start /\ s[i].start < s[i].end
                             /\ s[i].end <= b
      /\ \A i \in DOMAIN t : /\ t[i].start \in Nat /\ t[i].end \in Nat
                             /\ c <= t[i].start /\ t[i].start < t[i].end
                             /\ t[i].end <= d
  BY ClipHas
<1>5. /\ \A i, j \in DOMAIN s : i < j => s[i].end <= s[j].start
      /\ \A i, j \in DOMAIN t : i < j => t[i].end <= t[j].start
  BY DEF Within
<1>6. ASSUME NEW i \in DOMAIN (s \o t)
      PROVE  /\ a <= (s \o t)[i].start
             /\ (s \o t)[i].start < (s \o t)[i].end
             /\ (s \o t)[i].end <= d
  <2>1. CASE i \in DOMAIN s
    BY <1>2, <1>4, <2>1
  <2>2. CASE ~(i \in DOMAIN s)
    <3>1. i - Len(s) \in DOMAIN t /\ (s \o t)[i] = t[i - Len(s)]
      BY <1>2, <2>2
    <3> QED
      BY <1>4, <3>1
  <2> QED
    BY <2>1, <2>2
<1>7. ASSUME NEW i \in DOMAIN (s \o t), NEW j \in DOMAIN (s \o t), i < j
      PROVE  (s \o t)[i].end <= (s \o t)[j].start
  <2>0. i \in Nat /\ j \in Nat /\ Len(s) \in Nat /\ DOMAIN s = 1..Len(s)
        /\ i >= 1 /\ j >= 1
    BY <1>1, <1>3
  <2>1. CASE j \in DOMAIN s
    <3>1. i \in DOMAIN s
      BY <1>7, <2>0, <2>1
    <3> QED
      BY <1>2, <1>5, <1>7, <2>1, <3>1
  <2>2. CASE ~(j \in DOMAIN s)
    <3>1. j - Len(s) \in DOMAIN t /\ (s \o t)[j] = t[j - Len(s)]
      BY <1>2, <2>2
    <3>2. CASE i \in DOMAIN s
      <4>1. (s \o t)[i] = s[i]
        BY <1>2, <3>2, <2>0
      <4> QED
        BY <1>4, <3>1, <3>2, <4>1
    <3>3. CASE ~(i \in DOMAIN s)
      <4>1. i - Len(s) \in DOMAIN t /\ (s \o t)[i] = t[i - Len(s)]
        BY <1>2, <3>3
      <4>2. i - Len(s) < j - Len(s)
        BY <1>7, <2>0
      <4> QED
        BY <1>5, <3>1, <4>1, <4>2
    <3> QED
      BY <3>2, <3>3
  <2> QED
    BY <2>1, <2>2
<1> QED
  BY <1>3, <1>6, <1>7 DEF Within

LEMMA AppendWithin ==
  ASSUME NEW s, NEW clip \in Clips, NEW a \in Int, NEW b \in Int,
         Within(s, a, b), a <= clip.start, b <= clip.start,
         clip.start < clip.end
  PROVE  Within(Append(s, clip), a, clip.end)
<1>1. s \in Seq(Clips) /\ clip.start \in Nat /\ clip.end \in Nat
  BY DEF Within, Clips
<1>2. Within(<<clip>>, clip.start, clip.end)
  BY <1>1 DEF Within
<1>3. Within(s \o <<clip>>, a, clip.end)
  BY <1>1, <1>2, ConcatWithin
<1>4. Append(s, clip) = s \o <<clip>>
  BY <1>1
<1> QED
  BY <1>3, <1>4

\* rippleDelete() and trimTo() leave of a range what lies in it.
LEMMA AroundWithin ==
  ASSUME NEW clip \in Clips, clip.start < clip.end,
         NEW remove \in Clips, remove.start < remove.end
  PROVE  Within(Around(clip, remove), clip.start, clip.end)
<1>1. /\ clip.start \in Nat /\ clip.end \in Nat
      /\ remove.start \in Nat /\ remove.end \in Nat
  BY DEF Clips
<1>2. CASE remove.end <= clip.start \/ remove.start >= clip.end
  <2>1. Around(clip, remove) = <<clip>>
    BY <1>2 DEF Around
  <2> QED
    BY <1>1, <2>1 DEF Within
<1>3. CASE ~(remove.end <= clip.start \/ remove.start >= clip.end)
  <2> DEFINE to == Min({remove.start, clip.end})
             from == Max({remove.end, clip.start})
  <2>1. to = remove.start /\ from = remove.end
    BY <1>1, <1>3, MinOfTwo, MaxOfTwo
  <2>2. Within(Piece(clip.start, to), clip.start, to)
        /\ Within(Piece(from, clip.end), from, clip.end)
    BY <1>1, <2>1, PieceWithin
  <2>3. Around(clip, remove) = Piece(clip.start, to) \o Piece(from, clip.end)
    BY <1>3 DEF Around
  <2> HIDE DEF to, from
  <2> QED
    BY <1>1, <1>3, <2>1, <2>2, <2>3, ConcatWithin
<1> QED
  BY <1>2, <1>3

LEMMA WidenWithin ==
  ASSUME NEW s, NEW a \in Int, NEW b \in Int, Within(s, a, b),
         NEW c \in Int, NEW d \in Int, c <= a, b <= d
  PROVE  Within(s, c, d)
<1>1. \A i \in DOMAIN s : c <= s[i].start /\ s[i].end <= d
  BY ClipHas
<1> QED
  BY <1>1 DEF Within

LEMMA CutWithin ==
  ASSUME NEW clip \in Clips, clip.start < clip.end, NEW keep \in Clips
  PROVE  Within(Piece(Max({clip.start, keep.start}), Min({clip.end, keep.end})),
                clip.start, clip.end)
<1>1. /\ clip.start \in Nat /\ clip.end \in Nat
      /\ keep.start \in Nat /\ keep.end \in Nat
  BY DEF Clips
<1> DEFINE from == Max({clip.start, keep.start})
           to == Min({clip.end, keep.end})
<1>2. from \in Nat /\ clip.start <= from /\ to \in Nat /\ to <= clip.end
  BY <1>1, MinOfTwo, MaxOfTwo
<1>3. Within(Piece(from, to), from, to)
  BY <1>2, PieceWithin
<1> HIDE DEF from, to
<1>4. Within(Piece(from, to), clip.start, clip.end)
  BY <1>1, <1>2, <1>3, WidenWithin
<1> QED
  BY <1>4 DEF from, to

\* FlattenSeq() puts the parts one behind the other.
LEMMA FlattenIs ==
  ASSUME NEW parts \in Seq(Seq(Clips)), parts # <<>>
  PROVE  \E f :
           /\ FlattenSeq(parts) = f[Len(parts)]
           /\ \A i \in 1..Len(parts) :
                f[i] = IF i = 1 THEN parts[i] ELSE f[i - 1] \o parts[i]
<1> DEFINE n == Len(parts)
           Is(f) == f = [i \in 1..n |-> IF i = 1 THEN parts[i]
                                        ELSE f[i - 1] \o parts[i]]
<1>1. n \in Nat /\ n # 0
  OBVIOUS
<1>2. \E f : Is(f)
  <2> DEFINE Upto(f, m) == f = [i \in 1..m |-> IF i = 1 THEN parts[i]
                                               ELSE f[i - 1] \o parts[i]]
             T == {m \in Nat : \E f : Upto(f, m)}
  <2>1. 0 \in T
    <3> DEFINE f == [i \in 1..0 |-> 0]
    <3>1. Upto(f, 0)
      OBVIOUS
    <3> HIDE DEF Upto
    <3> QED
      BY <3>1
  <2>2. ASSUME NEW m \in Nat, m \in T PROVE m + 1 \in T
    <3>1. PICK f : Upto(f, m)
      BY <2>2
    <3> DEFINE g == [i \in 1..(m + 1) |->
                       IF i = m + 1
                       THEN IF i = 1 THEN parts[i] ELSE f[m] \o parts[i]
                       ELSE f[i]]
    <3>2. \A i \in 1..m : f[i] = IF i = 1 THEN parts[i] ELSE f[i - 1] \o parts[i]
      BY <3>1
    <3>3. \A i \in 1..(m + 1) :
            g[i] = IF i = 1 THEN parts[i] ELSE g[i - 1] \o parts[i]
      BY <3>2
    <3>4. Upto(g, m + 1)
      BY <3>3
    <3> HIDE DEF Upto, g
    <3> QED
      BY <3>4
  <2>3. n \in T
    <3> HIDE DEF T, n
    <3> QED
      BY <1>1, <2>1, <2>2, Induction
  <2> HIDE DEF n
  <2> QED
    BY <2>3
<1> DEFINE f == CHOOSE it : Is(it)
<1>3. Is(f)
  <2> HIDE DEF Is
  <2> QED
    BY <1>2
<1>4. FlattenSeq(parts) = f[n]
  BY <1>1 DEF FlattenSeq
<1>5. \A i \in 1..n : f[i] = IF i = 1 THEN parts[i] ELSE f[i - 1] \o parts[i]
  <2> HIDE DEF f
  <2> QED
    BY <1>3
<1> QED
  BY <1>4, <1>5

\* Parts of ranges, one range behind the other, are as well ordered as those.
LEMMA FlattenWithin ==
  ASSUME NEW ranges, NEW b \in Int, Within(ranges, 0, b), ranges # <<>>,
         NEW parts, DOMAIN parts = DOMAIN ranges, parts \in Seq(Seq(Clips)),
         \A i \in DOMAIN ranges :
           Within(parts[i], ranges[i].start, ranges[i].end)
  PROVE  Within(FlattenSeq(parts), 0, b)
<1> DEFINE n == Len(ranges)
<1>1. n \in Nat /\ n # 0 /\ DOMAIN ranges = 1..n /\ Len(parts) = n
  BY DEF Within
<1>2. PICK f : /\ FlattenSeq(parts) = f[n]
               /\ \A i \in 1..n :
                    f[i] = IF i = 1 THEN parts[i] ELSE f[i - 1] \o parts[i]
  <2>1. parts # <<>>
    BY <1>1
  <2> HIDE DEF n
  <2> QED
    BY <1>1, <2>1, FlattenIs
<1> DEFINE T == {i \in Nat : i \in 1..n => Within(f[i], 0, ranges[i].end)}
<1> HIDE DEF n
<1>6. 0 \in T
  OBVIOUS
<1>7. ASSUME NEW i \in Nat, i \in T PROVE i + 1 \in T
  <2> SUFFICES ASSUME i + 1 <= n PROVE Within(f[i + 1], 0, ranges[i + 1].end)
    OBVIOUS
  <2> DEFINE j == i + 1
  <2>0. j \in DOMAIN ranges /\ j \in Nat /\ j \in 1..n
    BY <1>1
  <2>1. /\ ranges[j].start \in Nat /\ ranges[j].end \in Nat
        /\ ranges[j].start < ranges[j].end
        /\ Within(parts[j], ranges[j].start, ranges[j].end)
    BY <2>0, ClipHas
  <2>2. CASE i = 0
    <3>1. f[j] = parts[j]
      BY <1>2, <2>0, <2>2
    <3> HIDE DEF j
    <3>2. Within(parts[j], 0, ranges[j].end)
      BY <2>1, WidenWithin
    <3> QED
      BY <3>1, <3>2 DEF j
  <2>3. CASE i # 0
    <3>1. i \in DOMAIN ranges /\ j # 1 /\ j - 1 = i /\ i < j /\ i \in 1..n
      BY <1>1, <2>3
    <3>2. f[j] = f[i] \o parts[j] /\ Within(f[i], 0, ranges[i].end)
      <4>1. f[j] = f[j - 1] \o parts[j]
        BY <1>2, <2>0, <3>1
      <4> QED
        BY <1>7, <3>1, <4>1
    <3>3. ranges[i].end \in Nat
      BY <3>1, ClipHas
    <3>4. ranges[i].end <= ranges[j].start
      BY <2>0, <3>1 DEF Within
    <3> HIDE DEF j
    <3>5. Within(f[i] \o parts[j], 0, ranges[j].end)
      BY <2>1, <3>2, <3>3, <3>4, ConcatWithin, SMTT(20)
    <3> QED
      BY <3>2, <3>5 DEF j
  <2> QED
    BY <2>2, <2>3
<1>8. n \in T
  <2> HIDE DEF T
  <2> QED
    BY <1>1, <1>6, <1>7, Induction
<1>9. Within(f[n], 0, ranges[n].end) /\ ranges[n].end \in Int /\ ranges[n].end <= b
  BY <1>1, <1>8, ClipHas
<1>10. Within(f[n], 0, b)
  BY <1>9, WidenWithin
<1> QED
  BY <1>2, <1>10

\* The units of what stands one behind the other.
LEMMA ConcatUnits ==
  ASSUME NEW s \in Seq(Clips), NEW t \in Seq(Clips)
  PROVE  UnitsOf(s \o t) = UnitsOf(s) \cup UnitsOf(t)
<1> DEFINE all == s \o t
           Has(clip, u) == clip.start <= u /\ u < clip.end
<1>1. /\ \A i \in DOMAIN s : i \in DOMAIN all /\ all[i] = s[i]
      /\ \A i \in DOMAIN t : i + Len(s) \in DOMAIN all /\ all[i + Len(s)] = t[i]
      /\ \A i \in DOMAIN all : \/ i \in DOMAIN s /\ all[i] = s[i]
                               \/ i - Len(s) \in DOMAIN t /\ all[i] = t[i - Len(s)]
  OBVIOUS
<1> HIDE DEF all
<1>2. \A u : (\E i \in DOMAIN all : Has(all[i], u)) <=>
              \/ \E i \in DOMAIN s : Has(s[i], u)
              \/ \E i \in DOMAIN t : Has(t[i], u)
  <2> HIDE DEF Has
  <2>1. ASSUME NEW u, NEW i \in DOMAIN all, Has(all[i], u)
        PROVE  \/ \E j \in DOMAIN s : Has(s[j], u)
               \/ \E j \in DOMAIN t : Has(t[j], u)
    BY <1>1, <2>1
  <2>2. ASSUME NEW u, NEW i \in DOMAIN s, Has(s[i], u)
        PROVE  \E j \in DOMAIN all : Has(all[j], u)
    BY <1>1, <2>2
  <2>3. ASSUME NEW u, NEW i \in DOMAIN t, Has(t[i], u)
        PROVE  \E j \in DOMAIN all : Has(all[j], u)
    BY <1>1, <2>3
  <2> QED
    BY <2>1, <2>2, <2>3
<1>3. \A clips : UnitsOf(clips) = {u \in Nat : \E i \in DOMAIN clips : Has(clips[i], u)}
  BY DEF UnitsOf
<1>4. UnitsOf(all) = UnitsOf(s) \cup UnitsOf(t)
  <2> HIDE DEF Has
  <2> QED
    BY <1>2, <1>3
<1> QED
  BY <1>4 DEF all

LEMMA FlattenUnits ==
  ASSUME NEW parts \in Seq(Seq(Clips)), parts # <<>>
  PROVE  UnitsOf(FlattenSeq(parts)) =
           {u \in Nat : \E i \in DOMAIN parts : u \in UnitsOf(parts[i])}
<1> DEFINE n == Len(parts)
<1>1. n \in Nat /\ n # 0 /\ DOMAIN parts = 1..n
      /\ \A i \in 1..n : parts[i] \in Seq(Clips)
  OBVIOUS
<1>2. PICK f : /\ FlattenSeq(parts) = f[n]
               /\ \A i \in 1..n :
                    f[i] = IF i = 1 THEN parts[i] ELSE f[i - 1] \o parts[i]
  BY FlattenIs
<1> DEFINE Upto(m) == {u \in Nat : \E i \in 1..m : u \in UnitsOf(parts[i])}
           T == {m \in Nat : m \in 1..n =>
                   f[m] \in Seq(Clips) /\ UnitsOf(f[m]) = Upto(m)}
<1> HIDE DEF n
<1>3. 0 \in T
  OBVIOUS
<1>4. ASSUME NEW m \in Nat, m \in T PROVE m + 1 \in T
  <2> SUFFICES ASSUME m + 1 <= n
               PROVE  f[m + 1] \in Seq(Clips) /\ UnitsOf(f[m + 1]) = Upto(m + 1)
    OBVIOUS
  <2>1. m + 1 \in 1..n /\ parts[m + 1] \in Seq(Clips)
    BY <1>1
  <2>2. \A i : i \in 1..(m + 1) <=> i = m + 1 \/ i \in 1..m
    OBVIOUS
  <2>3. Upto(m + 1) = Upto(m) \cup UnitsOf(parts[m + 1])
    <3>1. UnitsOf(parts[m + 1]) \subseteq Nat
      BY DEF UnitsOf
    <3> QED
      BY <2>2, <3>1
  <2>4. CASE m = 0
    <3>1. f[m + 1] = parts[m + 1]
      BY <1>2, <2>1, <2>4
    <3>2. Upto(m) = {}
      BY <2>4
    <3> HIDE DEF Upto
    <3> QED
      BY <2>1, <2>3, <3>1, <3>2
  <2>5. CASE m # 0
    <3>1. m \in 1..n /\ m + 1 # 1 /\ (m + 1) - 1 = m
      BY <1>1, <2>1, <2>5
    <3>2. f[m + 1] = f[m] \o parts[m + 1]
      BY <1>2, <2>1, <3>1
    <3>3. f[m] \in Seq(Clips) /\ UnitsOf(f[m]) = Upto(m)
      BY <1>4, <3>1
    <3> HIDE DEF Upto
    <3>4. UnitsOf(f[m] \o parts[m + 1]) = UnitsOf(f[m]) \cup UnitsOf(parts[m + 1])
      BY <2>1, <3>3, ConcatUnits
    <3>5. f[m] \o parts[m + 1] \in Seq(Clips)
      BY <2>1, <3>3
    <3> QED
      BY <2>3, <3>2, <3>3, <3>4, <3>5
  <2> QED
    BY <2>4, <2>5
<1>5. n \in T
  <2> HIDE DEF T
  <2> QED
    BY <1>1, <1>3, <1>4, Induction
<1>6. UnitsOf(f[n]) = Upto(n)
  BY <1>1, <1>5
<1> QED
  BY <1>1, <1>2, <1>6

\* What is left of a range: the units between its ends.
LEMMA PieceUnits ==
  ASSUME NEW from \in Nat, NEW to \in Int
  PROVE  UnitsOf(Piece(from, to)) = from..(to - 1)
<1>1. CASE from < to
  <2>1. Piece(from, to) = <<Clip(from, to)>>
    BY <1>1 DEF Piece
  <2>2. Clip(from, to).start = from /\ Clip(from, to).end = to
    BY DEF Clip
  <2>3. UnitsOf(<<Clip(from, to)>>) = {u \in Nat : from <= u /\ u < to}
    BY <2>2 DEF UnitsOf
  <2>4. {u \in Nat : from <= u /\ u < to} = from..(to - 1)
    OBVIOUS
  <2> QED
    BY <2>1, <2>3, <2>4
<1>2. CASE ~(from < to)
  <2>1. Piece(from, to) = <<>> /\ from..(to - 1) = {}
    BY <1>2 DEF Piece
  <2> QED
    BY <2>1 DEF UnitsOf
<1> QED
  BY <1>1, <1>2

LEMMA AroundUnits ==
  ASSUME NEW clip \in Clips, clip.start < clip.end,
         NEW remove \in Clips, remove.start < remove.end
  PROVE  UnitsOf(Around(clip, remove)) =
           (clip.start..(clip.end - 1)) \ (remove.start..(remove.end - 1))
<1>1. /\ clip.start \in Nat /\ clip.end \in Nat
      /\ remove.start \in Nat /\ remove.end \in Nat
  BY DEF Clips
<1>2. CASE remove.end <= clip.start \/ remove.start >= clip.end
  <2>1. Around(clip, remove) = <<clip>>
    BY <1>2 DEF Around
  <2>2. UnitsOf(<<clip>>) = {u \in Nat : clip.start <= u /\ u < clip.end}
    BY DEF UnitsOf
  <2>3. {u \in Nat : clip.start <= u /\ u < clip.end} =
          (clip.start..(clip.end - 1)) \ (remove.start..(remove.end - 1))
    BY <1>1, <1>2
  <2> QED
    BY <2>1, <2>2, <2>3
<1>3. CASE ~(remove.end <= clip.start \/ remove.start >= clip.end)
  <2> DEFINE to == Min({remove.start, clip.end})
             from == Max({remove.end, clip.start})
  <2>1. to = remove.start /\ from = remove.end /\ to \in Nat /\ from \in Nat
    BY <1>1, <1>3, MinOfTwo, MaxOfTwo
  <2> HIDE DEF to, from
  <2>0. clip.start \in Nat /\ clip.end \in Int /\ to \in Int
    BY <1>1, <2>1
  <2>2. /\ UnitsOf(Piece(clip.start, to)) = clip.start..(to - 1)
        /\ UnitsOf(Piece(from, clip.end)) = from..(clip.end - 1)
    <3>1. UnitsOf(Piece(clip.start, to)) = clip.start..(to - 1)
      BY <2>0, PieceUnits
    <3>2. UnitsOf(Piece(from, clip.end)) = from..(clip.end - 1)
      BY <2>0, <2>1, PieceUnits
    <3> QED
      BY <3>1, <3>2
  <2>3. Around(clip, remove) = Piece(clip.start, to) \o Piece(from, clip.end)
    BY <1>3 DEF Around, to, from
  <2>4. Piece(clip.start, to) \in Seq(Clips) /\ Piece(from, clip.end) \in Seq(Clips)
    <3>1. Within(Piece(clip.start, to), clip.start, to)
      BY <2>0, PieceWithin
    <3>2. Within(Piece(from, clip.end), from, clip.end)
      BY <2>0, <2>1, PieceWithin
    <3> QED
      BY <3>1, <3>2 DEF Within
  <2>5. UnitsOf(Around(clip, remove)) =
          (clip.start..(remove.start - 1)) \cup (remove.end..(clip.end - 1))
    BY <2>1, <2>2, <2>3, <2>4, ConcatUnits
  <2>6. (clip.start..(remove.start - 1)) \cup (remove.end..(clip.end - 1)) =
          (clip.start..(clip.end - 1)) \ (remove.start..(remove.end - 1))
    BY <1>1, <1>3
  <2> QED
    BY <2>5, <2>6
<1> QED
  BY <1>2, <1>3

LEMMA CutUnits ==
  ASSUME NEW clip \in Clips, clip.start < clip.end, NEW keep \in Clips
  PROVE  UnitsOf(Piece(Max({clip.start, keep.start}), Min({clip.end, keep.end}))) =
           (clip.start..(clip.end - 1)) \cap (keep.start..(keep.end - 1))
<1>1. /\ clip.start \in Nat /\ clip.end \in Nat
      /\ keep.start \in Nat /\ keep.end \in Nat
  BY DEF Clips
<1> DEFINE from == Max({clip.start, keep.start})
           to == Min({clip.end, keep.end})
<1>2. /\ from = IF clip.start >= keep.start THEN clip.start ELSE keep.start
      /\ to = IF clip.end <= keep.end THEN clip.end ELSE keep.end
  BY <1>1, MinOfTwo, MaxOfTwo
<1> HIDE DEF from, to
<1>3. UnitsOf(Piece(from, to)) = from..(to - 1)
  <2>1. from \in Nat /\ to \in Int
    BY <1>1, <1>2
  <2> QED
    BY <2>1, PieceUnits
<1>4. from..(to - 1) =
        (clip.start..(clip.end - 1)) \cap (keep.start..(keep.end - 1))
  BY <1>1, <1>2
<1> QED
  BY <1>3, <1>4 DEF from, to

\* What Merged does with one clip more.
AddMerged(done, clip) ==
  IF done # <<>> /\ clip.start <= Last(done).end
  THEN Append(Front(done),
              Clip(Last(done).start, Max({Last(done).end, clip.end})))
  ELSE Append(done, clip)

LEMMA AddWithin ==
  ASSUME NEW done, NEW b \in Int, Within(done, 0, b),
         NEW clip \in Clips, b <= clip.start, clip.start < clip.end
  PROVE  /\ Within(AddMerged(done, clip), 0, clip.end)
         /\ AddMerged(done, clip) # <<>>
<1>0. clip.start \in Nat /\ clip.end \in Nat /\ done \in Seq(Clips)
  BY DEF Clips, Within
<1>1. CASE done # <<>> /\ clip.start <= Last(done).end
  <2> DEFINE n == Len(done)
             last == done[n]
             front == SubSeq(done, 1, n - 1)
             new == Clip(last.start, clip.end)
  <2>1. n \in Nat \ {0} /\ n \in DOMAIN done /\ DOMAIN done = 1..n
    BY <1>0, <1>1
  <2>2. /\ last.start \in Nat /\ last.end \in Nat /\ last.start < last.end
        /\ last.end <= b
    BY <2>1, ClipHas
  <2>3. Max({last.end, clip.end}) = clip.end
    BY <1>0, <2>2, MaxOfTwo
  <2>4. AddMerged(done, clip) = Append(front, new)
    BY <1>1, <2>3 DEF AddMerged, Last, Front
  <2>5. /\ front \in Seq(Clips) /\ DOMAIN front = 1..(n - 1)
        /\ \A i \in DOMAIN front : front[i] = done[i] /\ i \in DOMAIN done /\ i < n
    BY <1>0, <2>1
  <2>6. Within(front, 0, last.start)
    <3>1. \A i \in DOMAIN front : /\ 0 <= front[i].start
                                  /\ front[i].start < front[i].end
                                  /\ front[i].end <= last.start
      BY <2>1, <2>5 DEF Within
    <3>2. \A i, j \in DOMAIN front : i < j => front[i].end <= front[j].start
      BY <2>5 DEF Within
    <3> QED
      BY <2>5, <3>1, <3>2 DEF Within
  <2>7. /\ new \in Clips /\ new.start = last.start /\ new.end = clip.end
        /\ last.start < clip.end
    BY <1>0, <2>2 DEF Clip, Clips
  <2> HIDE DEF new, front, last
  <2>8. Within(Append(front, new), 0, new.end)
    BY <2>2, <2>6, <2>7, AppendWithin
  <2>9. Append(front, new) # <<>>
    BY <2>5
  <2> QED
    BY <2>4, <2>7, <2>8, <2>9
<1>2. CASE ~(done # <<>> /\ clip.start <= Last(done).end)
  <2>1. AddMerged(done, clip) = Append(done, clip)
    BY <1>2 DEF AddMerged
  <2> QED
    BY <1>0, <2>1, AppendWithin
<1> QED
  BY <1>1, <1>2

\* Either the clip touches the last one, which then reaches to its end, or it
\* is a clip of its own.
LEMMA AddIs ==
  ASSUME NEW done, NEW b \in Int, Within(done, 0, b),
         NEW clip \in Clips, b <= clip.start, clip.start < clip.end
  PROVE  LET n == Len(done)
             new == AddMerged(done, clip)
         IN  \/ /\ n > 0 /\ clip.start = done[n].end
                /\ DOMAIN new = 1..n /\ \A i \in 1..(n - 1) : new[i] = done[i]
                /\ new[n].start = done[n].start /\ new[n].end = clip.end
             \/ /\ n > 0 => done[n].end < clip.start
                /\ DOMAIN new = 1..(n + 1) /\ \A i \in 1..n : new[i] = done[i]
                /\ new[n + 1] = clip
<1> DEFINE n == Len(done)
<1>0. clip.start \in Nat /\ clip.end \in Nat /\ done \in Seq(Clips) /\ n \in Nat
      /\ DOMAIN done = 1..n
  BY DEF Clips, Within
<1>1. CASE done # <<>> /\ clip.start <= Last(done).end
  <2> DEFINE last == done[n]
             front == SubSeq(done, 1, n - 1)
             wide == Clip(last.start, clip.end)
  <2>1. n \in Nat \ {0} /\ n \in DOMAIN done
    BY <1>0, <1>1
  <2>2. /\ last.start \in Nat /\ last.end \in Nat /\ last.start < last.end
        /\ last.end <= b
    BY <2>1, ClipHas
  <2>3. Max({last.end, clip.end}) = clip.end /\ clip.start = last.end
    BY <1>0, <1>1, <2>2, MaxOfTwo DEF Last
  <2>4. AddMerged(done, clip) = Append(front, wide)
    BY <1>1, <2>3 DEF AddMerged, Last, Front
  <2>5. /\ front \in Seq(Clips) /\ DOMAIN front = 1..(n - 1) /\ Len(front) = n - 1
        /\ \A i \in 1..(n - 1) : front[i] = done[i]
    BY <1>0, <2>1
  <2>6. wide.start = last.start /\ wide.end = clip.end
    BY DEF Clip
  <2> DEFINE new == Append(front, wide)
  <2>7. DOMAIN new = 1..n /\ new[n] = wide /\ \A i \in 1..(n - 1) : new[i] = front[i]
    <3> HIDE DEF wide, front
    <3> QED
      BY <2>1, <2>5
  <2> HIDE DEF new, wide, front
  <2> QED
    BY <2>1, <2>3, <2>4, <2>5, <2>6, <2>7 DEF new
<1>2. CASE ~(done # <<>> /\ clip.start <= Last(done).end)
  <2>1. AddMerged(done, clip) = Append(done, clip)
    BY <1>2 DEF AddMerged
  <2>2. n > 0 => done[n].end < clip.start
    <3>1. n > 0 => done # <<>> /\ n \in DOMAIN done
      BY <1>0
    <3>2. n > 0 => done[n].end \in Nat
      BY <3>1, ClipHas
    <3> QED
      BY <1>0, <1>2, <3>1, <3>2 DEF Last
  <2>3. /\ DOMAIN Append(done, clip) = 1..(n + 1)
        /\ \A i \in 1..n : Append(done, clip)[i] = done[i]
        /\ Append(done, clip)[n + 1] = clip
    BY <1>0
  <2> HIDE DEF n
  <2> QED
    BY <2>1, <2>2, <2>3 DEF n
<1> QED
  BY <1>1, <1>2

\* So the clip's units are added and no others, and the clips stay parted.
LEMMA AddUnits ==
  ASSUME NEW done, NEW b \in Int, Within(done, 0, b), Parted(done),
         NEW clip \in Clips, b <= clip.start, clip.start < clip.end
  PROVE  /\ Parted(AddMerged(done, clip))
         /\ UnitsOf(AddMerged(done, clip)) =
              UnitsOf(done) \cup clip.start..(clip.end - 1)
<1> DEFINE n == Len(done)
           new == AddMerged(done, clip)
<1>0. clip.start \in Nat /\ clip.end \in Nat /\ n \in Nat /\ DOMAIN done = 1..n
  BY DEF Clips, Within
<1>1. \A i \in 1..n : /\ done[i].start \in Nat /\ done[i].end \in Nat
                      /\ done[i].start < done[i].end
                      /\ i < n => done[i].end < done[n].start
  BY <1>0, ClipHas DEF Parted
<1>2. \A u : u \in UnitsOf(done) <=>
        u \in Nat /\ \E i \in 1..n : done[i].start <= u /\ u < done[i].end
  BY <1>0 DEF UnitsOf
<1>3. CASE /\ n > 0 /\ clip.start = done[n].end
           /\ DOMAIN new = 1..n /\ \A i \in 1..(n - 1) : new[i] = done[i]
           /\ new[n].start = done[n].start /\ new[n].end = clip.end
  <2> HIDE DEF n, new
  <2>1. Parted(new)
    <3> SUFFICES ASSUME NEW i \in 1..n, NEW j \in 1..n, i < j
                 PROVE  new[i].end < new[j].start
      BY <1>3 DEF Parted
    <3>1. i \in 1..(n - 1) /\ new[i].end = done[i].end
      BY <1>0, <1>3
    <3>2. done[i].end < done[j].start
      BY <1>0 DEF Parted
    <3>3. new[j].start = done[j].start
      BY <1>0, <1>3
    <3> QED
      BY <3>1, <3>2, <3>3
  <2>2. ASSUME NEW u \in Nat
        PROVE  (\E i \in 1..n : new[i].start <= u /\ u < new[i].end) <=>
                 \/ \E i \in 1..n : done[i].start <= u /\ u < done[i].end
                 \/ u \in clip.start..(clip.end - 1)
    <3>1. ASSUME NEW i \in 1..n, i # n
          PROVE  new[i] = done[i]
      BY <1>0, <1>3, <3>1
    <3>2. (new[n].start <= u /\ u < new[n].end) <=>
            \/ done[n].start <= u /\ u < done[n].end
            \/ u \in clip.start..(clip.end - 1)
      BY <1>0, <1>1, <1>3
    <3>3. n \in 1..n
      BY <1>0, <1>3
    <3> QED
      BY <3>1, <3>2, <3>3
  <2>3. UnitsOf(new) = UnitsOf(done) \cup clip.start..(clip.end - 1)
    <3>1. \A u : u \in UnitsOf(new) <=>
            u \in Nat /\ \E i \in 1..n : new[i].start <= u /\ u < new[i].end
      BY <1>3 DEF UnitsOf
    <3>2. \A u \in clip.start..(clip.end - 1) : u \in Nat
      BY <1>0
    <3> QED
      BY <1>2, <2>2, <3>1, <3>2
  <2> QED
    BY <2>1, <2>3 DEF new
<1>4. CASE /\ n > 0 => done[n].end < clip.start
           /\ DOMAIN new = 1..(n + 1) /\ \A i \in 1..n : new[i] = done[i]
           /\ new[n + 1] = clip
  <2> HIDE DEF n, new
  <2>1. Parted(new)
    <3> SUFFICES ASSUME NEW i \in 1..(n + 1), NEW j \in 1..(n + 1), i < j
                 PROVE  new[i].end < new[j].start
      BY <1>4 DEF Parted
    <3>1. i \in 1..n /\ new[i].end = done[i].end
      BY <1>0, <1>4
    <3>2. CASE j \in 1..n
      BY <1>0, <1>4, <3>1, <3>2 DEF Parted
    <3>3. CASE j = n + 1
      <4>1. new[j].start = clip.start
        BY <1>4, <3>3
      <4>2. done[i].end <= done[n].end /\ done[n].end < clip.start
        <5>1. n \in 1..n /\ n > 0
          BY <1>0, <3>1
        <5>2. done[n].end < clip.start
          BY <1>4, <5>1
        <5>3. CASE i = n
          BY <1>1, <5>1, <5>2, <5>3
        <5>4. CASE i # n
          <6>1. i < n
            BY <3>1, <5>1, <5>4
          <6>2. done[i].end < done[n].start /\ done[n].start < done[n].end
            BY <1>1, <3>1, <5>1, <6>1
          <6>3. done[i].end \in Nat /\ done[n].start \in Nat /\ done[n].end \in Nat
            BY <1>1, <3>1, <5>1
          <6> QED
            BY <5>2, <6>2, <6>3
        <5> QED
          BY <5>3, <5>4
      <4> QED
        BY <1>0, <1>1, <3>1, <4>1, <4>2
    <3> QED
      BY <1>0, <3>2, <3>3
  <2>2. ASSUME NEW u \in Nat
        PROVE  (\E i \in 1..(n + 1) : new[i].start <= u /\ u < new[i].end) <=>
                 \/ \E i \in 1..n : done[i].start <= u /\ u < done[i].end
                 \/ u \in clip.start..(clip.end - 1)
    <3>1. \A i \in 1..(n + 1) : i = n + 1 \/ i \in 1..n
      BY <1>0
    <3>2. n + 1 \in 1..(n + 1) /\ 1..n \subseteq 1..(n + 1)
      BY <1>0
    <3>3. (clip.start <= u /\ u < clip.end) <=> u \in clip.start..(clip.end - 1)
      BY <1>0
    <3> QED
      BY <1>4, <3>1, <3>2, <3>3
  <2>3. UnitsOf(new) = UnitsOf(done) \cup clip.start..(clip.end - 1)
    <3>1. \A u : u \in UnitsOf(new) <=>
            u \in Nat /\ \E i \in 1..(n + 1) : new[i].start <= u /\ u < new[i].end
      BY <1>4 DEF UnitsOf
    <3>2. \A u \in clip.start..(clip.end - 1) : u \in Nat
      BY <1>0
    <3> QED
      BY <1>2, <2>2, <3>1, <3>2
  <2> QED
    BY <2>1, <2>3 DEF new
<1> QED
  BY <1>3, <1>4, AddIs

\* FoldLeft() takes the clips in their order.
LEMMA MergedIs ==
  ASSUME NEW ranges \in Seq(Clips)
  PROVE  \E f :
           /\ f[0] = <<>>
           /\ \A i \in 1..Len(ranges) : f[i] = AddMerged(f[i - 1], ranges[i])
           /\ Merged(ranges) = f[Len(ranges)]
<1> DEFINE n == Len(ranges)
           Step(f, S) == IF S = {} THEN <<>>
                         ELSE AddMerged(f[S \ {Max(S)}], ranges[Max(S)])
           Upto(f, m) == f = [S \in SUBSET (1..m) |-> Step(f, S)]
<1>1. n \in Nat /\ DOMAIN ranges = 1..n
  OBVIOUS
<1>2. \A m \in Nat : \A S \in SUBSET (1..(m + 1)) :
        /\ m + 1 \in S => Max(S) = m + 1 /\ S \ {m + 1} \in SUBSET (1..m)
        /\ m + 1 \notin S => S \in SUBSET (1..m)
  <2> SUFFICES ASSUME NEW m \in Nat, NEW S \in SUBSET (1..(m + 1))
               PROVE  /\ m + 1 \in S => Max(S) = m + 1 /\ S \ {m + 1} \in SUBSET (1..m)
                      /\ m + 1 \notin S => S \in SUBSET (1..m)
    OBVIOUS
  <2>1. \A x \in S : x \in Nat /\ x <= m + 1 /\ x >= 1
    OBVIOUS
  <2>2. ASSUME m + 1 \in S PROVE Max(S) = m + 1
    <3> DEFINE IsMax(x) == x \in S /\ \A y \in S : x >= y
    <3>1. IsMax(m + 1)
      BY <2>1, <2>2
    <3>2. \A x : IsMax(x) => x = m + 1
      BY <2>1, <2>2
    <3>3. Max(S) = CHOOSE x : IsMax(x)
      BY DEF Max
    <3> HIDE DEF IsMax
    <3> QED
      BY <3>1, <3>2, <3>3
  <2>3. \A x \in S : x # m + 1 => x \in 1..m
    BY <2>1
  <2> QED
    BY <2>2, <2>3
<1>3. \E f : Upto(f, n)
  <2> DEFINE T == {m \in Nat : \E f : Upto(f, m)}
  <2>1. 0 \in T
    <3> DEFINE f == [S \in SUBSET (1..0) |-> <<>>]
    <3>1. \A S \in SUBSET (1..0) : S = {}
      OBVIOUS
    <3>2. \A S \in SUBSET (1..0) : f[S] = Step(f, S)
      BY <3>1
    <3>3. f = [S \in SUBSET (1..0) |-> f[S]]
      OBVIOUS
    <3> HIDE DEF Step, f
    <3>4. Upto(f, 0)
      BY <3>2, <3>3
    <3> HIDE DEF Upto
    <3> QED
      BY <3>4
  <2>2. ASSUME NEW m \in Nat, m \in T PROVE m + 1 \in T
    <3>1. PICK f : Upto(f, m)
      BY <2>2
    <3> DEFINE g == [S \in SUBSET (1..(m + 1)) |->
                       IF m + 1 \in S
                       THEN AddMerged(f[S \ {m + 1}], ranges[m + 1])
                       ELSE f[S]]
    <3>2. \A S \in SUBSET (1..m) : f[S] = Step(f, S)
      <4> HIDE DEF Step
      <4> QED
        BY <3>1
    <3>3. \A S \in SUBSET (1..m) :
            /\ S \in SUBSET (1..(m + 1)) /\ m + 1 \notin S /\ g[S] = f[S]
            /\ S \ {Max(S)} \in SUBSET (1..m)
      <4> SUFFICES ASSUME NEW S \in SUBSET (1..m)
                   PROVE  /\ S \in SUBSET (1..(m + 1)) /\ m + 1 \notin S
                          /\ g[S] = f[S] /\ S \ {Max(S)} \in SUBSET (1..m)
        OBVIOUS
      <4>1. m + 1 \notin 1..m /\ 1..m \subseteq 1..(m + 1)
        OBVIOUS
      <4>2. S \in SUBSET (1..(m + 1)) /\ m + 1 \notin S
        BY <4>1
      <4> QED
        BY <4>2
    <3>4. ASSUME NEW S \in SUBSET (1..(m + 1))
          PROVE  g[S] = Step(g, S)
      <4>1. CASE m + 1 \in S
        <5>1. Max(S) = m + 1 /\ S \ {m + 1} \in SUBSET (1..m) /\ S # {}
          BY <1>2, <4>1
        <5>2. g[S] = AddMerged(f[S \ {m + 1}], ranges[m + 1])
          BY <4>1
        <5>3. g[S \ {m + 1}] = f[S \ {m + 1}]
          BY <3>3, <5>1
        <5> HIDE DEF g
        <5> QED
          BY <5>1, <5>2, <5>3
      <4>2. CASE m + 1 \notin S
        <5>1. S \in SUBSET (1..m)
          BY <1>2, <4>2
        <5>2. g[S] = Step(f, S) /\ g[S \ {Max(S)}] = f[S \ {Max(S)}]
          BY <3>2, <3>3, <5>1
        <5> HIDE DEF g
        <5> QED
          BY <5>2
      <4> QED
        BY <4>1, <4>2
    <3>5. g = [S \in SUBSET (1..(m + 1)) |-> g[S]]
      OBVIOUS
    <3> HIDE DEF Step, g
    <3>6. Upto(g, m + 1)
      BY <3>4, <3>5
    <3> HIDE DEF Upto
    <3> QED
      BY <3>6
  <2>3. n \in T
    <3> HIDE DEF T, n
    <3> QED
      BY <1>1, <2>1, <2>2, Induction
  <2> HIDE DEF n, Upto
  <2> QED
    BY <2>3
<1> DEFINE f == CHOOSE it : it = [S \in SUBSET DOMAIN ranges |-> Step(it, S)]
<1>4. Merged(ranges) = f[DOMAIN ranges]
  BY DEF Merged, AddMerged, FoldLeft, MapThenFoldSet
<1>5. Upto(f, n)
  <2> HIDE DEF Step
  <2>1. f = CHOOSE it : Upto(it, n)
    BY <1>1
  <2> HIDE DEF f, Upto
  <2> QED
    BY <1>3, <2>1
<1>6. \A S \in SUBSET (1..n) : f[S] = Step(f, S)
  <2> HIDE DEF Step, f
  <2> QED
    BY <1>5
<1> DEFINE g == [m \in 0..n |-> f[1..m]]
<1> HIDE DEF n, f
<1>7. ASSUME NEW i \in 1..n PROVE g[i] = AddMerged(g[i - 1], ranges[i])
  <2> DEFINE m == i - 1
  <2>1. m \in Nat /\ m + 1 = i /\ m \in 0..n
    BY <1>1
  <2>2. /\ 1..i \in SUBSET (1..n) /\ i \in 1..i /\ (1..i) \ {i} = 1..m
        /\ 1..i \in SUBSET (1..(m + 1))
    BY <1>1, <2>1
  <2> HIDE DEF m
  <2>3. Max(1..i) = i
    BY <1>2, <2>1, <2>2
  <2>4. f[1..i] = Step(f, 1..i)
    BY <1>6, <2>2
  <2>5. f[1..i] = AddMerged(f[1..m], ranges[i])
    BY <2>2, <2>3, <2>4
  <2> QED
    BY <2>1, <2>5 DEF m
<1>8. g[0] = <<>>
  <2>1. 1..0 = {} /\ {} \in SUBSET (1..n) /\ 0 \in 0..n
    BY <1>1
  <2>2. g[0] = f[{}]
    BY <2>1
  <2>3. f[{}] = <<>>
    BY <1>6, <2>1
  <2> QED
    BY <2>2, <2>3
<1>9. g[n] = f[1..n]
  BY <1>1
<1> HIDE DEF g
<1> QED
  BY <1>1, <1>4, <1>7, <1>8, <1>9 DEF n

\* replaceRanges() keeps the units and leaves a gap between any two ranges.
LEMMA MergedIsKept ==
  ASSUME NEW ranges, NEW b \in Int, Within(ranges, 0, b), ranges # <<>>
  PROVE  /\ Within(Merged(ranges), 0, b) /\ Merged(ranges) # <<>>
         /\ Parted(Merged(ranges))
         /\ UnitsOf(Merged(ranges)) = UnitsOf(ranges)
<1> DEFINE n == Len(ranges)
           UnitsUpto(m) == {u \in Nat : \E i \in 1..m :
                              ranges[i].start <= u /\ u < ranges[i].end}
<1>1. n \in Nat /\ n # 0 /\ DOMAIN ranges = 1..n /\ ranges \in Seq(Clips)
  BY DEF Within
<1>2. PICK f : /\ f[0] = <<>>
               /\ \A i \in 1..n : f[i] = AddMerged(f[i - 1], ranges[i])
               /\ Merged(ranges) = f[n]
  BY <1>1, MergedIs
<1> DEFINE Sound(m) == /\ Within(f[m], 0, ranges[m].end) /\ f[m] # <<>>
                       /\ Parted(f[m]) /\ UnitsOf(f[m]) = UnitsUpto(m)
           T == {m \in Nat : m \in 1..n => Sound(m)}
<1> HIDE DEF n
<1>3. 0 \in T
  OBVIOUS
<1>4. ASSUME NEW m \in Nat, m \in T PROVE m + 1 \in T
  <2> SUFFICES ASSUME m + 1 <= n PROVE Sound(m + 1)
    OBVIOUS
  <2> DEFINE clip == ranges[m + 1]
  <2>1. /\ clip \in Clips /\ clip.start \in Nat /\ clip.end \in Nat
        /\ clip.start < clip.end /\ m + 1 \in DOMAIN ranges
    BY <1>1, ClipHas
  <2>2. f[m + 1] = AddMerged(f[m], clip)
    <3>1. m + 1 \in 1..n /\ (m + 1) - 1 = m
      BY <1>1
    <3> QED
      BY <1>2, <3>1
  <2>3. UnitsUpto(m + 1) = UnitsUpto(m) \cup clip.start..(clip.end - 1)
    <3>1. \A i : i \in 1..(m + 1) <=> i = m + 1 \/ i \in 1..m
      OBVIOUS
    <3>2. \A u : u \in clip.start..(clip.end - 1) <=>
                   u \in Nat /\ clip.start <= u /\ u < clip.end
      BY <2>1
    <3> QED
      BY <3>1, <3>2
  <2>4. CASE m = 0
    <3>1. f[m] = <<>>
      BY <1>2, <2>4
    <3>2. Within(f[m], 0, 0) /\ Parted(f[m])
      BY <3>1 DEF Within, Parted
    <3>3. UnitsOf(f[m]) = {} /\ UnitsUpto(m) = {}
      <4>1. DOMAIN f[m] = {} /\ 1..m = {}
        BY <2>4, <3>1
      <4> QED
        BY <4>1 DEF UnitsOf
    <3> HIDE DEF clip, UnitsUpto
    <3>4. /\ Within(AddMerged(f[m], clip), 0, clip.end)
          /\ AddMerged(f[m], clip) # <<>>
          /\ Parted(AddMerged(f[m], clip))
          /\ UnitsOf(AddMerged(f[m], clip)) =
               UnitsOf(f[m]) \cup clip.start..(clip.end - 1)
      BY <2>1, <3>2, AddWithin, AddUnits
    <3> QED
      BY <2>2, <2>3, <3>3, <3>4 DEF clip
  <2>5. CASE m # 0
    <3>1. m \in DOMAIN ranges /\ m \in 1..n /\ m < m + 1
      BY <1>1, <2>5
    <3>2. Sound(m) /\ ranges[m].end \in Nat
      BY <1>4, <3>1, ClipHas
    <3>3. ranges[m].end <= clip.start
      BY <2>1, <3>1 DEF Within
    <3> HIDE DEF clip, UnitsUpto
    <3>4. /\ Within(AddMerged(f[m], clip), 0, clip.end)
          /\ AddMerged(f[m], clip) # <<>>
          /\ Parted(AddMerged(f[m], clip))
          /\ UnitsOf(AddMerged(f[m], clip)) =
               UnitsOf(f[m]) \cup clip.start..(clip.end - 1)
      BY <2>1, <3>2, <3>3, AddWithin, AddUnits
    <3> QED
      BY <2>2, <2>3, <3>2, <3>4 DEF clip
  <2> QED
    BY <2>4, <2>5
<1>5. n \in T
  <2> HIDE DEF T
  <2> QED
    BY <1>1, <1>3, <1>4, Induction
<1>6. Sound(n) /\ ranges[n].end \in Int /\ ranges[n].end <= b
  <2> HIDE DEF Sound
  <2> QED
    BY <1>1, <1>5, ClipHas
<1>7. Within(f[n], 0, b)
  <2> DEFINE last == ranges[n].end
             all == f[n]
  <2>1. Within(all, 0, last) /\ last \in Int /\ last <= b
    BY <1>6
  <2> HIDE DEF last, all
  <2>2. Within(all, 0, b)
    BY <2>1, WidenWithin
  <2> QED
    BY <2>2 DEF all
<1>8. UnitsUpto(n) = UnitsOf(ranges)
  BY <1>1 DEF UnitsOf
<1> HIDE DEF UnitsUpto
<1> QED
  BY <1>2, <1>6, <1>7, <1>8

\* The second half of replaceRanges() makes a revision of what is kept: ranges
\* with gaps between them, and a kind for each cut.
Revisions ==
  {decisions \in [ranges : Seq(Clips), smooth : Seq(BOOLEAN)] :
     /\ Kept(decisions.ranges) /\ Parted(decisions.ranges)
     /\ Len(decisions.smooth) = Len(decisions.ranges) - 1}

\* What the constants are: lengths, and places in the source.
EditAssumption ==
  /\ Duration \in Nat \ {0}
  /\ Frame \in Nat \ {0}
  /\ Positions \subseteq Int
  /\ \A suggested \in Suggestions :
       /\ suggested \in Clips
       /\ suggested.start < suggested.end /\ suggested.end <= Duration

MarkPlaces == {None} \cup 0..Duration
Prompts == {"None", "LeaveEditMode", "DiscardEdits"}
Events == [type : {"SetSequence", "UpdateComposition"}, to : Revisions]

TypeOK ==
  /\ document \in Revisions /\ undo \in Seq(Revisions) /\ redo \in Seq(Revisions)
  /\ exported \subseteq Revisions
  /\ job \in [phase : {"none", "running", "succeeded", "failed"}, of : Revisions]
  /\ inUs \in MarkPlaces /\ outUs \in MarkPlaces
  /\ active \in BOOLEAN /\ prompt \in Prompts
  /\ program \in Revisions /\ queue \in Seq(Events)
  /\ accepted \in BOOLEAN /\ outdated \in BOOLEAN

\* What the player has bound when it comes to an event of a queue, if it takes
\* those before it.
Bound(bound, q, i) == IF i = 1 THEN bound ELSE q[i - 1].to

\* The player then plays what the event projects.
Takes(bound, q, i) ==
  \/ q[i].type = "SetSequence"
  \/ Bound(bound, q, i) = q[i].to
  \/ Bound(bound, q, i) # Whole /\ Bound(bound, q, i).ranges = q[i].to.ranges

\* The decisions are the last that were projected, and every projection is
\* taken or overtaken by a sequence.
Follows(decisions, bound, q) ==
  /\ decisions = IF q = <<>> THEN bound ELSE q[Len(q)].to
  /\ \A i \in DOMAIN q :
       \/ Takes(bound, q, i)
       \/ \E j \in DOMAIN q : i < j /\ q[j].type = "SetSequence"

PreviewInv == ~outdated => Follows(document, program, queue)

IInv == TypeOK /\ HandlesDoNotCross /\ PreviewInv

LEMMA WholeIsRevision ==
  ASSUME EditAssumption
  PROVE  /\ Whole \in Revisions
         /\ \A decisions \in Revisions :
              decisions.ranges = Whole.ranges => decisions = Whole
<1> DEFINE all == Clip(0, Duration)
<1>1. Duration \in Nat /\ 0 < Duration
  BY DEF EditAssumption
<1>2. all \in Clips /\ all.start = 0 /\ all.end = Duration
  BY <1>1 DEF Clip, Clips
<1>3. Whole.ranges = <<all>> /\ Whole.smooth = <<>>
  BY DEF Whole
<1>4. Whole \in [ranges : Seq(Clips), smooth : Seq(BOOLEAN)]
  BY <1>2 DEF Whole
<1> HIDE DEF all
<1>5. Kept(<<all>>) /\ Parted(<<all>>)
  BY <1>1, <1>2 DEF Kept, Within, Parted
<1>6. Len(<<all>>) = 1 /\ Len(<<>>) = 0
  OBVIOUS
<1>7. Whole \in Revisions
  <2>1. Kept(Whole.ranges) /\ Parted(Whole.ranges)
    BY <1>3, <1>5
  <2>2. Len(Whole.ranges) = 1 /\ Len(Whole.smooth) = 0
    BY <1>3, <1>6
  <2>3. Len(Whole.smooth) = Len(Whole.ranges) - 1
    BY <2>2
  <2> HIDE DEF Whole
  <2> QED
    BY <1>4, <2>1, <2>3 DEF Revisions
<1>8. ASSUME NEW decisions \in Revisions, decisions.ranges = Whole.ranges
      PROVE  decisions = Whole
  <2>1. /\ decisions.smooth \in Seq(BOOLEAN) /\ Len(decisions.smooth) = 0
        /\ decisions = [ranges |-> decisions.ranges, smooth |-> decisions.smooth]
    <3>1. /\ decisions \in [ranges : Seq(Clips), smooth : Seq(BOOLEAN)]
          /\ Len(decisions.smooth) = Len(decisions.ranges) - 1
      BY <1>8 DEF Revisions
    <3>2. Len(decisions.ranges) = 1
      BY <1>3, <1>6, <1>8
    <3>3. Len(decisions.smooth) = 0
      BY <3>1, <3>2
    <3> QED
      BY <3>1, <3>3
  <2>2. decisions.smooth = <<>>
    BY <2>1
  <2> QED
    BY <1>3, <1>8, <2>1, <2>2 DEF Whole, all
<1> QED
  BY <1>7, <1>8

LEMMA ReplacedIsRevision ==
  ASSUME EditAssumption, NEW before, NEW ranges, Kept(ranges)
  PROVE  Replaced(before, ranges) \in Revisions
<1>1. Duration \in Int
  BY DEF EditAssumption
<1> DEFINE next == Merged(ranges)
           made == Replaced(before, ranges)
           IsSmooth(i) == \E j \in DOMAIN before.smooth :
                            /\ before.smooth[j]
                            /\ before.ranges[j].end = next[i].end
                            /\ before.ranges[j + 1].start = next[i + 1].start
<1>2. Within(next, 0, Duration) /\ next # <<>> /\ Parted(next)
  BY <1>1, MergedIsKept DEF Kept
<1>3. next \in Seq(Clips) /\ Len(next) - 1 \in Nat
  BY <1>2 DEF Within
<1>4. made = [ranges |-> next, smooth |-> [i \in 1..(Len(next) - 1) |-> IsSmooth(i)]]
  BY DEF Replaced
<1> HIDE DEF made, next
<1>5. \A i : IsSmooth(i) \in BOOLEAN
  OBVIOUS
<1> HIDE DEF IsSmooth
<1>6. /\ [i \in 1..(Len(next) - 1) |-> IsSmooth(i)] \in Seq(BOOLEAN)
      /\ Len([i \in 1..(Len(next) - 1) |-> IsSmooth(i)]) = Len(next) - 1
  BY <1>3, <1>5
<1>7. made \in Revisions
  BY <1>2, <1>3, <1>4, <1>6 DEF Revisions, Kept
<1> QED
  BY <1>7 DEF made

LEMMA TrimmedIsKept ==
  ASSUME EditAssumption, NEW ranges, Kept(ranges), NEW keep \in Clips,
         TrimmedTo(ranges, keep) # <<>>
  PROVE  /\ Kept(TrimmedTo(ranges, keep))
         /\ HasOnly(TrimmedTo(ranges, keep), ranges, keep.start, keep.end)
<1> DEFINE Part(i) == Piece(Max({ranges[i].start, keep.start}),
                            Min({ranges[i].end, keep.end}))
           parts == [i \in DOMAIN ranges |-> Part(i)]
<1>1. Within(ranges, 0, Duration) /\ ranges # <<>> /\ Duration \in Int
  BY DEF Kept, EditAssumption
<1>2. ranges \in Seq(Clips)
  BY <1>1 DEF Within
<1>3. \A i \in DOMAIN ranges : Within(Part(i), ranges[i].start, ranges[i].end)
  BY <1>1, ClipHas, CutWithin
<1>8. \A i \in DOMAIN ranges :
        UnitsOf(Part(i)) = (ranges[i].start..(ranges[i].end - 1)) \cap (keep.start..(keep.end - 1))
  BY <1>1, ClipHas, CutUnits
<1> HIDE DEF Part
<1>4. \A i \in DOMAIN ranges : Part(i) \in Seq(Clips)
  BY <1>3 DEF Within
<1>5. parts \in Seq(Seq(Clips))
  BY <1>2, <1>4
<1>6. DOMAIN parts = DOMAIN ranges
      /\ \A i \in DOMAIN ranges : Within(parts[i], ranges[i].start, ranges[i].end)
  BY <1>3
<1>7. TrimmedTo(ranges, keep) = FlattenSeq(parts)
  BY DEF TrimmedTo, Part
<1>9. 1 \in DOMAIN ranges
  BY <1>1 DEF Within
<1>10. parts # <<>>
  BY <1>6, <1>9
<1>11. \A i \in DOMAIN ranges : parts[i] = Part(i)
  OBVIOUS
<1> HIDE DEF parts
<1>12. UnitsOf(FlattenSeq(parts)) =
         {u \in Nat : \E i \in DOMAIN ranges :
            u \in (ranges[i].start..(ranges[i].end - 1)) \cap (keep.start..(keep.end - 1))}
  <2>1. UnitsOf(FlattenSeq(parts)) =
          {u \in Nat : \E i \in DOMAIN parts : u \in UnitsOf(parts[i])}
    BY <1>5, <1>10, FlattenUnits
  <2>2. \A i \in DOMAIN ranges :
          UnitsOf(parts[i]) =
            (ranges[i].start..(ranges[i].end - 1)) \cap (keep.start..(keep.end - 1))
    BY <1>8, <1>11
  <2> QED
    BY <1>6, <2>1, <2>2
<1>13. \A i \in DOMAIN ranges : ranges[i].start \in Nat /\ ranges[i].end \in Nat
  BY <1>1, ClipHas
<1>14. UnitsOf(FlattenSeq(parts)) = UnitsOf(ranges) \cap (keep.start..(keep.end - 1))
  <2>1. \A i \in DOMAIN ranges : \A u \in Nat :
          u \in ranges[i].start..(ranges[i].end - 1) <=>
            ranges[i].start <= u /\ u < ranges[i].end
    BY <1>13
  <2> QED
    BY <1>12, <2>1 DEF UnitsOf
<1> QED
  BY <1>1, <1>5, <1>6, <1>7, <1>14, FlattenWithin DEF Kept, HasOnly

LEMMA WithoutIsKept ==
  ASSUME EditAssumption, NEW ranges, Kept(ranges),
         NEW remove \in Clips, remove.start < remove.end,
         Without(ranges, remove) # <<>>
  PROVE  /\ Kept(Without(ranges, remove))
         /\ Lacks(Without(ranges, remove), ranges, remove.start, remove.end)
<1> DEFINE Part(i) == Around(ranges[i], remove)
           parts == [i \in DOMAIN ranges |-> Part(i)]
<1>1. Within(ranges, 0, Duration) /\ ranges # <<>> /\ Duration \in Int
  BY DEF Kept, EditAssumption
<1>2. ranges \in Seq(Clips)
  BY <1>1 DEF Within
<1>3. \A i \in DOMAIN ranges : Within(Part(i), ranges[i].start, ranges[i].end)
  BY <1>1, ClipHas, AroundWithin
<1>8. \A i \in DOMAIN ranges :
        UnitsOf(Part(i)) = (ranges[i].start..(ranges[i].end - 1)) \ (remove.start..(remove.end - 1))
  BY <1>1, ClipHas, AroundUnits
<1> HIDE DEF Part
<1>4. \A i \in DOMAIN ranges : Part(i) \in Seq(Clips)
  BY <1>3 DEF Within
<1>5. parts \in Seq(Seq(Clips))
  BY <1>2, <1>4
<1>6. DOMAIN parts = DOMAIN ranges
      /\ \A i \in DOMAIN ranges : Within(parts[i], ranges[i].start, ranges[i].end)
  BY <1>3
<1>7. Without(ranges, remove) = FlattenSeq(parts)
  BY DEF Without, Part
<1>9. 1 \in DOMAIN ranges
  BY <1>1 DEF Within
<1>10. parts # <<>>
  BY <1>6, <1>9
<1>11. \A i \in DOMAIN ranges : parts[i] = Part(i)
  OBVIOUS
<1> HIDE DEF parts
<1>12. UnitsOf(FlattenSeq(parts)) =
         {u \in Nat : \E i \in DOMAIN ranges :
            u \in (ranges[i].start..(ranges[i].end - 1)) \ (remove.start..(remove.end - 1))}
  <2>1. UnitsOf(FlattenSeq(parts)) =
          {u \in Nat : \E i \in DOMAIN parts : u \in UnitsOf(parts[i])}
    BY <1>5, <1>10, FlattenUnits
  <2>2. \A i \in DOMAIN ranges :
          UnitsOf(parts[i]) =
            (ranges[i].start..(ranges[i].end - 1)) \ (remove.start..(remove.end - 1))
    BY <1>8, <1>11
  <2> QED
    BY <1>6, <2>1, <2>2
<1>13. \A i \in DOMAIN ranges : ranges[i].start \in Nat /\ ranges[i].end \in Nat
  BY <1>1, ClipHas
<1>14. UnitsOf(FlattenSeq(parts)) = UnitsOf(ranges) \ (remove.start..(remove.end - 1))
  <2>1. \A i \in DOMAIN ranges : \A u \in Nat :
          u \in ranges[i].start..(ranges[i].end - 1) <=>
            ranges[i].start <= u /\ u < ranges[i].end
    BY <1>13
  <2> QED
    BY <1>12, <2>1 DEF UnitsOf
<1> QED
  BY <1>1, <1>5, <1>6, <1>7, <1>14, FlattenWithin DEF Kept, Lacks

-----------------------------------------------------------------------------
(* The marks                                                                *)

\* What HandlesDoNotCross says of two marks.
Apart(in, out) ==
  LET start == PresentationOf(document.ranges, in)
      end == PresentationOf(document.ranges, out)
  IN  /\ start <= end
      /\ \/ end - start >= Frame
         \/ end < Frame
         \/ start > ProgramLength(document.ranges) - Frame

\* A place in the source has a place in the program.
LEMMA PresentationBounds ==
  ASSUME EditAssumption, NEW ranges, Kept(ranges), NEW s \in 0..Duration
  PROVE  /\ PresentationOf(ranges, s) \in Nat
         /\ ProgramLength(ranges) \in Nat
         /\ PresentationOf(ranges, s) <= ProgramLength(ranges)
<1>1. /\ Within(ranges, 0, Duration) /\ s \in Int /\ Duration \in Int
      /\ s <= Duration
  BY DEF Kept, EditAssumption
<1> QED
  BY <1>1, PresentationGrows DEF ProgramLength

LEMMA ProgramIsThere ==
  ASSUME EditAssumption, NEW ranges, Kept(ranges)
  PROVE  ProgramLength(ranges) \in Nat /\ 0 < ProgramLength(ranges)
<1>1. Within(ranges, 0, Duration) /\ 1 \in DOMAIN ranges /\ Duration \in Nat
  BY DEF Kept, Within, EditAssumption
<1>2. /\ ranges[1].start \in Nat /\ ranges[1].end \in Nat
      /\ ranges[1].start < ranges[1].end /\ ranges[1].end <= Duration
  BY <1>1, ClipHas
<1>3. PresentationOf(ranges, ranges[1].end) =
        PresentationOf(ranges, ranges[1].start) + (ranges[1].end - ranges[1].start)
  BY <1>1, <1>2, WithinClip
<1>4. /\ PresentationOf(ranges, ranges[1].start) \in Nat
      /\ PresentationOf(ranges, ranges[1].end) \in Nat
      /\ PresentationOf(ranges, ranges[1].end) <= ProgramLength(ranges)
      /\ ProgramLength(ranges) \in Nat
  <2>1. ranges[1].start \in 0..Duration /\ ranges[1].end \in 0..Duration
    BY <1>1, <1>2
  <2> QED
    BY <2>1, PresentationBounds
<1> QED
  BY <1>2, <1>3, <1>4

\* An In is put where it leaves a frame before the Out.
LEMMA MarkedInIs ==
  ASSUME EditAssumption, Kept(document.ranges), outUs \in MarkPlaces,
         NEW s \in 0..Duration
  PROVE  /\ MarkedIn(s) \in 0..Duration
         /\ outUs # None => Apart(MarkedIn(s), outUs)
<1>1. CASE outUs = None
  BY <1>1 DEF MarkedIn
<1>2. CASE outUs # None
  <2> DEFINE P(u) == PresentationOf(document.ranges, u)
             L == ProgramLength(document.ranges)
             end == P(outUs)
             latest == end - Min({Frame, end})
             p == Min({P(s), latest})
  <2>1. /\ outUs \in 0..Duration /\ Frame \in Nat /\ 0 < Frame
        /\ Duration \in Nat
    BY <1>2 DEF MarkPlaces, EditAssumption
  <2>2. /\ P(s) \in Nat /\ L \in Nat /\ P(s) <= L /\ end \in Nat /\ end <= L
    BY <2>1, PresentationBounds
  <2>3. latest = IF Frame <= end THEN end - Frame ELSE 0
    BY <2>1, <2>2, MinOfTwo
  <2>4. latest \in Nat /\ latest <= end
    BY <2>1, <2>2, <2>3
  <2>5. p \in Nat /\ p <= latest
    <3>1. P(s) \in Int /\ latest \in Int
      BY <2>2, <2>4
    <3> HIDE DEF P, latest
    <3>2. p = IF P(s) <= latest THEN P(s) ELSE latest
      BY <3>1, MinOfTwo
    <3> HIDE DEF p
    <3> QED
      BY <2>2, <2>4, <3>2
  <2>6. MarkedIn(s) = SourceAt(document.ranges, p)
    BY <1>2 DEF MarkedIn
  <2> HIDE DEF L, p, latest
  <2>7. /\ SourceAt(document.ranges, p) \in 0..Duration
        /\ PresentationOf(document.ranges, SourceAt(document.ranges, p)) = p
    BY <2>1, <2>2, <2>4, <2>5, SourceIsFound DEF L
  <2>8. /\ p <= end
        /\ \/ end - p >= Frame
           \/ end < Frame
           \/ p > L - Frame
    BY <2>1, <2>2, <2>3, <2>4, <2>5
  <2> QED
    BY <2>6, <2>7, <2>8 DEF Apart, L
<1> QED
  BY <1>1, <1>2

LEMMA OutAtIs ==
  ASSUME EditAssumption, Kept(document.ranges),
         NEW p \in Int, p <= ProgramLength(document.ranges)
  PROVE  /\ OutAt(p) \in 0..Duration
         /\ 0 < p => PresentationOf(document.ranges, OutAt(p)) = p
<1> DEFINE L == ProgramLength(document.ranges)
<1>1. Duration \in Nat /\ L \in Nat /\ 0 < L
  BY ProgramIsThere DEF EditAssumption
<1>2. CASE p <= 0
  <2>1. OutAt(p) = SourceAt(document.ranges, 0)
    BY <1>2 DEF OutAt
  <2> QED
    BY <1>1, <1>2, <2>1, SourceIsFound
<1>3. CASE ~(p <= 0)
  <2> DEFINE q == p - 1
             c == SourceAt(document.ranges, q)
  <2>1. q \in Nat /\ q < L /\ q <= L /\ q + 1 = p
    BY <1>1, <1>3
  <2>2. OutAt(p) = Min({Duration, c + 1})
    BY <1>3 DEF OutAt
  <2> HIDE DEF q
  <2>3. /\ c \in 0..Duration /\ c < Duration
        /\ PresentationOf(document.ranges, c + 1) = q + 1
    BY <1>1, <2>1, SourceIsFound
  <2> HIDE DEF c
  <2>4. c \in Nat /\ c + 1 \in Nat /\ c + 1 <= Duration
    BY <1>1, <2>3
  <2>5. OutAt(p) = c + 1
    BY <1>1, <2>2, <2>4, MinOfTwo
  <2> QED
    BY <1>1, <2>1, <2>3, <2>4, <2>5
<1> QED
  BY <1>2, <1>3

\* The first position that leaves a frame, as far as there is one.
LEMMA EarliestIs ==
  ASSUME EditAssumption, Kept(document.ranges), NEW in \in 0..Duration
  PROVE  LET start == PresentationOf(document.ranges, in)
             L == ProgramLength(document.ranges)
         IN  /\ EarliestOut(in) \in Nat /\ 0 < EarliestOut(in)
             /\ EarliestOut(in) <= L
             /\ EarliestOut(in) >= start
             /\ EarliestOut(in) - start >= Frame \/ start > L - Frame
<1> DEFINE start == PresentationOf(document.ranges, in)
           L == ProgramLength(document.ranges)
<1>1. /\ start \in Nat /\ L \in Nat /\ start <= L /\ 0 < L
      /\ Frame \in Nat /\ 0 < Frame
  BY PresentationBounds, ProgramIsThere DEF EditAssumption
<1>2. EarliestOut(in) = start + Min({Frame, L - start})
  BY DEF EarliestOut
<1> HIDE DEF start, L
<1>3. Min({Frame, L - start}) = IF Frame <= L - start THEN Frame ELSE L - start
  BY <1>1, MinOfTwo
<1>4. /\ EarliestOut(in) \in Nat /\ 0 < EarliestOut(in)
      /\ EarliestOut(in) <= L
      /\ EarliestOut(in) >= start
      /\ EarliestOut(in) - start >= Frame \/ start > L - Frame
  BY <1>1, <1>2, <1>3
<1> QED
  BY <1>4 DEF start, L

\* Any Out at such a position or behind it is apart from the In.
LEMMA LaterIsApart ==
  ASSUME EditAssumption, Kept(document.ranges), NEW in \in 0..Duration,
         NEW out \in 0..Duration,
         EarliestOut(in) <= PresentationOf(document.ranges, out)
  PROVE  Apart(in, out)
<1> DEFINE start == PresentationOf(document.ranges, in)
           end == PresentationOf(document.ranges, out)
           L == ProgramLength(document.ranges)
<1>1. /\ start \in Nat /\ L \in Nat /\ end \in Nat
      /\ Frame \in Nat
  BY PresentationBounds DEF EditAssumption
<1>2. /\ EarliestOut(in) \in Nat
      /\ EarliestOut(in) >= start
      /\ EarliestOut(in) - start >= Frame \/ start > L - Frame
  BY EarliestIs
<1>3. EarliestOut(in) <= end
  OBVIOUS
<1> HIDE DEF start, end, L
<1>4. start <= end /\ (end - start >= Frame \/ start > L - Frame)
  BY <1>1, <1>2, <1>3
<1> QED
  BY <1>4 DEF Apart, start, end, L

LEMMA MarkedOutIs ==
  ASSUME EditAssumption, Kept(document.ranges), NEW in \in MarkPlaces,
         NEW s \in 0..Duration
  PROVE  /\ MarkedOut(in, s) \in 0..Duration
         /\ in # None => Apart(in, MarkedOut(in, s))
<1>1. CASE in = None
  BY <1>1 DEF MarkedOut
<1>2. CASE in # None
  <2>1. in \in 0..Duration
    BY <1>2 DEF MarkPlaces
  <2>2. CASE EarliestOut(in) <= PresentationOf(document.ranges, s)
    <3>1. MarkedOut(in, s) = s
      BY <2>2 DEF MarkedOut
    <3> QED
      BY <2>1, <2>2, <3>1, LaterIsApart
  <2>3. CASE ~(EarliestOut(in) <= PresentationOf(document.ranges, s))
    <3>1. MarkedOut(in, s) = OutAt(EarliestOut(in))
      BY <1>2, <2>3 DEF MarkedOut
    <3>2. /\ EarliestOut(in) \in Nat /\ 0 < EarliestOut(in)
          /\ EarliestOut(in) <= ProgramLength(document.ranges)
      BY <2>1, EarliestIs
    <3>3. /\ OutAt(EarliestOut(in)) \in 0..Duration
          /\ PresentationOf(document.ranges, OutAt(EarliestOut(in))) = EarliestOut(in)
      BY <3>2, OutAtIs
    <3> QED
      BY <2>1, <3>1, <3>2, <3>3, LaterIsApart
  <2> QED
    BY <2>2, <2>3
<1> QED
  BY <1>1, <1>2

\* A handle that is dragged keeps the same distance.
LEMMA MovedOutIs ==
  ASSUME EditAssumption, Kept(document.ranges), inUs \in MarkPlaces,
         NEW p \in 0..ProgramLength(document.ranges)
  PROVE  /\ OutAt(MovedOut(p)) \in 0..Duration
         /\ inUs # None => Apart(inUs, OutAt(MovedOut(p)))
<1>0. ProgramLength(document.ranges) \in Nat /\ p \in Int
  BY ProgramIsThere
<1>1. CASE inUs = None
  BY <1>0, <1>1, OutAtIs DEF MovedOut
<1>2. CASE inUs # None
  <2>1. inUs \in 0..Duration
    BY <1>2 DEF MarkPlaces
  <2> DEFINE first == EarliestOut(inUs)
             q == MovedOut(p)
  <2>2. first \in Nat /\ 0 < first /\ first <= ProgramLength(document.ranges)
    BY <2>1, EarliestIs
  <2>3. q = Max({p, first})
    BY <1>2 DEF MovedOut
  <2>4. /\ q \in Int /\ first <= q /\ 0 < q
        /\ q <= ProgramLength(document.ranges)
    <3> HIDE DEF q, first
    <3> QED
      BY <1>0, <2>2, <2>3, MaxOfTwo
  <2> HIDE DEF q
  <2>5. OutAt(q) \in 0..Duration /\ PresentationOf(document.ranges, OutAt(q)) = q
    BY <2>4, OutAtIs
  <2>6. Apart(inUs, OutAt(q))
    BY <2>1, <2>4, <2>5, LaterIsApart
  <2> QED
    BY <2>5, <2>6 DEF q
<1> QED
  BY <1>1, <1>2

LEMMA MovedInIs ==
  ASSUME EditAssumption, Kept(document.ranges), outUs \in MarkPlaces,
         NEW p \in 0..ProgramLength(document.ranges)
  PROVE  SourceAt(document.ranges, MovedIn(p)) \in 0..Duration
<1> DEFINE L == ProgramLength(document.ranges)
<1>0. L \in Nat /\ p \in Nat /\ p <= L /\ Duration \in Nat /\ Frame \in Nat
  BY ProgramIsThere DEF EditAssumption
<1>1. MovedIn(p) \in Nat /\ MovedIn(p) <= L
  <2>1. CASE outUs = None
    BY <1>0, <2>1 DEF MovedIn
  <2>2. CASE outUs # None
    <3> DEFINE end == PresentationOf(document.ranges, outUs)
               latest == end - Min({Frame, end})
    <3>1. outUs \in 0..Duration
      BY <2>2 DEF MarkPlaces
    <3>2. end \in Nat
      BY <3>1, PresentationBounds
    <3>3. latest \in Nat
      BY <1>0, <3>2, MinOfTwo
    <3>4. MovedIn(p) = Min({p, latest})
      BY <2>2 DEF MovedIn
    <3> HIDE DEF latest
    <3> QED
      BY <1>0, <3>3, <3>4, MinOfTwo
  <2> QED
    BY <2>1, <2>2
<1> QED
  BY <1>0, <1>1, SourceIsFound


-----------------------------------------------------------------------------
(* What an edit makes of the program                                        *)

\* Behind a unit the program is one further if the unit is kept.
LEMMA PresentationSteps ==
  ASSUME NEW b, NEW ranges, Within(ranges, 0, b), NEW s \in Nat
  PROVE  /\ PresentationOf(ranges, s) \in Nat
         /\ PresentationOf(ranges, s + 1) =
              PresentationOf(ranges, s) + (IF s \in UnitsOf(ranges) THEN 1 ELSE 0)
<1> DEFINE t == s + 1
<1>0. t \in Int /\ s \in Int /\ s <= t /\ t = s + 1
  OBVIOUS
<1> HIDE DEF t
<1>1. PresentationOf(ranges, s) \in Nat
  BY <1>0, PresentationGrows
<1>2. CASE s \in UnitsOf(ranges)
  <2>1. PICK k \in DOMAIN ranges : ranges[k].start <= s /\ s < ranges[k].end
    BY <1>2 DEF UnitsOf
  <2> DEFINE start == ranges[k].start
  <2>2. start \in Nat /\ ranges[k].end \in Nat
    BY ClipHas
  <2>3. start <= t /\ t <= ranges[k].end /\ s <= ranges[k].end
    BY <1>0, <2>1, <2>2
  <2>4. /\ PresentationOf(ranges, s) = PresentationOf(ranges, start) + (s - start)
        /\ PresentationOf(ranges, t) = PresentationOf(ranges, start) + (t - start)
    BY <1>0, <2>1, <2>3, WithinClip
  <2>5. PresentationOf(ranges, start) \in Nat
    BY <2>2, PresentationGrows
  <2> HIDE DEF start
  <2> QED
    BY <1>0, <1>1, <1>2, <2>2, <2>4, <2>5
<1>3. CASE s \notin UnitsOf(ranges)
  <2>1. ASSUME NEW i \in DOMAIN ranges
        PROVE  ranges[i].end <= s \/ t <= ranges[i].start
    <3>1. ranges[i].start \in Nat /\ ranges[i].end \in Nat
      BY ClipHas
    <3>2. ~(ranges[i].start <= s /\ s < ranges[i].end)
      BY <1>3 DEF UnitsOf
    <3> QED
      BY <1>0, <3>1, <3>2
  <2>2. PresentationOf(ranges, s) = PresentationOf(ranges, t)
    BY <1>0, <2>1, BetweenClips
  <2> QED
    BY <1>0, <1>1, <1>3, <2>2
<1> QED
  BY <1>2, <1>3

\* Nothing comes before the beginning of the source.
LEMMA PresentationOfNothing ==
  ASSUME NEW b, NEW ranges, Within(ranges, 0, b)
  PROVE  PresentationOf(ranges, 0) = 0
<1>1. \A i \in DOMAIN ranges : 0 <= ranges[i].start
  BY DEF Within
<1> QED
  BY <1>1, ProgramBegins

\* The content at a position is the one unit before and behind which the
\* program is at the position and one further.
LEMMA ContentIs ==
  ASSUME Duration \in Nat, NEW ranges, Kept(ranges),
         NEW p \in Nat, p < ProgramLength(ranges),
         NEW c \in Nat, PresentationOf(ranges, c) = p,
         PresentationOf(ranges, c + 1) = p + 1
  PROVE  SourceAt(ranges, p) = c
<1> DEFINE d == SourceAt(ranges, p)
<1>0. Within(ranges, 0, Duration) /\ ProgramLength(ranges) \in Nat
  BY PresentationGrows DEF Kept, ProgramLength
<1>1. p <= ProgramLength(ranges)
  BY <1>0
<1>2. /\ d \in 0..Duration /\ PresentationOf(ranges, d) = p
      /\ PresentationOf(ranges, d + 1) = p + 1
  BY <1>1, SourceIsFound
<1> HIDE DEF d
<1>3. d \in Int /\ c \in Int /\ d + 1 \in Int /\ c + 1 \in Int
  BY <1>2
<1>4. ~(c < d)
  <2> SUFFICES ASSUME c < d PROVE FALSE
    OBVIOUS
  <2>1. c + 1 <= d
    BY <1>3
  <2>2. PresentationOf(ranges, c + 1) <= PresentationOf(ranges, d)
    BY <1>0, <1>3, <2>1, PresentationGrows
  <2> QED
    BY <1>2, <2>2
<1>5. ~(d < c)
  <2> SUFFICES ASSUME d < c PROVE FALSE
    OBVIOUS
  <2>1. d + 1 <= c
    BY <1>3
  <2>2. PresentationOf(ranges, d + 1) <= PresentationOf(ranges, c)
    BY <1>0, <1>3, <2>1, PresentationGrows
  <2> QED
    BY <1>2, <2>2
<1> QED
  BY <1>3, <1>4, <1>5 DEF d

\* The program without the units from a to b.
LEMMA PresentationWithout ==
  ASSUME NEW d, NEW ranges, Within(ranges, 0, d),
         NEW next, Within(next, 0, d),
         NEW a \in Nat, NEW b \in Nat, a <= b,
         Lacks(next, ranges, a, b)
  PROVE  \A s \in Nat :
           /\ s <= a => PresentationOf(next, s) = PresentationOf(ranges, s)
           /\ a <= s /\ s <= b =>
                PresentationOf(next, s) = PresentationOf(ranges, a)
           /\ b <= s => PresentationOf(next, s) =
                          PresentationOf(ranges, s)
                            - (PresentationOf(ranges, b) - PresentationOf(ranges, a))
<1> DEFINE P(u) == PresentationOf(ranges, u)
           Q(u) == PresentationOf(next, u)
           Is(u) == /\ u <= a => Q(u) = P(u)
                    /\ a <= u /\ u <= b => Q(u) = P(a)
                    /\ b <= u => Q(u) = P(u) - (P(b) - P(a))
           T == {u \in Nat : Is(u)}
<1>1. \A u \in Nat : /\ P(u) \in Nat /\ Q(u) \in Nat
                     /\ P(u + 1) = P(u) + (IF u \in UnitsOf(ranges) THEN 1 ELSE 0)
                     /\ Q(u + 1) = Q(u) + (IF u \in UnitsOf(next) THEN 1 ELSE 0)
  BY PresentationSteps
<1>2. P(0) = 0 /\ Q(0) = 0
  BY PresentationOfNothing
<1> HIDE DEF P, Q
<1>3. 0 \in T
  <2>1. 0 <= b /\ (b <= 0 => a = b) /\ (a <= 0 => a = 0) /\ P(a) \in Nat /\ P(b) \in Nat
    BY <1>1
  <2> QED
    BY <1>2, <2>1
<1>4. ASSUME NEW u \in Nat, u \in T PROVE u + 1 \in T
  <2>1. P(a) \in Nat /\ P(b) \in Nat /\ P(u) \in Nat /\ Q(u) \in Nat
    BY <1>1
  <2>2. CASE u < a
    <3>1. u \in UnitsOf(next) <=> u \in UnitsOf(ranges)
      BY <2>2 DEF Lacks
    <3>2. Q(u + 1) = P(u + 1) /\ u + 1 <= a
      <4>1. Q(u) = P(u)
        BY <1>4, <2>2
      <4>2. P(u + 1) = P(u) + (IF u \in UnitsOf(ranges) THEN 1 ELSE 0)
            /\ Q(u + 1) = Q(u) + (IF u \in UnitsOf(next) THEN 1 ELSE 0)
        BY <1>1
      <4> HIDE DEF T, Is
      <4> QED
        BY <2>2, <3>1, <4>1, <4>2
    <3>3. u + 1 >= a => u + 1 = a
      BY <3>2
    <3>4. u + 1 >= b => a = b /\ u + 1 = b
      BY <3>2
    <3> QED
      BY <2>1, <3>2, <3>3, <3>4
  <2>3. CASE a <= u /\ u < b
    <3>1. u \notin UnitsOf(next)
      BY <2>3 DEF Lacks
    <3>2. Q(u + 1) = P(a) /\ u + 1 <= b /\ ~(u + 1 <= a)
      BY <1>1, <1>4, <2>1, <2>3, <3>1
    <3>3. u + 1 >= b => u + 1 = b
      BY <3>2
    <3> QED
      BY <2>1, <3>2, <3>3
  <2>4. CASE b <= u
    <3>1. u \in UnitsOf(next) <=> u \in UnitsOf(ranges)
      BY <2>4 DEF Lacks
    <3>2. Q(u + 1) = P(u + 1) - (P(b) - P(a))
      BY <1>1, <1>4, <2>1, <2>4, <3>1
    <3>3. ~(u + 1 <= a) /\ ~(u + 1 <= b)
      BY <2>4
    <3> QED
      BY <3>2, <3>3
  <2> QED
    BY <2>2, <2>3, <2>4
<1>5. Nat \subseteq T
  <2> HIDE DEF T
  <2> QED
    BY <1>3, <1>4, Induction
<1>6. \A s \in Nat : Is(s)
  BY <1>5
<1> QED
  BY <1>6 DEF P, Q

\* The program of nothing but the units from a to b.
LEMMA PresentationWithOnly ==
  ASSUME NEW d, NEW ranges, Within(ranges, 0, d),
         NEW next, Within(next, 0, d),
         NEW a \in Nat, NEW b \in Nat, a <= b,
         HasOnly(next, ranges, a, b)
  PROVE  \A s \in Nat :
           /\ s <= a => PresentationOf(next, s) = 0
           /\ a <= s /\ s <= b =>
                PresentationOf(next, s) =
                  PresentationOf(ranges, s) - PresentationOf(ranges, a)
           /\ b <= s => PresentationOf(next, s) =
                          PresentationOf(ranges, b) - PresentationOf(ranges, a)
<1> DEFINE P(u) == PresentationOf(ranges, u)
           Q(u) == PresentationOf(next, u)
           Is(u) == /\ u <= a => Q(u) = 0
                    /\ a <= u /\ u <= b => Q(u) = P(u) - P(a)
                    /\ b <= u => Q(u) = P(b) - P(a)
           T == {u \in Nat : Is(u)}
<1>1. \A u \in Nat : /\ P(u) \in Nat /\ Q(u) \in Nat
                     /\ P(u + 1) = P(u) + (IF u \in UnitsOf(ranges) THEN 1 ELSE 0)
                     /\ Q(u + 1) = Q(u) + (IF u \in UnitsOf(next) THEN 1 ELSE 0)
  BY PresentationSteps
<1>2. P(0) = 0 /\ Q(0) = 0
  BY PresentationOfNothing
<1> HIDE DEF P, Q
<1>3. 0 \in T
  <2>1. 0 <= b /\ (b <= 0 => a = b) /\ (a <= 0 => a = 0) /\ P(a) \in Nat /\ P(b) \in Nat
    BY <1>1
  <2> QED
    BY <1>2, <2>1
<1>4. ASSUME NEW u \in Nat, u \in T PROVE u + 1 \in T
  <2>1. P(a) \in Nat /\ P(b) \in Nat /\ P(u) \in Nat /\ Q(u) \in Nat
    BY <1>1
  <2>2. CASE u < a
    <3>1. u \notin UnitsOf(next)
      BY <2>2 DEF HasOnly
    <3>2. Q(u + 1) = 0 /\ u + 1 <= a
      BY <1>1, <1>4, <2>1, <2>2, <3>1
    <3>3. u + 1 >= a => u + 1 = a
      BY <3>2
    <3>4. u + 1 >= b => a = b /\ u + 1 = b
      BY <3>2
    <3> QED
      BY <2>1, <3>2, <3>3, <3>4
  <2>3. CASE a <= u /\ u < b
    <3>1. u \in UnitsOf(next) <=> u \in UnitsOf(ranges)
      BY <2>3 DEF HasOnly
    <3>2. Q(u + 1) = P(u + 1) - P(a) /\ u + 1 <= b /\ ~(u + 1 <= a)
      BY <1>1, <1>4, <2>1, <2>3, <3>1
    <3>3. u + 1 >= b => u + 1 = b
      BY <3>2
    <3> QED
      BY <2>1, <3>2, <3>3
  <2>4. CASE b <= u
    <3>1. u \notin UnitsOf(next)
      BY <2>4 DEF HasOnly
    <3>2. Q(u + 1) = P(b) - P(a)
      BY <1>1, <1>4, <2>1, <2>4, <3>1
    <3>3. ~(u + 1 <= a) /\ ~(u + 1 <= b)
      BY <2>4
    <3> QED
      BY <3>2, <3>3
  <2> QED
    BY <2>2, <2>3, <2>4
<1>5. Nat \subseteq T
  <2> HIDE DEF T
  <2> QED
    BY <1>3, <1>4, Induction
<1>6. \A s \in Nat : Is(s)
  BY <1>5
<1> QED
  BY <1>6 DEF P, Q

\* A sequence with a middle part left out, element by element.
LEMMA LeftOut ==
  ASSUME NEW S, NEW shown \in Seq(S), NEW next \in Seq(S),
         NEW start \in Nat, NEW end \in Nat, start <= end, end <= Len(shown),
         Len(next) = Len(shown) - (end - start),
         \A p \in 1..Len(next) :
           next[p] = IF p <= start THEN shown[p] ELSE shown[p + (end - start)]
  PROVE  next = SubSeq(shown, 1, start) \o SubSeq(shown, end + 1, Len(shown))
<1> DEFINE left == SubSeq(shown, 1, start)
           right == SubSeq(shown, end + 1, Len(shown))
<1>1. /\ left \in Seq(S) /\ Len(left) = start
      /\ \A p \in 1..start : left[p] = shown[p]
  OBVIOUS
<1>2. /\ right \in Seq(S) /\ Len(right) = Len(shown) - end
      /\ \A p \in 1..(Len(shown) - end) : right[p] = shown[end + p]
  OBVIOUS
<1> HIDE DEF left, right
<1> DEFINE both == left \o right
<1>3. both \in Seq(S) /\ Len(both) = Len(next)
  <2>0. left \in Seq(S) /\ right \in Seq(S)
    BY <1>1, <1>2
  <2>1. both \in Seq(S) /\ Len(both) = Len(left) + Len(right)
    BY <2>0
  <2>2. Len(left) + Len(right) = Len(next)
    BY <1>1, <1>2
  <2> QED
    BY <2>1, <2>2
<1>4. ASSUME NEW p \in 1..Len(next) PROVE both[p] = next[p]
  <2>1. CASE p <= start
    BY <1>1, <1>2, <2>1
  <2>2. CASE ~(p <= start)
    <3>0. p \in Int /\ p <= Len(left) + Len(right) /\ p > Len(left)
      BY <1>1, <1>2, <2>2
    <3>4. left \in Seq(S) /\ right \in Seq(S)
      BY <1>1, <1>2
    <3>5. both[p] = right[p - Len(left)]
      BY <3>0, <3>4
    <3>1. both[p] = right[p - start] /\ p - start \in 1..(Len(shown) - end)
      BY <1>1, <1>2, <3>0, <3>5
    <3>2. right[p - start] = shown[end + (p - start)]
      BY <1>2, <3>1
    <3>3. end + (p - start) = p + (end - start)
      OBVIOUS
    <3> QED
      BY <2>2, <3>1, <3>2, <3>3
  <2> QED
    BY <2>1, <2>2
<1> HIDE DEF both
<1>5. both = next
  BY <1>3, <1>4
<1> QED
  BY <1>5 DEF both, left, right

LEMMA TakenOut ==
  ASSUME NEW S, NEW shown \in Seq(S), NEW next \in Seq(S),
         NEW start \in Nat, NEW end \in Nat, start <= end, end <= Len(shown),
         Len(next) = end - start,
         \A p \in 1..Len(next) : next[p] = shown[p + start]
  PROVE  next = SubSeq(shown, start + 1, end)
<1> DEFINE part == SubSeq(shown, start + 1, end)
<1>1. /\ part \in Seq(S) /\ Len(part) = end - start
      /\ \A p \in 1..(end - start) : part[p] = shown[start + p]
  OBVIOUS
<1> HIDE DEF part
<1>2. part = next
  BY <1>1
<1> QED
  BY <1>2 DEF part

\* The program as a sequence of units.
LEMMA ContentHas ==
  ASSUME EditAssumption, NEW ranges, Kept(ranges)
  PROVE  /\ Content(ranges) \in Seq(0..Duration)
         /\ Len(Content(ranges)) = ProgramLength(ranges)
         /\ ProgramLength(ranges) \in Nat
         /\ \A p \in 1..ProgramLength(ranges) :
              LET c == Content(ranges)[p]
              IN  /\ c \in 0..(Duration - 1)
                  /\ PresentationOf(ranges, c) = p - 1
                  /\ PresentationOf(ranges, c + 1) = p
<1> DEFINE n == ProgramLength(ranges)
<1>1. n \in Nat /\ Duration \in Nat
  BY ProgramIsThere DEF EditAssumption
<1>2. ASSUME NEW p \in 1..n
      PROVE  LET c == SourceAt(ranges, p - 1)
             IN  /\ c \in 0..(Duration - 1)
                 /\ PresentationOf(ranges, c) = p - 1
                 /\ PresentationOf(ranges, c + 1) = p
  <2> DEFINE q == p - 1
  <2>1. q \in Nat /\ q < n /\ q <= n /\ q + 1 = p
    BY <1>1
  <2> HIDE DEF q
  <2>2. /\ SourceAt(ranges, q) \in 0..Duration /\ SourceAt(ranges, q) < Duration
        /\ PresentationOf(ranges, SourceAt(ranges, q)) = q
        /\ PresentationOf(ranges, SourceAt(ranges, q) + 1) = q + 1
    BY <1>1, <2>1, SourceIsFound
  <2>3. SourceAt(ranges, q) \in 0..(Duration - 1)
    BY <1>1, <2>2
  <2> QED
    BY <2>1, <2>2, <2>3 DEF q
<1>3. Content(ranges) = [p \in 1..n |-> SourceAt(ranges, p - 1)]
  BY DEF Content
<1>4. \A p \in 1..n : SourceAt(ranges, p - 1) \in 0..Duration
  BY <1>1, <1>2
<1> HIDE DEF n
<1>5. Content(ranges) \in Seq(0..Duration) /\ Len(Content(ranges)) = n
  BY <1>1, <1>3, <1>4
<1>6. \A p \in 1..n : Content(ranges)[p] = SourceAt(ranges, p - 1)
  BY <1>3
<1> QED
  BY <1>1, <1>2, <1>5, <1>6 DEF n

\* Any program in which the unit before position p is c has it there.
LEMMA ContentAt ==
  ASSUME EditAssumption, NEW ranges, Kept(ranges),
         NEW p \in 1..ProgramLength(ranges), NEW c \in Nat,
         PresentationOf(ranges, c) = p - 1, PresentationOf(ranges, c + 1) = p
  PROVE  Content(ranges)[p] = c
<1> DEFINE q == p - 1
<1>1. Duration \in Nat /\ ProgramLength(ranges) \in Nat
  BY ProgramIsThere DEF EditAssumption
<1>2. q \in Nat /\ q < ProgramLength(ranges) /\ q + 1 = p
  BY <1>1
<1>3. Content(ranges)[p] = SourceAt(ranges, q)
  BY DEF Content
<1> HIDE DEF q
<1>4. PresentationOf(ranges, c) = q /\ PresentationOf(ranges, c + 1) = q + 1
  BY <1>2 DEF q
<1> QED
  BY <1>1, <1>2, <1>3, <1>4, ContentIs

\* rippleDelete() takes out of the program what stands between the marks.
LEMMA RemovedContent ==
  ASSUME EditAssumption, NEW ranges, Kept(ranges), NEW next, Kept(next),
         NEW a \in 0..Duration, NEW b \in 0..Duration, a <= b,
         Lacks(next, ranges, a, b)
  PROVE  LET shown == Content(ranges)
         IN  Content(next) =
               SubSeq(shown, 1, PresentationOf(ranges, a))
                 \o SubSeq(shown, PresentationOf(ranges, b) + 1, Len(shown))
<1> DEFINE P(u) == PresentationOf(ranges, u)
           Q(u) == PresentationOf(next, u)
           start == P(a)
           end == P(b)
           n == ProgramLength(ranges)
           m == ProgramLength(next)
           shown == Content(ranges)
           then == Content(next)
<1>0. a \in Nat /\ b \in Nat /\ Duration \in Nat /\ a <= Duration /\ b <= Duration
  BY DEF EditAssumption
<1>1. /\ start \in Nat /\ end \in Nat /\ start <= end /\ end <= n
      /\ n \in Nat /\ m \in Nat
  BY <1>0, PresentationGrows, PresentationBounds DEF Kept
<1>2. \A s \in Nat : /\ s <= a => Q(s) = P(s)
                     /\ b <= s => Q(s) = P(s) - (end - start)
  <2>1. Within(ranges, 0, Duration) /\ Within(next, 0, Duration)
    BY DEF Kept
  <2>2. \A s \in Nat :
          /\ s <= a => PresentationOf(next, s) = PresentationOf(ranges, s)
          /\ b <= s => PresentationOf(next, s) =
                          PresentationOf(ranges, s)
                            - (PresentationOf(ranges, b) - PresentationOf(ranges, a))
    BY <1>0, <2>1, PresentationWithout
  <2> QED
    BY <2>2
<1>3. m = n - (end - start)
  BY <1>0, <1>2 DEF ProgramLength
<1>4. \A s, t \in Nat : s <= t => P(s) <= P(t)
  BY PresentationGrows DEF Kept
<1>5. /\ shown \in Seq(0..Duration) /\ Len(shown) = n
      /\ then \in Seq(0..Duration) /\ Len(then) = m
      /\ \A p \in 1..n : /\ shown[p] \in Nat /\ P(shown[p]) = p - 1
                         /\ P(shown[p] + 1) = p
  <2>1. \A c \in 0..(Duration - 1) : c \in Nat
    BY <1>0
  <2> QED
    BY <2>1, ContentHas
<1>6. \A p \in 1..m : \A c \in Nat : Q(c) = p - 1 /\ Q(c + 1) = p => then[p] = c
  BY ContentAt
<1> HIDE DEF P, Q, start, end, n, m, shown, then
<1>7. ASSUME NEW p \in 1..m
      PROVE  then[p] = IF p <= start THEN shown[p] ELSE shown[p + (end - start)]
  <2>1. CASE p <= start
    <3> DEFINE c == shown[p]
    <3>1. c \in Nat /\ P(c) = p - 1 /\ P(c + 1) = p
      BY <1>1, <1>5, <2>1
    <3> HIDE DEF c
    <3>2. c < a
      <4>1. a <= c => P(a) <= P(c)
        BY <1>0, <1>4, <3>1
      <4>2. P(a) = start
        BY DEF start
      <4> QED
        BY <1>0, <1>1, <2>1, <3>1, <4>1, <4>2
    <3>3. c <= a /\ c + 1 <= a /\ c + 1 \in Nat
      BY <1>0, <3>1, <3>2
    <3>4. Q(c) = p - 1 /\ Q(c + 1) = p
      BY <1>2, <3>1, <3>3
    <3> QED
      BY <1>6, <2>1, <3>1, <3>4 DEF c
  <2>2. CASE ~(p <= start)
    <3> DEFINE r == p + (end - start)
               c == shown[r]
    <3>0. r \in 1..n /\ r = p + (end - start) /\ end < r
      BY <1>1, <1>3, <2>2
    <3> HIDE DEF r
    <3>1. c \in Nat /\ P(c) = r - 1 /\ P(c + 1) = r
      BY <1>5, <3>0
    <3> HIDE DEF c
    <3>2. b <= c
      <4>1. c + 1 <= b => P(c + 1) <= P(b)
        BY <1>0, <1>4, <3>1
      <4>2. P(b) = end
        BY DEF end
      <4> QED
        BY <1>0, <1>1, <3>0, <3>1, <4>1, <4>2
    <3>3. b <= c + 1 /\ c + 1 \in Nat
      BY <1>0, <3>1, <3>2
    <3>4. Q(c) = r - 1 - (end - start) /\ Q(c + 1) = r - (end - start)
      BY <1>2, <3>1, <3>2, <3>3
    <3>5. r - 1 - (end - start) = p - 1 /\ r - (end - start) = p
      BY <1>1, <3>0
    <3>6. then[p] = c
      BY <1>6, <3>1, <3>4, <3>5
    <3> QED
      BY <2>2, <3>6 DEF c, r
  <2> QED
    BY <2>1, <2>2
<1>8. then = SubSeq(shown, 1, start) \o SubSeq(shown, end + 1, Len(shown))
  <2>1. /\ end <= Len(shown) /\ Len(then) = Len(shown) - (end - start)
        /\ \A p \in 1..Len(then) :
             then[p] = IF p <= start THEN shown[p] ELSE shown[p + (end - start)]
    BY <1>1, <1>3, <1>5, <1>7
  <2>2. shown \in Seq(0..Duration) /\ then \in Seq(0..Duration)
    BY <1>5
  <2> QED
    BY <1>1, <2>1, <2>2, LeftOut
<1> QED
  BY <1>8 DEF then, shown, start, end, P

\* trimTo() leaves of it what stands between the marks.
LEMMA TrimmedContent ==
  ASSUME EditAssumption, NEW ranges, Kept(ranges), NEW next, Kept(next),
         NEW a \in 0..Duration, NEW b \in 0..Duration, a <= b,
         HasOnly(next, ranges, a, b)
  PROVE  Content(next) = SubSeq(Content(ranges), PresentationOf(ranges, a) + 1,
                                PresentationOf(ranges, b))
<1> DEFINE P(u) == PresentationOf(ranges, u)
           Q(u) == PresentationOf(next, u)
           start == P(a)
           end == P(b)
           n == ProgramLength(ranges)
           m == ProgramLength(next)
           shown == Content(ranges)
           then == Content(next)
<1>0. a \in Nat /\ b \in Nat /\ Duration \in Nat /\ a <= Duration /\ b <= Duration
  BY DEF EditAssumption
<1>1. /\ start \in Nat /\ end \in Nat /\ start <= end /\ end <= n
      /\ n \in Nat /\ m \in Nat
  BY <1>0, PresentationGrows, PresentationBounds DEF Kept
<1>2. \A s \in Nat : /\ a <= s /\ s <= b => Q(s) = P(s) - start
                     /\ b <= s => Q(s) = end - start
  <2>1. Within(ranges, 0, Duration) /\ Within(next, 0, Duration)
    BY DEF Kept
  <2>2. \A s \in Nat :
          /\ a <= s /\ s <= b =>
               PresentationOf(next, s) =
                 PresentationOf(ranges, s) - PresentationOf(ranges, a)
          /\ b <= s => PresentationOf(next, s) =
                          PresentationOf(ranges, b) - PresentationOf(ranges, a)
    BY <1>0, <2>1, PresentationWithOnly
  <2> QED
    BY <2>2
<1>3. m = end - start
  BY <1>0, <1>2 DEF ProgramLength
<1>4. \A s, t \in Nat : s <= t => P(s) <= P(t)
  BY PresentationGrows DEF Kept
<1>5. /\ shown \in Seq(0..Duration) /\ Len(shown) = n
      /\ then \in Seq(0..Duration) /\ Len(then) = m
      /\ \A p \in 1..n : /\ shown[p] \in Nat /\ P(shown[p]) = p - 1
                         /\ P(shown[p] + 1) = p
  <2>1. \A c \in 0..(Duration - 1) : c \in Nat
    BY <1>0
  <2> QED
    BY <2>1, ContentHas
<1>6. \A p \in 1..m : \A c \in Nat : Q(c) = p - 1 /\ Q(c + 1) = p => then[p] = c
  BY ContentAt
<1> HIDE DEF P, Q, start, end, n, m, shown, then
<1>7. ASSUME NEW p \in 1..m PROVE then[p] = shown[p + start]
  <2> DEFINE r == p + start
             c == shown[r]
  <2>0. r \in 1..n /\ r = p + start /\ start < r /\ r <= end
    BY <1>1, <1>3
  <2> HIDE DEF r
  <2>1. c \in Nat /\ P(c) = r - 1 /\ P(c + 1) = r
    BY <1>5, <2>0
  <2> HIDE DEF c
  <2>2. a <= c
    <3>1. c + 1 <= a => P(c + 1) <= P(a)
      BY <1>0, <1>4, <2>1
    <3>2. P(a) = start
      BY DEF start
    <3> QED
      BY <1>0, <1>1, <2>0, <2>1, <3>1, <3>2
  <2>3. c < b
    <3>1. b <= c => P(b) <= P(c)
      BY <1>0, <1>4, <2>1
    <3>2. P(b) = end
      BY DEF end
    <3> QED
      BY <1>0, <1>1, <2>0, <2>1, <3>1, <3>2
  <2>4. a <= c + 1 /\ c + 1 <= b /\ c <= b /\ c + 1 \in Nat
    BY <1>0, <2>1, <2>2, <2>3
  <2>5. Q(c) = r - 1 - start /\ Q(c + 1) = r - start
    BY <1>2, <2>1, <2>2, <2>4
  <2>6. r - 1 - start = p - 1 /\ r - start = p
    BY <1>1, <2>0
  <2>7. then[p] = c
    BY <1>6, <2>1, <2>5, <2>6
  <2> QED
    BY <2>7 DEF c, r
<1>8. then = SubSeq(shown, start + 1, end)
  <2>1. /\ end <= Len(shown) /\ Len(then) = end - start
        /\ \A p \in 1..Len(then) : then[p] = shown[p + start]
    BY <1>1, <1>3, <1>5, <1>7
  <2>2. shown \in Seq(0..Duration) /\ then \in Seq(0..Duration)
    BY <1>5
  <2> QED
    BY <1>1, <2>1, <2>2, TakenOut
<1> QED
  BY <1>8 DEF then, shown, start, end, P

\* What the two commands make of a document, for the marks that are set.
LEMMA SelectionIsTheEdit ==
  ASSUME EditAssumption, document \in Revisions,
         inUs \in MarkPlaces, outUs \in MarkPlaces
  PROVE  SelectionIsEdited
<1> DEFINE ranges == document.ranges
           next == document'.ranges
<1>1. Kept(ranges) /\ Within(ranges, 0, Duration) /\ Duration \in Int
  BY DEF Revisions, Kept, EditAssumption
<1>2. ASSUME HasRange
      PROVE  /\ inUs \in 0..Duration /\ outUs \in 0..Duration
             /\ inUs < outUs /\ inUs <= outUs
             /\ Selected \in Clips /\ Selected.start = inUs /\ Selected.end = outUs
             /\ Selected.start < Selected.end
  BY <1>1, <1>2 DEF HasRange, MarkPlaces, Selected, Clip, Clips
<1>3. ASSUME NEW taken, Kept(taken), Replace(taken)
      PROVE  Kept(next) /\ UnitsOf(next) = UnitsOf(taken)
  <2>1. next = Merged(taken)
    BY <1>3 DEF Replace, Commit, Replaced
  <2>2. Within(taken, 0, Duration) /\ taken # <<>>
    BY <1>3 DEF Kept
  <2> HIDE DEF next
  <2> QED
    BY <1>1, <2>1, <2>2, MergedIsKept DEF Kept
<1>4. ASSUME RippleDelete
      PROVE  LET shown == Content(ranges)
             IN  Content(next) =
                   SubSeq(shown, 1, PresentationOf(ranges, inUs))
                     \o SubSeq(shown, PresentationOf(ranges, outUs) + 1, Len(shown))
  <2> DEFINE taken == Without(ranges, Selected)
  <2>1. HasRange /\ Replace(taken) /\ taken # <<>>
    BY <1>4 DEF RippleDelete, Replace
  <2>2. Kept(taken) /\ Lacks(taken, ranges, inUs, outUs)
    <3> HIDE DEF ranges
    <3> QED
      BY <1>1, <1>2, <2>1, WithoutIsKept
  <2> HIDE DEF taken
  <2>3. Kept(next) /\ Lacks(next, ranges, inUs, outUs)
    BY <1>3, <2>1, <2>2 DEF Lacks
  <2> HIDE DEF ranges, next
  <2> QED
    BY <1>1, <1>2, <2>1, <2>3, RemovedContent
<1>5. ASSUME Trim
      PROVE  Content(next) =
               SubSeq(Content(ranges), PresentationOf(ranges, inUs) + 1,
                      PresentationOf(ranges, outUs))
  <2> DEFINE taken == TrimmedTo(ranges, Selected)
  <2>1. HasRange /\ Replace(taken) /\ taken # <<>>
    BY <1>5 DEF Trim, Replace
  <2>2. Kept(taken) /\ HasOnly(taken, ranges, inUs, outUs)
    <3> HIDE DEF ranges
    <3> QED
      BY <1>1, <1>2, <2>1, TrimmedIsKept
  <2> HIDE DEF taken
  <2>3. Kept(next) /\ HasOnly(next, ranges, inUs, outUs)
    BY <1>3, <2>1, <2>2 DEF HasOnly
  <2> HIDE DEF ranges, next
  <2> QED
    BY <1>1, <1>2, <2>1, <2>3, TrimmedContent
<1> QED
  BY <1>4, <1>5 DEF SelectionIsEdited

-----------------------------------------------------------------------------
(* What a document decides                                                  *)

\* The cut between a clip and the next: the last unit and the first.
CutOf(ranges, i) == <<ranges[i].end - 1, ranges[i + 1].start>>

\* A unit is kept where a clip holds it.
LEMMA KeptUnits ==
  ASSUME NEW b, NEW ranges, Within(ranges, 0, b)
  PROVE  UNION {ranges[i].start..(ranges[i].end - 1) : i \in DOMAIN ranges} =
           UnitsOf(ranges)
<1>1. \A i \in DOMAIN ranges : ranges[i].start \in Nat /\ ranges[i].end \in Nat
  BY ClipHas
<1>2. \A i \in DOMAIN ranges : \A u :
        u \in ranges[i].start..(ranges[i].end - 1) <=>
          u \in Nat /\ ranges[i].start <= u /\ u < ranges[i].end
  BY <1>1
<1> QED
  BY <1>2 DEF UnitsOf

\* Clips and the places between them, as far as proofs about cuts need them.
LEMMA PartedHas ==
  ASSUME NEW b, NEW ranges, Within(ranges, 0, b), Parted(ranges)
  PROVE  /\ Len(ranges) \in Nat /\ DOMAIN ranges = 1..Len(ranges)
         /\ \A i \in 1..Len(ranges) :
              /\ ranges[i].start \in Nat /\ ranges[i].end \in Nat
              /\ ranges[i].start < ranges[i].end
         /\ \A i, j \in 1..Len(ranges) : i < j => ranges[i].end < ranges[j].start
<1>1. Len(ranges) \in Nat /\ DOMAIN ranges = 1..Len(ranges)
  BY DEF Within
<1> QED
  BY <1>1, ClipHas DEF Parted

\* No two cuts are the same.
LEMMA CutsDiffer ==
  ASSUME NEW b, NEW ranges, Within(ranges, 0, b), Parted(ranges),
         NEW i \in 1..(Len(ranges) - 1), NEW j \in 1..(Len(ranges) - 1),
         CutOf(ranges, i) = CutOf(ranges, j)
  PROVE  i = j
<1> DEFINE n == Len(ranges)
<1>1. /\ n \in Nat
      /\ \A k \in 1..n : /\ ranges[k].start \in Nat /\ ranges[k].end \in Nat
                         /\ ranges[k].start < ranges[k].end
      /\ \A k, l \in 1..n : k < l => ranges[k].end < ranges[l].start
  BY PartedHas
<1>2. ranges[i].end - 1 = ranges[j].end - 1
  BY DEF CutOf
<1>3. i \in 1..n /\ j \in 1..n
  BY <1>1
<1> HIDE DEF n
<1>4. ranges[i].end = ranges[j].end
  BY <1>1, <1>2, <1>3
<1>5. ~(i < j) /\ ~(j < i)
  BY <1>1, <1>3, <1>4
<1> QED
  BY <1>3, <1>5

\* Where one kept unit follows another behind a gap is where one clip ends and
\* the next begins.
LEMMA CutsAre ==
  ASSUME NEW b, NEW ranges, Within(ranges, 0, b), Parted(ranges)
  PROVE  Decisions!Cuts(UnitsOf(ranges)) =
           {CutOf(ranges, i) : i \in 1..(Len(ranges) - 1)}
<1> DEFINE n == Len(ranges)
           K == UnitsOf(ranges)
<1>1. /\ n \in Nat
      /\ \A i \in 1..n : /\ ranges[i].start \in Nat /\ ranges[i].end \in Nat
                         /\ ranges[i].start < ranges[i].end
      /\ \A i, j \in 1..n : i < j => ranges[i].end < ranges[j].start
  BY PartedHas
<1>2. \A u : u \in K <=>
        u \in Nat /\ \E i \in 1..n : ranges[i].start <= u /\ u < ranges[i].end
  BY PartedHas DEF UnitsOf
<1> HIDE DEF n, K
<1>3. ASSUME NEW i \in 1..(n - 1)
      PROVE  /\ ranges[i].end - 1 \in K /\ ranges[i + 1].start \in K
             /\ ranges[i].end < ranges[i + 1].start
             /\ \A u \in ranges[i].end..(ranges[i + 1].start - 1) : u \notin K
  <2>1. i \in 1..n /\ i + 1 \in 1..n /\ i < i + 1
    BY <1>1
  <2>2. ranges[i].end - 1 \in K /\ ranges[i + 1].start \in K
    <3>1. ranges[i].end - 1 \in Nat /\ ranges[i].start <= ranges[i].end - 1
          /\ ranges[i].end - 1 < ranges[i].end
      BY <1>1, <2>1
    <3>2. ranges[i + 1].start \in Nat /\ ranges[i + 1].start < ranges[i + 1].end
          /\ ranges[i + 1].start <= ranges[i + 1].start
      BY <1>1, <2>1
    <3> QED
      BY <1>2, <2>1, <3>1, <3>2
  <2>3. ASSUME NEW u \in ranges[i].end..(ranges[i + 1].start - 1), u \in K
        PROVE  FALSE
    <3>1. PICK k \in 1..n : ranges[k].start <= u /\ u < ranges[k].end
      BY <1>2, <2>3
    <3>2. /\ u \in Int /\ ranges[i].end <= u /\ u < ranges[i + 1].start
      BY <1>1, <2>1
    <3>3. CASE k < i
      BY <1>1, <2>1, <3>1, <3>2, <3>3
    <3>4. CASE k = i
      BY <1>1, <2>1, <3>1, <3>2, <3>4
    <3>5. CASE k = i + 1
      BY <1>1, <2>1, <3>1, <3>2, <3>5
    <3>6. CASE k > i + 1
      BY <1>1, <2>1, <3>1, <3>2, <3>6
    <3> QED
      BY <2>1, <3>3, <3>4, <3>5, <3>6
  <2> QED
    BY <1>1, <2>1, <2>2, <2>3
<1>4. ASSUME NEW x \in K, NEW y \in K,
             (x + 1)..(y - 1) # {}, (x + 1)..(y - 1) \cap K = {}
      PROVE  \E i \in 1..(n - 1) : x = ranges[i].end - 1 /\ y = ranges[i + 1].start
  <2>1. x \in Nat /\ y \in Nat /\ x + 1 <= y - 1
    BY <1>2, <1>4
  <2>2. \A u \in Int : x + 1 <= u /\ u <= y - 1 => u \notin K
    BY <1>4, <2>1
  <2>3. PICK i \in 1..n : ranges[i].start <= x /\ x < ranges[i].end
    BY <1>2
  <2>4. PICK k \in 1..n : ranges[k].start <= y /\ y < ranges[k].end
    BY <1>2
  <2>5. x = ranges[i].end - 1
    <3>1. x + 1 \notin K /\ x + 1 \in Nat
      BY <2>1, <2>2
    <3>2. ~(x + 1 < ranges[i].end)
      BY <1>1, <1>2, <2>1, <2>3, <3>1
    <3> QED
      BY <1>1, <2>1, <2>3, <3>2
  <2>6. y = ranges[k].start
    <3>1. y - 1 \notin K /\ y - 1 \in Nat
      BY <2>1, <2>2
    <3>2. ~(ranges[k].start <= y - 1)
      BY <1>1, <1>2, <2>1, <2>4, <3>1
    <3> QED
      BY <1>1, <2>1, <2>4, <3>2
  <2>7. ~(k <= i)
    <3>1. k = i => FALSE
      BY <1>1, <2>1, <2>3, <2>6
    <3>2. k < i => ranges[k].end < ranges[i].start
      BY <1>1
    <3>3. k < i => FALSE
      BY <1>1, <2>1, <2>3, <2>4, <3>2
    <3> QED
      BY <3>1, <3>3
  <2>8. i \in 1..(n - 1) /\ i + 1 \in 1..n
    BY <1>1, <2>7
  <2>9. ~(i + 1 < k)
    <3> SUFFICES ASSUME i + 1 < k PROVE FALSE
      OBVIOUS
    <3>1. /\ ranges[i].end < ranges[i + 1].start
          /\ ranges[i + 1].end < ranges[k].start
      BY <1>1, <2>8
    <3>2. ranges[i + 1].start \in K
      BY <1>3, <2>8
    <3>3. /\ ranges[i + 1].start \in Int /\ ranges[i + 1].start <= y - 1
          /\ x + 1 <= ranges[i + 1].start
      BY <1>1, <2>1, <2>5, <2>6, <2>8, <3>1
    <3> QED
      BY <2>2, <3>2, <3>3
  <2>10. k = i + 1
    BY <2>7, <2>9
  <2> QED
    BY <2>5, <2>6, <2>8, <2>10
<1>5. \A cut : cut \in Decisions!Cuts(K) <=>
        /\ cut \in K \X K
        /\ (cut[1] + 1)..(cut[2] - 1) # {}
        /\ (cut[1] + 1)..(cut[2] - 1) \cap K = {}
  BY DEF Decisions!Cuts
<1>6. ASSUME NEW cut \in Decisions!Cuts(K)
      PROVE  \E i \in 1..(n - 1) : cut = CutOf(ranges, i)
  <2>1. cut \in K \X K /\ cut = <<cut[1], cut[2]>> /\ cut[1] \in K /\ cut[2] \in K
    BY <1>5
  <2>2. PICK i \in 1..(n - 1) :
          cut[1] = ranges[i].end - 1 /\ cut[2] = ranges[i + 1].start
    BY <1>4, <1>5, <2>1
  <2> QED
    BY <2>1, <2>2 DEF CutOf
<1>7. ASSUME NEW i \in 1..(n - 1)
      PROVE  CutOf(ranges, i) \in Decisions!Cuts(K)
  <2> DEFINE x == ranges[i].end - 1
             y == ranges[i + 1].start
  <2>1. i \in 1..n /\ i + 1 \in 1..n
    BY <1>1
  <2>2. x \in K /\ y \in K /\ x + 1 = ranges[i].end /\ x + 1 <= y - 1
        /\ x \in Int /\ y \in Int
    BY <1>1, <1>3, <2>1
  <2>3. \A u \in (x + 1)..(y - 1) : u \notin K
    BY <1>3, <2>2
  <2>4. CutOf(ranges, i) = <<x, y>>
    BY DEF CutOf
  <2> HIDE DEF x, y
  <2>5. (x + 1)..(y - 1) # {}
    BY <2>2
  <2>6. <<x, y>> \in Decisions!Cuts(K)
    BY <1>5, <2>2, <2>3, <2>5
  <2> QED
    BY <2>4, <2>6
<1> QED
  BY <1>6, <1>7 DEF n, K

\* Lists of clips with gaps between them agree from the beginning on when they
\* hold the same units.
LEMMA SameBeginning ==
  ASSUME NEW b, NEW s, Within(s, 0, b), Parted(s), NEW t, Within(t, 0, b),
         Parted(t), UnitsOf(s) = UnitsOf(t),
         NEW i \in Nat, i < Len(s), i <= Len(t), \A j \in 1..i : s[j] = t[j]
  PROVE  i < Len(t) /\ t[i + 1].start <= s[i + 1].start
<1> DEFINE k == i + 1
<1>1. /\ k \in 1..Len(s) /\ Len(t) \in Nat /\ Len(s) \in Nat /\ k \in Nat
      /\ \A j \in 1..i : j \in 1..Len(s) /\ j \in 1..Len(t) /\ j < k
  BY PartedHas
<1> HIDE DEF k
<1>2. /\ \A j \in 1..Len(s) : /\ s[j].start \in Nat /\ s[j].end \in Nat
                              /\ s[j].start < s[j].end
      /\ \A j, l \in 1..Len(s) : j < l => s[j].end < s[l].start
  BY PartedHas
<1>3. /\ \A j \in 1..Len(t) : /\ t[j].start \in Nat /\ t[j].end \in Nat
                              /\ t[j].start < t[j].end
      /\ \A j, l \in 1..Len(t) : j < l => t[j].end < t[l].start
  BY PartedHas
<1>4. s[k].start \in UnitsOf(t)
  <2>1. s[k].start \in Nat /\ s[k].start <= s[k].start /\ s[k].start < s[k].end
    BY <1>1, <1>2
  <2>2. k \in DOMAIN s
    BY <1>1, PartedHas
  <2> QED
    BY <2>1, <2>2 DEF UnitsOf
<1>5. PICK l \in 1..Len(t) : t[l].start <= s[k].start /\ s[k].start < t[l].end
  BY <1>4, PartedHas DEF UnitsOf
<1>6. ~(l \in 1..i)
  <2> SUFFICES ASSUME l \in 1..i PROVE FALSE
    OBVIOUS
  <2>1. s[l] = t[l] /\ s[l].end < s[k].start
    BY <1>1, <1>2
  <2> QED
    BY <1>1, <1>2, <1>3, <1>5, <2>1
<1>7. i < l /\ k <= l /\ i < Len(t) /\ k \in 1..Len(t)
  BY <1>1, <1>5, <1>6 DEF k
<1>8. t[k].start <= t[l].start
  <2>1. CASE k = l
    BY <1>3, <1>7, <2>1
  <2>2. CASE k < l
    BY <1>3, <1>5, <1>7, <2>2
  <2> QED
    BY <1>1, <1>5, <1>7, <2>1, <2>2
<1>9. t[k].start <= s[k].start
  BY <1>1, <1>2, <1>3, <1>5, <1>7, <1>8
<1> QED
  BY <1>7, <1>9 DEF k

\* Where they begin at the same place, neither clip ends first.
LEMMA SameEnd ==
  ASSUME NEW b, NEW s, Within(s, 0, b), Parted(s), NEW t, Within(t, 0, b),
         Parted(t), UnitsOf(s) = UnitsOf(t),
         NEW k \in 1..Len(s), k \in 1..Len(t), s[k].start = t[k].start
  PROVE  t[k].end <= s[k].end
<1>1. /\ \A j \in 1..Len(s) : /\ s[j].start \in Nat /\ s[j].end \in Nat
                              /\ s[j].start < s[j].end
      /\ \A j, l \in 1..Len(s) : j < l => s[j].end < s[l].start
      /\ DOMAIN s = 1..Len(s) /\ DOMAIN t = 1..Len(t) /\ Len(s) \in Nat
  BY PartedHas
<1>2. t[k].end \in Nat
  BY PartedHas
<1> SUFFICES ASSUME s[k].end < t[k].end PROVE FALSE
  BY <1>1, <1>2
<1> DEFINE e == s[k].end
<1>3. e \in Nat /\ t[k].start <= e /\ e < t[k].end
  BY <1>1
<1>4. e \in UnitsOf(t)
  BY <1>1, <1>3 DEF UnitsOf
<1>5. PICK l \in 1..Len(s) : s[l].start <= e /\ e < s[l].end
  BY <1>1, <1>4 DEF UnitsOf
<1>6. CASE l < k
  BY <1>1, <1>5, <1>6
<1>7. CASE l = k
  BY <1>1, <1>5, <1>7
<1>8. CASE l > k
  BY <1>1, <1>5, <1>8
<1> QED
  BY <1>1, <1>6, <1>7, <1>8

LEMMA SameUnits ==
  ASSUME NEW b, NEW s, Within(s, 0, b), Parted(s), NEW t, Within(t, 0, b),
         Parted(t), UnitsOf(s) = UnitsOf(t)
  PROVE  s = t
<1>0. s \in Seq(Clips) /\ t \in Seq(Clips)
  BY DEF Within
<1>1. /\ Len(s) \in Nat /\ DOMAIN s = 1..Len(s)
      /\ Len(t) \in Nat /\ DOMAIN t = 1..Len(t)
  BY PartedHas
<1> DEFINE T == {i \in Nat : i <= Len(s) =>
                   i <= Len(t) /\ \A j \in 1..i : s[j] = t[j]}
<1>2. 0 \in T
  BY <1>1
<1>3. ASSUME NEW i \in Nat, i \in T PROVE i + 1 \in T
  <2> SUFFICES ASSUME i + 1 <= Len(s)
               PROVE  i + 1 <= Len(t) /\ \A j \in 1..(i + 1) : s[j] = t[j]
    OBVIOUS
  <2> DEFINE k == i + 1
  <2>1. i < Len(s) /\ i <= Len(t) /\ i <= Len(s) /\ \A j \in 1..i : s[j] = t[j]
    BY <1>1, <1>3
  <2>2. i < Len(t) /\ t[k].start <= s[k].start
    BY <2>1, SameBeginning
  <2>3. s[k].start <= t[k].start
    BY <2>1, <2>2, SameBeginning
  <2>4. k \in 1..Len(s) /\ k \in 1..Len(t)
    BY <1>1, <2>1, <2>2
  <2> HIDE DEF k
  <2>5. /\ s[k].start \in Nat /\ t[k].start \in Nat
        /\ s[k].end \in Nat /\ t[k].end \in Nat
        /\ s[k] \in Clips /\ t[k] \in Clips
    BY <1>1, <2>4, ClipHas
  <2>6. s[k].start = t[k].start
    BY <2>2, <2>3, <2>5
  <2>7. t[k].end <= s[k].end
    BY <2>4, <2>6, SameEnd
  <2>8. s[k].end <= t[k].end
    BY <2>4, <2>6, SameEnd
  <2>9. s[k] = t[k]
    <3>1. s[k].end = t[k].end
      BY <2>5, <2>7, <2>8
    <3> QED
      BY <2>5, <2>6, <3>1 DEF Clips
  <2>10. \A j \in 1..(i + 1) : j \in 1..i \/ j = k
    BY DEF k
  <2> QED
    BY <1>1, <2>1, <2>2, <2>9, <2>10
<1>4. Len(s) \in T
  <2> HIDE DEF T
  <2> QED
    BY <1>1, <1>2, <1>3, Induction
<1>5. Len(s) <= Len(t) /\ \A j \in 1..Len(s) : s[j] = t[j]
  BY <1>1, <1>4
<1>6. ~(Len(s) < Len(t))
  <2> SUFFICES ASSUME Len(s) < Len(t) PROVE FALSE
    OBVIOUS
  <2>1. Len(s) < Len(s)
    BY <1>1, <1>5, SameBeginning
  <2> QED
    BY <1>1, <2>1
<1> QED
  BY <1>0, <1>1, <1>5, <1>6

LEMMA SequenceIs ==
  ASSUME NEW S, NEW s \in Seq(S)
  PROVE  s \in [1..Len(s) -> S]
  OBVIOUS

\* What a revision says: its units, and of each of its cuts whether it is
\* smooth.
LEMMA RevisionSays ==
  ASSUME NEW decisions \in Revisions
  PROVE  LET ranges == decisions.ranges
             n == Len(decisions.ranges) - 1
         IN  /\ Abstract(decisions) =
                  [kept |-> UnitsOf(ranges),
                   smooth |-> {CutOf(ranges, i) :
                                 i \in {j \in 1..n : decisions.smooth[j]}}]
             /\ Within(ranges, 0, Duration) /\ Parted(ranges) /\ ranges # <<>>
             /\ Len(ranges) \in Nat \ {0} /\ DOMAIN ranges = 1..Len(ranges)
             /\ n \in Nat /\ DOMAIN decisions.smooth = 1..n
             /\ decisions.smooth \in [1..n -> BOOLEAN]
             /\ decisions = [ranges |-> ranges, smooth |-> decisions.smooth]
             /\ \A i \in 1..n : decisions.smooth[i] <=>
                                  CutOf(ranges, i) \in Abstract(decisions).smooth
<1> DEFINE ranges == decisions.ranges
           n == Len(ranges) - 1
           marks == decisions.smooth
<1>1. /\ decisions \in [ranges : Seq(Clips), smooth : Seq(BOOLEAN)]
      /\ Within(ranges, 0, Duration) /\ Parted(ranges) /\ ranges # <<>>
      /\ Len(marks) = n
  BY DEF Revisions, Kept
<1>2. Len(ranges) \in Nat \ {0} /\ DOMAIN ranges = 1..Len(ranges)
  BY <1>1
<1>3. n \in Nat /\ marks \in [1..n -> BOOLEAN] /\ DOMAIN marks = 1..n
  <2>1. marks \in Seq(BOOLEAN)
    BY <1>1
  <2> HIDE DEF marks
  <2>2. marks \in [1..Len(marks) -> BOOLEAN]
    BY <2>1, SequenceIs
  <2> QED
    BY <1>1, <1>2, <2>2
<1>4. decisions = [ranges |-> ranges, smooth |-> marks]
  BY <1>1
<1>5. Abstract(decisions) =
        [kept |-> UnitsOf(ranges),
         smooth |-> {CutOf(ranges, i) : i \in {j \in 1..n : marks[j]}}]
  <2>1. UNION {ranges[i].start..(ranges[i].end - 1) : i \in DOMAIN ranges} =
          UnitsOf(ranges)
    BY <1>1, KeptUnits
  <2> HIDE DEF ranges, marks, n
  <2> QED
    BY <1>3, <2>1 DEF Abstract, CutOf, ranges, marks
<1>6. ASSUME NEW i \in 1..n
      PROVE  marks[i] <=> CutOf(ranges, i) \in Abstract(decisions).smooth
  <2>1. \A j \in 1..n : CutOf(ranges, i) = CutOf(ranges, j) => i = j
    BY <1>1, CutsDiffer
  <2> HIDE DEF marks, ranges, n
  <2> QED
    BY <1>5, <2>1
<1> QED
  BY <1>1, <1>2, <1>3, <1>4, <1>5, <1>6

\* No two revisions say the same.
LEMMA RevisionsDiffer ==
  ASSUME NEW one \in Revisions, NEW other \in Revisions,
         Abstract(one) = Abstract(other)
  PROVE  one = other
<1> DEFINE n == Len(one.ranges) - 1
<1>1. UnitsOf(one.ranges) = UnitsOf(other.ranges)
  BY RevisionSays
<1>2. one.ranges = other.ranges
  BY <1>1, SameUnits, RevisionSays
<1>3. \A i \in 1..n : one.smooth[i] <=> other.smooth[i]
  BY <1>2, RevisionSays
<1>4. one.smooth \in [1..n -> BOOLEAN] /\ other.smooth \in [1..n -> BOOLEAN]
  BY <1>2, RevisionSays
<1> HIDE DEF n
<1>5. one.smooth = other.smooth
  <2>1. \A i \in 1..n : one.smooth[i] \in BOOLEAN /\ other.smooth[i] \in BOOLEAN
    BY <1>4
  <2>2. \A i \in 1..n : one.smooth[i] = other.smooth[i]
    BY <1>3, <2>1, Zenon
  <2>3. /\ one.smooth = [i \in 1..n |-> one.smooth[i]]
        /\ other.smooth = [i \in 1..n |-> other.smooth[i]]
    BY <1>4
  <2> QED
    BY <2>2, <2>3
<1> QED
  BY <1>2, <1>5, RevisionSays

\* The source as a whole keeps every unit.
LEMMA WholeSays ==
  ASSUME EditAssumption
  PROVE  Abstract(Whole) = Decisions!Whole
<1>1. Whole \in Revisions /\ Duration \in Nat
  BY WholeIsRevision DEF EditAssumption
<1>2. Whole.ranges = <<Clip(0, Duration)>> /\ Whole.smooth = <<>>
  BY DEF Whole
<1>3. UnitsOf(<<Clip(0, Duration)>>) = 0..(Duration - 1)
  <2>1. Clip(0, Duration).start = 0 /\ Clip(0, Duration).end = Duration
    BY DEF Clip
  <2>2. UnitsOf(<<Clip(0, Duration)>>) = {u \in Nat : 0 <= u /\ u < Duration}
    BY <2>1 DEF UnitsOf
  <2>3. \A u : u \in {v \in Nat : 0 <= v /\ v < Duration} <=> u \in 0..(Duration - 1)
    BY <1>1
  <2> QED
    BY <2>2, <2>3
<1>4. 1..(Len(Whole.ranges) - 1) = {}
  BY <1>2
<1>5. Abstract(Whole) = [kept |-> 0..(Duration - 1), smooth |-> {}]
  <2>1. Abstract(Whole) =
          [kept |-> UnitsOf(Whole.ranges),
           smooth |-> {CutOf(Whole.ranges, i) :
                         i \in {j \in 1..(Len(Whole.ranges) - 1) : Whole.smooth[j]}}]
    BY <1>1, RevisionSays
  <2>2. {j \in 1..(Len(Whole.ranges) - 1) : Whole.smooth[j]} = {}
    BY <1>4, Zenon
  <2> QED
    BY <1>2, <1>3, <2>1, <2>2
<1> QED
  BY <1>5 DEF Decisions!Whole, Decisions!Units

\* replaceRanges() keeps the kind of the cuts that are still cuts.
LEMMA ReplacedSays ==
  ASSUME EditAssumption, NEW before \in Revisions, NEW taken, Kept(taken)
  PROVE  Abstract(Replaced(before, taken)) =
           [kept |-> UnitsOf(taken),
            smooth |-> Abstract(before).smooth \cap Decisions!Cuts(UnitsOf(taken))]
<1> DEFINE next == Merged(taken)
           made == Replaced(before, taken)
           n == Len(next) - 1
           was == before.ranges
           m == Len(was) - 1
<1>1. /\ Within(next, 0, Duration) /\ next # <<>> /\ Parted(next)
      /\ UnitsOf(next) = UnitsOf(taken)
  <2>1. Within(taken, 0, Duration) /\ taken # <<>> /\ Duration \in Int
    BY DEF Kept, EditAssumption
  <2> QED
    BY <2>1, MergedIsKept
<1>2. made \in Revisions
  BY ReplacedIsRevision
<1>3. /\ made.ranges = next
      /\ made.smooth = [i \in 1..n |->
                          \E j \in DOMAIN before.smooth :
                            /\ before.smooth[j]
                            /\ was[j].end = next[i].end
                            /\ was[j + 1].start = next[i + 1].start]
  BY DEF Replaced
<1>4. Abstract(made) = [kept |-> UnitsOf(next),
                        smooth |-> {CutOf(next, i) : i \in {j \in 1..n : made.smooth[j]}}]
  <2> HIDE DEF made
  <2>1. Abstract(made) =
          [kept |-> UnitsOf(made.ranges),
           smooth |-> {CutOf(made.ranges, i) :
                         i \in {j \in 1..(Len(made.ranges) - 1) : made.smooth[j]}}]
    BY <1>2, RevisionSays
  <2>2. made.ranges = next
    BY <1>3
  <2> HIDE DEF next
  <2> QED
    BY <2>1, <2>2, Zenon DEF n
<1>5. /\ m \in Nat /\ DOMAIN before.smooth = 1..m
      /\ Within(was, 0, Duration) /\ Parted(was)
      /\ Abstract(before).smooth =
           {CutOf(was, j) : j \in {l \in 1..m : before.smooth[l]}}
  BY RevisionSays
<1>6. Decisions!Cuts(UnitsOf(next)) = {CutOf(next, i) : i \in 1..n}
  BY <1>1, CutsAre
<1>7. /\ n \in Nat
      /\ \A i \in 1..n : next[i].end \in Nat /\ next[i + 1].start \in Nat
      /\ \A j \in 1..m : was[j].end \in Nat /\ was[j + 1].start \in Nat
  <2>1. /\ Len(next) \in Nat /\ Len(next) # 0 /\ Len(was) \in Nat
        /\ \A i \in 1..Len(next) : next[i].end \in Nat /\ next[i].start \in Nat
        /\ \A j \in 1..Len(was) : was[j].end \in Nat /\ was[j].start \in Nat
    <3>1. /\ Len(next) \in Nat /\ Len(next) # 0
          /\ \A i \in 1..Len(next) : next[i].end \in Nat /\ next[i].start \in Nat
      <4> HIDE DEF next
      <4>1. Len(next) \in Nat /\ \A i \in 1..Len(next) :
                                  next[i].end \in Nat /\ next[i].start \in Nat
        BY <1>1, PartedHas
      <4>2. Len(next) # 0
        BY <1>1 DEF Within
      <4> QED
        BY <4>1, <4>2
    <3>2. /\ Len(was) \in Nat
          /\ \A j \in 1..Len(was) : was[j].end \in Nat /\ was[j].start \in Nat
      <4> HIDE DEF was
      <4> QED
        BY <1>5, PartedHas
    <3> HIDE DEF next, was
    <3> QED
      BY <3>1, <3>2
  <2>2. /\ \A i \in 1..n : i \in 1..Len(next) /\ i + 1 \in 1..Len(next)
        /\ \A j \in 1..m : j \in 1..Len(was) /\ j + 1 \in 1..Len(was)
    BY <2>1
  <2> HIDE DEF next, was
  <2> QED
    BY <2>1, <2>2
<1> HIDE DEF next, made, n, m, was
<1>8. ASSUME NEW i \in 1..n, NEW j \in 1..m
      PROVE  CutOf(next, i) = CutOf(was, j) <=>
               was[j].end = next[i].end /\ was[j + 1].start = next[i + 1].start
  <2>1. CutOf(next, i) = CutOf(was, j) <=>
          next[i].end - 1 = was[j].end - 1 /\ next[i + 1].start = was[j + 1].start
    BY DEF CutOf
  <2> QED
    BY <1>7, <2>1
<1>9. ASSUME NEW i \in 1..n
      PROVE  made.smooth[i] <=> CutOf(next, i) \in Abstract(before).smooth
  <2>1. made.smooth[i] = \E j \in 1..m : /\ before.smooth[j]
                                         /\ was[j].end = next[i].end
                                         /\ was[j + 1].start = next[i + 1].start
    BY <1>3, <1>5
  <2> QED
    BY <1>5, <1>8, <2>1
<1>10. {CutOf(next, i) : i \in {j \in 1..n : made.smooth[j]}} =
         Abstract(before).smooth \cap Decisions!Cuts(UnitsOf(next))
  BY <1>6, <1>9
<1> QED
  BY <1>1, <1>4, <1>10 DEF made

\* Another kind for one cut.
LEMMA ToggledSays ==
  ASSUME NEW decisions \in Revisions, NEW i \in DOMAIN decisions.smooth,
         [decisions EXCEPT !.smooth[i] = ~@] \in Revisions
  PROVE  LET cut == CutOf(decisions.ranges, i)
             was == Abstract(decisions)
         IN  /\ cut \in Decisions!Cuts(was.kept)
             /\ Abstract([decisions EXCEPT !.smooth[i] = ~@]) =
                  [was EXCEPT !.smooth = (@ \ {cut}) \cup ({cut} \ @)]
<1> DEFINE ranges == decisions.ranges
           n == Len(ranges) - 1
           marks == decisions.smooth
           next == [decisions EXCEPT !.smooth[i] = ~@]
           was == Abstract(decisions)
           cut == CutOf(ranges, i)
<1>1. /\ was = [kept |-> UnitsOf(ranges),
                smooth |-> {CutOf(ranges, j) : j \in {k \in 1..n : marks[k]}}]
      /\ Within(ranges, 0, Duration) /\ Parted(ranges)
      /\ DOMAIN marks = 1..n /\ marks \in [1..n -> BOOLEAN]
      /\ decisions = [ranges |-> ranges, smooth |-> marks]
  BY RevisionSays
<1>2. next.ranges = ranges /\ next.smooth = [marks EXCEPT ![i] = ~@]
  BY <1>1
<1>3. Abstract(next) =
        [kept |-> UnitsOf(ranges),
         smooth |-> {CutOf(ranges, j) : j \in {k \in 1..n : next.smooth[k]}}]
  <2>1. Abstract(next) =
          [kept |-> UnitsOf(next.ranges),
           smooth |-> {CutOf(next.ranges, j) :
                         j \in {k \in 1..(Len(next.ranges) - 1) : next.smooth[k]}}]
    <3> HIDE DEF next
    <3> QED
      BY RevisionSays DEF next
  <2> HIDE DEF next
  <2> QED
    BY <1>2, <2>1
<1>4. i \in 1..n
  BY <1>1
<1>5. cut \in Decisions!Cuts(UnitsOf(ranges))
  BY <1>1, <1>4, CutsAre
<1>6. \A j \in 1..n : CutOf(ranges, j) = cut => j = i
  BY <1>1, <1>4, CutsDiffer
<1>7. \A j \in 1..n : next.smooth[j] <=> IF j = i THEN ~marks[j] ELSE marks[j]
  BY <1>1, <1>2, <1>4
<1> HIDE DEF ranges, n, marks, next
<1> DEFINE Smooth == {CutOf(ranges, j) : j \in {k \in 1..n : marks[k]}}
           Then == {CutOf(ranges, j) : j \in {k \in 1..n : next.smooth[k]}}
<1>8. Then = (Smooth \ {cut}) \cup ({cut} \ Smooth)
  <2>1. \A j \in 1..n : CutOf(ranges, j) \in Smooth <=> marks[j]
    <3>1. \A j, k \in 1..n : CutOf(ranges, j) = CutOf(ranges, k) => j = k
      BY <1>1, CutsDiffer DEF n
    <3> QED
      BY <3>1
  <2>2. cut = CutOf(ranges, i)
    OBVIOUS
  <2>3. ASSUME NEW x \in Then PROVE x \in (Smooth \ {cut}) \cup ({cut} \ Smooth)
    <3>1. PICK j \in 1..n : x = CutOf(ranges, j) /\ next.smooth[j]
      OBVIOUS
    <3> HIDE DEF Smooth, Then
    <3>2. CASE j = i
      BY <1>4, <1>7, <2>1, <2>2, <3>1, <3>2
    <3>3. CASE j # i
      BY <1>4, <1>6, <1>7, <2>1, <2>2, <3>1, <3>3
    <3> QED
      BY <3>2, <3>3
  <2>4. ASSUME NEW x \in Smooth, x # cut PROVE x \in Then
    <3>1. PICK j \in 1..n : x = CutOf(ranges, j) /\ marks[j]
      BY <2>4
    <3>2. j # i
      BY <2>2, <2>4, <3>1
    <3> QED
      BY <1>7, <3>1, <3>2
  <2>5. ASSUME cut \notin Smooth PROVE cut \in Then
    <3>1. ~marks[i]
      BY <1>4, <2>1, <2>2, <2>5
    <3> QED
      BY <1>4, <1>7, <2>2, <3>1
  <2> HIDE DEF Smooth, Then, cut
  <2> QED
    BY <2>3, <2>4, <2>5
<1>9. was.smooth = Smooth /\ was.kept = UnitsOf(ranges)
  BY <1>1
<1>10. [was EXCEPT !.smooth = (@ \ {cut}) \cup ({cut} \ @)] =
         [kept |-> UnitsOf(ranges), smooth |-> (Smooth \ {cut}) \cup ({cut} \ Smooth)]
  <2> HIDE DEF Smooth, cut, was
  <2>1. was = [kept |-> UnitsOf(ranges), smooth |-> Smooth]
    BY <1>1 DEF Smooth
  <2> QED
    BY <2>1
<1>11. Abstract(next) = [was EXCEPT !.smooth = (@ \ {cut}) \cup ({cut} \ @)]
  <2> HIDE DEF was, cut
  <2>1. Abstract(next) = [kept |-> UnitsOf(ranges), smooth |-> Then]
    BY <1>3
  <2> HIDE DEF Smooth, Then
  <2> QED
    BY <1>8, <1>10, <2>1
<1>12. cut \in Decisions!Cuts(was.kept)
  BY <1>5, <1>9
<1> QED
  BY <1>11, <1>12 DEF next, ranges

-----------------------------------------------------------------------------
(* The line of revisions                                                    *)

\* The revisions that undo or redo leads to, in order.
Line(before, decisions, behind) == before \o <<decisions>> \o Reverse(behind)
Said(line) == [i \in DOMAIN line |-> Abstract(line[i])]

\* What a concatenation and a line of revisions hold, place by place.
Joins(S, both, s, t) ==
  /\ both \in Seq(S)
  /\ Len(both) = Len(s) + Len(t)
  /\ DOMAIN both = 1..(Len(s) + Len(t))
  /\ \A i \in 1..Len(s) : both[i] = s[i]
  /\ \A i \in (Len(s) + 1)..(Len(s) + Len(t)) : both[i] = t[i - Len(s)]

IsLine(S, line, u, d, r) ==
  /\ line \in Seq(S)
  /\ Len(line) = Len(u) + 1 + Len(r)
  /\ DOMAIN line = 1..(Len(u) + 1 + Len(r))
  /\ \A i \in 1..Len(u) : line[i] = u[i]
  /\ line[Len(u) + 1] = d
  /\ \A i \in (Len(u) + 2)..(Len(u) + 1 + Len(r)) :
       line[i] = r[Len(r) - (i - Len(u) - 1) + 1]

LEMMA BothParts ==
  ASSUME NEW S, NEW s \in Seq(S), NEW t \in Seq(S)
  PROVE  Joins(S, s \o t, s, t)
  BY DEF Joins

LEMMA LineIs ==
  ASSUME NEW S, NEW u \in Seq(S), NEW d \in S, NEW r \in Seq(S)
  PROVE  IsLine(S, Line(u, d, r), u, d, r)
<1> DEFINE back == Reverse(r)
           here == u \o <<d>>
<1>1. /\ Len(u) \in Nat /\ Len(r) \in Nat
      /\ back \in Seq(S) /\ Len(back) = Len(r)
      /\ \A i \in 1..Len(r) : back[i] = r[Len(r) - i + 1]
  <2>1. \A i \in 1..Len(r) : Len(r) - i + 1 \in 1..Len(r)
    OBVIOUS
  <2>2. \A i \in 1..Len(r) : r[Len(r) - i + 1] \in S
    BY <2>1
  <2>3. back = [i \in 1..Len(r) |-> r[Len(r) - i + 1]]
    BY DEF Reverse
  <2> HIDE DEF back
  <2>4. back \in [1..Len(r) -> S]
    BY <2>2, <2>3
  <2> QED
    BY <2>3, <2>4
<1>2. /\ here \in Seq(S) /\ Len(here) = Len(u) + 1
      /\ \A i \in 1..Len(u) : here[i] = u[i]
      /\ here[Len(u) + 1] = d
  OBVIOUS
<1>3. Line(u, d, r) = here \o back
  BY DEF Line
<1> HIDE DEF back, here
<1>4. /\ here \o back \in Seq(S) /\ Len(here \o back) = Len(u) + 1 + Len(r)
      /\ DOMAIN (here \o back) = 1..(Len(u) + 1 + Len(r))
      /\ \A i \in 1..Len(here) : (here \o back)[i] = here[i]
      /\ \A i \in (Len(here) + 1)..(Len(here) + Len(back)) :
           (here \o back)[i] = back[i - Len(here)]
  <2> DEFINE both == here \o back
  <2>1. /\ both \in Seq(S) /\ Len(both) = Len(here) + Len(back)
        /\ DOMAIN both = 1..(Len(here) + Len(back))
        /\ \A i \in 1..Len(here) : both[i] = here[i]
        /\ \A i \in (Len(here) + 1)..(Len(here) + Len(back)) :
             both[i] = back[i - Len(here)]
    <3>1. Joins(S, both, here, back)
      BY <1>1, <1>2, BothParts
    <3> QED
      BY <3>1 DEF Joins
  <2> HIDE DEF both
  <2>2. Len(here) + Len(back) = Len(u) + 1 + Len(r)
    BY <1>1, <1>2
  <2>3. both \in Seq(S) /\ Len(both) = Len(u) + 1 + Len(r)
        /\ DOMAIN both = 1..(Len(u) + 1 + Len(r))
    BY <2>1, <2>2
  <2> QED
    BY <2>1, <2>3 DEF both
<1>5. \A i \in (Len(u) + 2)..(Len(u) + 1 + Len(r)) :
        (here \o back)[i] = r[Len(r) - (i - Len(u) - 1) + 1]
  <2> SUFFICES ASSUME NEW i \in (Len(u) + 2)..(Len(u) + 1 + Len(r))
               PROVE  (here \o back)[i] = r[Len(r) - (i - Len(u) - 1) + 1]
    OBVIOUS
  <2>1. i - Len(u) - 1 \in 1..Len(r) /\ i - Len(here) = i - Len(u) - 1
        /\ i \in (Len(here) + 1)..(Len(here) + Len(back))
    BY <1>1, <1>2
  <2> QED
    BY <1>1, <1>4, <2>1
<1>6. /\ \A i \in 1..Len(u) : (here \o back)[i] = u[i]
      /\ (here \o back)[Len(u) + 1] = d
  <2>1. Len(u) + 1 \in 1..Len(here) /\ \A i \in 1..Len(u) : i \in 1..Len(here)
    BY <1>1, <1>2
  <2> QED
    BY <1>2, <1>4, <2>1
<1> QED
  BY <1>3, <1>4, <1>5, <1>6 DEF IsLine

\* One step along the line leaves it as it is: what was the current revision is
\* the first to redo, or the other way round.
LEMMA LineMoves ==
  ASSUME NEW S, NEW u \in Seq(S), NEW c \in S, NEW d \in S, NEW r \in Seq(S)
  PROVE  Line(u, c, Append(r, d)) = Line(Append(u, c), d, r)
<1> DEFINE v == Append(u, c)
           t == Append(r, d)
           one == Line(u, c, t)
           other == Line(v, d, r)
           m == Len(u)
           n == Len(r)
<1>1. /\ m \in Nat /\ n \in Nat
      /\ v \in Seq(S) /\ Len(v) = m + 1 /\ v[m + 1] = c
      /\ \A i \in 1..m : v[i] = u[i]
      /\ t \in Seq(S) /\ Len(t) = n + 1 /\ t[n + 1] = d
      /\ \A i \in 1..n : t[i] = r[i]
  OBVIOUS
<1> HIDE DEF v, t
<1>2. /\ one \in Seq(S) /\ Len(one) = m + n + 2
      /\ \A i \in 1..m : one[i] = u[i]
      /\ one[m + 1] = c
      /\ \A i \in (m + 2)..(m + n + 2) : one[i] = t[n + 1 - (i - m - 1) + 1]
  <2>1. /\ one \in Seq(S) /\ Len(one) = m + 1 + Len(t)
        /\ \A i \in 1..m : one[i] = u[i]
        /\ one[m + 1] = c
        /\ \A i \in (m + 2)..(m + 1 + Len(t)) : one[i] = t[Len(t) - (i - m - 1) + 1]
    <3>1. IsLine(S, one, u, c, t)
      BY <1>1, LineIs
    <3> HIDE DEF one
    <3> QED
      BY <3>1 DEF IsLine
  <2> HIDE DEF one, m, n
  <2>2. m + 1 + Len(t) = m + n + 2
    BY <1>1
  <2>3. Len(t) = n + 1
    BY <1>1
  <2>4. \A i \in (m + 2)..(m + n + 2) : one[i] = t[n + 1 - (i - m - 1) + 1]
    <3> HIDE DEF one
    <3>1. \A i \in (m + 2)..(m + n + 2) : i \in (m + 2)..(m + 1 + Len(t))
      BY <2>2
    <3>2. \A i \in (m + 2)..(m + n + 2) :
            Len(t) - (i - m - 1) + 1 = n + 1 - (i - m - 1) + 1
      BY <1>1, <2>3
    <3>3. \A i \in (m + 2)..(m + n + 2) : one[i] = t[Len(t) - (i - m - 1) + 1]
      BY <2>1, <3>1
    <3> QED
      BY <3>2, <3>3
  <2> QED
    BY <2>1, <2>2, <2>4
<1>3. /\ other \in Seq(S) /\ Len(other) = m + n + 2
      /\ \A i \in 1..(m + 1) : other[i] = v[i]
      /\ other[m + 2] = d
      /\ \A i \in (m + 3)..(m + n + 2) : other[i] = r[n - (i - m - 2) + 1]
  <2>1. /\ other \in Seq(S) /\ Len(other) = Len(v) + 1 + n
        /\ \A i \in 1..Len(v) : other[i] = v[i]
        /\ other[Len(v) + 1] = d
        /\ \A i \in (Len(v) + 2)..(Len(v) + 1 + n) :
             other[i] = r[n - (i - Len(v) - 1) + 1]
    <3>1. IsLine(S, other, v, d, r)
      BY <1>1, LineIs
    <3> HIDE DEF other
    <3> QED
      BY <3>1 DEF IsLine
  <2> HIDE DEF other, m, n
  <2>2. Len(v) + 1 + n = m + n + 2 /\ Len(v) = m + 1 /\ Len(v) + 1 = m + 2
        /\ Len(v) + 2 = m + 3
    BY <1>1
  <2>3. \A i \in (m + 3)..(m + n + 2) : i - Len(v) - 1 = i - m - 2
    BY <1>1
  <2> QED
    BY <2>1, <2>2, <2>3
<1> HIDE DEF one, other, m, n
<1>4. \A i \in 1..(m + n + 2) : one[i] = other[i]
  <2> SUFFICES ASSUME NEW i \in 1..(m + n + 2) PROVE one[i] = other[i]
    OBVIOUS
  <2>1. CASE i \in 1..m
    BY <1>1, <1>2, <1>3, <2>1
  <2>2. CASE i = m + 1
    BY <1>1, <1>2, <1>3, <2>2
  <2>3. CASE i = m + 2
    BY <1>1, <1>2, <1>3, <2>3
  <2>4. CASE i \in (m + 3)..(m + n + 2)
    <3>1. n + 1 - (i - m - 1) + 1 = n - (i - m - 2) + 1
          /\ n - (i - m - 2) + 1 \in 1..n /\ i \in (m + 2)..(m + n + 2)
      BY <1>1, <2>4
    <3> QED
      BY <1>1, <1>2, <1>3, <2>4, <3>1
  <2>5. i \in 1..m \/ i = m + 1 \/ i = m + 2 \/ i \in (m + 3)..(m + n + 2)
    BY <1>1
  <2> QED
    BY <2>1, <2>2, <2>3, <2>4, <2>5
<1>5. one = other
  BY <1>2, <1>3, <1>4
<1> QED
  BY <1>5 DEF one, other, v, t

\* What a line of revisions says.
Sayings == {Abstract(decisions) : decisions \in Revisions}
Tells(said, u, d, r) ==
  /\ said \in Seq(Sayings)
  /\ Len(said) = Len(u) + 1 + Len(r)
  /\ DOMAIN said = 1..(Len(u) + 1 + Len(r))
  /\ \A i \in 1..Len(u) : said[i] = Abstract(u[i])
  /\ said[Len(u) + 1] = Abstract(d)

\* What undo and redo lead to is said by the revisions in their order.
LEMMA SaidIs ==
  ASSUME NEW u \in Seq(Revisions), NEW d \in Revisions, NEW r \in Seq(Revisions)
  PROVE  Tells(Said(Line(u, d, r)), u, d, r)
<1> DEFINE line == Line(u, d, r)
           n == Len(u) + 1 + Len(r)
           said == Said(line)
<1>1. /\ line \in Seq(Revisions) /\ Len(u) \in Nat /\ Len(r) \in Nat
      /\ DOMAIN line = 1..n /\ Len(line) = n
      /\ \A i \in 1..Len(u) : line[i] = u[i]
      /\ line[Len(u) + 1] = d
  <2>1. IsLine(Revisions, line, u, d, r)
    BY LineIs
  <2>2. Len(u) \in Nat /\ Len(r) \in Nat
    OBVIOUS
  <2> HIDE DEF line
  <2> QED
    BY <2>1, <2>2 DEF IsLine
<1>2. n \in Nat /\ Len(u) + 1 \in 1..n /\ \A i \in 1..Len(u) : i \in 1..n
  BY <1>1
<1> HIDE DEF line
<1>3. \A i \in 1..n : line[i] \in Revisions
  <2> HIDE DEF n
  <2>1. line \in Seq(Revisions) /\ Len(line) = n
    BY <1>1
  <2> QED
    BY <2>1
<1> HIDE DEF n
<1>4. said = [i \in 1..n |-> Abstract(line[i])]
  BY <1>1 DEF Said
<1>5. said \in Seq(Sayings) /\ Len(said) = n
  <2>1. \A i \in 1..n : Abstract(line[i]) \in Sayings
    BY <1>3 DEF Sayings
  <2>2. said \in [1..n -> Sayings]
    BY <1>4, <2>1
  <2> QED
    BY <1>2, <2>2
<1>6. /\ \A i \in 1..Len(u) : said[i] = Abstract(u[i])
      /\ said[Len(u) + 1] = Abstract(d)
  BY <1>1, <1>2, <1>4
<1> HIDE DEF said
<1>7. DOMAIN said = 1..n
  BY <1>4 DEF said
<1> QED
  BY <1>5, <1>6, <1>7 DEF Tells, n, said, line

\* A decision takes the place of what was undone.
LEMMA SaidNext ==
  ASSUME NEW u \in Seq(Revisions), NEW d \in Revisions, NEW r \in Seq(Revisions),
         NEW next \in Revisions
  PROVE  Said(Line(Append(u, d), next, <<>>)) =
           Append(SubSeq(Said(Line(u, d, r)), 1, Len(u) + 1), Abstract(next))
<1> DEFINE v == Append(u, d)
           was == Said(Line(u, d, r))
           now == Said(Line(v, next, <<>>))
           n == Len(u)
           front == SubSeq(was, 1, n + 1)
           then == Append(front, Abstract(next))
<1>1. /\ v \in Seq(Revisions) /\ Len(v) = n + 1 /\ n \in Nat /\ v[n + 1] = d
      /\ \A i \in 1..n : v[i] = u[i]
      /\ <<>> \in Seq(Revisions) /\ Len(<<>>) = 0
  OBVIOUS
<1>2. /\ was \in Seq(Sayings) /\ Len(was) = n + 1 + Len(r) /\ Len(r) \in Nat
      /\ \A i \in 1..n : was[i] = Abstract(u[i])
      /\ was[n + 1] = Abstract(d)
  <2>1. Tells(was, u, d, r)
    BY SaidIs
  <2> HIDE DEF was
  <2> QED
    BY <2>1 DEF Tells
<1> HIDE DEF v
<1>3. /\ now \in Seq(Sayings) /\ Len(now) = n + 2
      /\ \A i \in 1..(n + 1) : now[i] = Abstract(v[i])
      /\ now[n + 2] = Abstract(next)
  <2>1. /\ now \in Seq(Sayings) /\ Len(now) = Len(v) + 1 + Len(<<>>)
        /\ \A i \in 1..Len(v) : now[i] = Abstract(v[i])
        /\ now[Len(v) + 1] = Abstract(next)
    <3>1. Tells(now, v, next, <<>>)
      BY <1>1, SaidIs
    <3> HIDE DEF now
    <3> QED
      BY <3>1 DEF Tells
  <2> HIDE DEF now, n
  <2>2. Len(v) + 1 + Len(<<>>) = n + 2 /\ Len(v) + 1 = n + 2 /\ Len(v) = n + 1
    BY <1>1
  <2> QED
    BY <2>1, <2>2
<1>4. Abstract(next) \in Sayings
  BY DEF Sayings
<1> HIDE DEF was, now, n
<1>5. /\ front \in Seq(Sayings) /\ Len(front) = n + 1
      /\ \A i \in 1..(n + 1) : front[i] = was[i]
  BY <1>1, <1>2
<1> HIDE DEF front
<1>6. /\ then \in Seq(Sayings) /\ Len(then) = n + 2 /\ then[n + 2] = Abstract(next)
      /\ \A i \in 1..(n + 1) : then[i] = front[i]
  BY <1>1, <1>4, <1>5
<1> HIDE DEF then
<1>7. \A i \in 1..(n + 2) : now[i] = then[i]
  <2> SUFFICES ASSUME NEW i \in 1..(n + 2) PROVE now[i] = then[i]
    OBVIOUS
  <2>1. CASE i \in 1..n
    BY <1>1, <1>2, <1>3, <1>5, <1>6, <2>1
  <2>2. CASE i = n + 1
    BY <1>1, <1>2, <1>3, <1>5, <1>6, <2>2
  <2>3. CASE i = n + 2
    BY <1>3, <1>6, <2>3
  <2> QED
    BY <1>1, <2>1, <2>2, <2>3
<1>8. now = then
  BY <1>1, <1>3, <1>6, <1>7
<1> QED
  BY <1>8 DEF now, then, front, was, v, n

-----------------------------------------------------------------------------
(* The player's queue                                                       *)

\* A sequence without its last, without its first, and with one more.
LEMMA QueueEnds ==
  ASSUME NEW S, NEW q \in Seq(S), q # <<>>
  PROVE  /\ Len(q) \in Nat \ {0} /\ DOMAIN q = 1..Len(q)
         /\ Last(q) = q[Len(q)] /\ Last(q) \in S
         /\ Front(q) \in Seq(S) /\ Len(Front(q)) = Len(q) - 1
         /\ \A i \in 1..(Len(q) - 1) : Front(q)[i] = q[i]
         /\ Tail(q) \in Seq(S) /\ Len(Tail(q)) = Len(q) - 1
         /\ \A i \in 1..(Len(q) - 1) : Tail(q)[i] = q[i + 1]
         /\ Head(q) = q[1] /\ Head(q) \in S
<1>1. Len(q) \in Nat \ {0} /\ DOMAIN q = 1..Len(q)
  OBVIOUS
<1>2. Last(q) = q[Len(q)] /\ Last(q) \in S
  BY <1>1 DEF Last
<1>3. Front(q) = SubSeq(q, 1, Len(q) - 1)
  BY DEF Front
<1>4. /\ Front(q) \in Seq(S) /\ Len(Front(q)) = Len(q) - 1
      /\ \A i \in 1..(Len(q) - 1) : Front(q)[i] = q[i]
  <2>1. \A i \in 1..(Len(q) - 1) : q[i] \in S
    BY <1>1
  <2> QED
    BY <1>1, <1>3, <2>1
<1>5. /\ Tail(q) \in Seq(S) /\ Len(Tail(q)) = Len(q) - 1
      /\ \A i \in 1..(Len(q) - 1) : Tail(q)[i] = q[i + 1]
  BY <1>1
<1>6. Head(q) = q[1] /\ Head(q) \in S
  BY <1>1
<1> QED
  BY <1>1, <1>2, <1>4, <1>5, <1>6

LEMMA OneMore ==
  ASSUME NEW S, NEW q \in Seq(S), NEW e \in S
  PROVE  /\ Append(q, e) \in Seq(S) /\ Append(q, e) # <<>>
         /\ Len(q) \in Nat /\ Len(Append(q, e)) = Len(q) + 1
         /\ DOMAIN Append(q, e) = 1..(Len(q) + 1)
         /\ \A i \in 1..Len(q) : Append(q, e)[i] = q[i]
         /\ Append(q, e)[Len(q) + 1] = e
  OBVIOUS

\* A sequence overtakes whatever waits before it.
LEMMA SequenceOvertakes ==
  ASSUME NEW bound, NEW q \in Seq(Events), NEW e \in Events,
         e.type = "SetSequence"
  PROVE  Follows(e.to, bound, Append(q, e))
<1> DEFINE r == Append(q, e)
           n == Len(q)
<1>1. /\ r # <<>> /\ n \in Nat /\ Len(r) = n + 1 /\ DOMAIN r = 1..(n + 1)
      /\ r[n + 1] = e
  BY OneMore
<1> HIDE DEF r
<1>2. ASSUME NEW i \in DOMAIN r
      PROVE  \/ Takes(bound, r, i)
             \/ \E j \in DOMAIN r : i < j /\ r[j].type = "SetSequence"
  <2>1. CASE i = n + 1
    BY <1>1, <2>1 DEF Takes
  <2>2. CASE i # n + 1
    BY <1>1, <2>2
  <2> QED
    BY <2>1, <2>2
<1>3. Follows(e.to, bound, r)
  BY <1>1, <1>2 DEF Follows
<1> QED
  BY <1>3 DEF r

\* New kinds of cuts are taken behind their own document's clips, which may
\* have been projected by the last event, in whose place they then come, too.
LEMMA KindsAreTaken ==
  ASSUME EditAssumption, NEW decisions \in Revisions, NEW next \in Revisions,
         next.ranges = decisions.ranges, NEW bound,
         bound = decisions \/ (bound # Whole /\ bound.ranges = decisions.ranges)
  PROVE  bound = next \/ (bound # Whole /\ bound.ranges = next.ranges)
  BY WholeIsRevision

LEMMA CompositionFollows ==
  ASSUME EditAssumption, NEW decisions \in Revisions, NEW bound,
         NEW q \in Seq(Events), Follows(decisions, bound, q),
         NEW e \in Events, e.type = "UpdateComposition",
         e.to.ranges = decisions.ranges
  PROVE  Follows(e.to, bound, Append(q, e))
<1> DEFINE r == Append(q, e)
           n == Len(q)
<1>1. /\ r # <<>> /\ n \in Nat /\ Len(r) = n + 1 /\ DOMAIN r = 1..(n + 1)
      /\ r[n + 1] = e /\ \A i \in 1..n : r[i] = q[i]
      /\ DOMAIN q = 1..n
  BY OneMore
<1>2. e.to \in Revisions
  BY DEF Events
<1> HIDE DEF r
<1>3. Bound(bound, r, n + 1) = decisions
  <2>1. CASE q = <<>>
    BY <1>1, <2>1 DEF Bound, Follows
  <2>2. CASE q # <<>>
    <3>1. n \in 1..n
      BY <1>1, <2>2
    <3> QED
      BY <1>1, <2>2, <3>1 DEF Bound, Follows
  <2> QED
    BY <2>1, <2>2
<1>4. Takes(bound, r, n + 1)
  BY <1>1, <1>2, <1>3, KindsAreTaken DEF Takes
<1>5. ASSUME NEW i \in 1..n
      PROVE  \/ Takes(bound, r, i)
             \/ \E j \in DOMAIN r : i < j /\ r[j].type = "SetSequence"
  <2>1. \/ Takes(bound, q, i)
        \/ \E j \in DOMAIN q : i < j /\ q[j].type = "SetSequence"
    BY <1>1 DEF Follows
  <2>2. Bound(bound, r, i) = Bound(bound, q, i) /\ r[i] = q[i]
    BY <1>1 DEF Bound
  <2>3. CASE Takes(bound, q, i)
    BY <2>2, <2>3 DEF Takes
  <2>4. CASE \E j \in DOMAIN q : i < j /\ q[j].type = "SetSequence"
    BY <1>1, <2>4
  <2> QED
    BY <2>1, <2>3, <2>4
<1>6. Follows(e.to, bound, r)
  <2>1. ASSUME NEW i \in DOMAIN r
        PROVE  \/ Takes(bound, r, i)
               \/ \E j \in DOMAIN r : i < j /\ r[j].type = "SetSequence"
    <3>1. i = n + 1 \/ i \in 1..n
      BY <1>1
    <3> QED
      BY <1>4, <1>5, <3>1
  <2> QED
    BY <1>1, <2>1 DEF Follows
<1> QED
  BY <1>6 DEF r

LEMMA CompositionReplaces ==
  ASSUME EditAssumption, NEW decisions \in Revisions, NEW bound,
         NEW q \in Seq(Events), Follows(decisions, bound, q),
         q # <<>>, Last(q).type = "UpdateComposition",
         NEW e \in Events, e.type = "UpdateComposition",
         e.to.ranges = decisions.ranges
  PROVE  Follows(e.to, bound, Append(Front(q), e))
<1> DEFINE r == Append(Front(q), e)
           n == Len(q)
<1>1. /\ n \in Nat \ {0} /\ DOMAIN q = 1..n /\ q[n] = Last(q)
      /\ Front(q) \in Seq(Events) /\ Len(Front(q)) = n - 1
      /\ \A i \in 1..(n - 1) : Front(q)[i] = q[i]
  BY QueueEnds
<1>2. /\ r # <<>> /\ Len(r) = n /\ DOMAIN r = 1..n
      /\ r[n] = e /\ \A i \in 1..(n - 1) : r[i] = q[i]
  <2> DEFINE front == Front(q)
  <2>1. front \in Seq(Events) /\ Len(front) = n - 1 /\ r = Append(front, e)
    BY <1>1
  <2> HIDE DEF front, r, n
  <2>2. /\ r # <<>> /\ Len(r) = (n - 1) + 1 /\ DOMAIN r = 1..((n - 1) + 1)
        /\ r[(n - 1) + 1] = e /\ \A i \in 1..(n - 1) : r[i] = front[i]
    BY <2>1, OneMore
  <2>3. (n - 1) + 1 = n
    BY <1>1
  <2> QED
    BY <1>1, <2>2, <2>3 DEF front
<1>3. e.to \in Revisions
  BY DEF Events
<1> HIDE DEF r
<1>4. \A i \in 1..n : Bound(bound, r, i) = Bound(bound, q, i)
  BY <1>1, <1>2 DEF Bound
<1>5. q[n].to = decisions /\ q[n].type = "UpdateComposition"
  BY <1>1 DEF Follows
<1>6. Takes(bound, q, n)
  BY <1>1 DEF Follows
<1>7. Takes(bound, r, n)
  <2>1. \/ Bound(bound, q, n) = decisions
        \/ Bound(bound, q, n) # Whole /\ Bound(bound, q, n).ranges = decisions.ranges
    BY <1>5, <1>6 DEF Takes
  <2>2. Bound(bound, r, n) = Bound(bound, q, n)
    BY <1>1, <1>4
  <2>3. \/ Bound(bound, r, n) = e.to
        \/ Bound(bound, r, n) # Whole /\ Bound(bound, r, n).ranges = e.to.ranges
    BY <1>3, <2>1, <2>2, KindsAreTaken
  <2> QED
    BY <1>2, <2>3 DEF Takes
<1>8. ASSUME NEW i \in 1..(n - 1)
      PROVE  \/ Takes(bound, r, i)
             \/ \E j \in DOMAIN r : i < j /\ r[j].type = "SetSequence"
  <2>1. \/ Takes(bound, q, i)
        \/ \E j \in DOMAIN q : i < j /\ q[j].type = "SetSequence"
    BY <1>1 DEF Follows
  <2>2. Bound(bound, r, i) = Bound(bound, q, i) /\ r[i] = q[i]
    <3>1. i \in 1..n
      BY <1>1
    <3> QED
      BY <1>2, <1>4, <3>1
  <2>3. CASE Takes(bound, q, i)
    BY <2>2, <2>3 DEF Takes
  <2>4. CASE \E j \in DOMAIN q : i < j /\ q[j].type = "SetSequence"
    <3>1. PICK j \in 1..n : i < j /\ q[j].type = "SetSequence"
      BY <1>1, <2>4
    <3>2. j # n
      BY <1>5, <3>1
    <3>3. j \in 1..(n - 1)
      <4>1. n \in Nat \ {0}
        BY <1>1
      <4> HIDE DEF n
      <4> QED
        BY <3>2, <4>1
    <3> QED
      BY <1>1, <1>2, <3>1, <3>3
  <2> QED
    BY <2>1, <2>3, <2>4
<1>9. Follows(e.to, bound, r)
  <2>1. ASSUME NEW i \in DOMAIN r
        PROVE  \/ Takes(bound, r, i)
               \/ \E j \in DOMAIN r : i < j /\ r[j].type = "SetSequence"
    <3>1. i = n \/ i \in 1..(n - 1)
      BY <1>1, <1>2
    <3> QED
      BY <1>7, <1>8, <3>1
  <2> QED
    BY <1>2, <2>1 DEF Follows
<1> QED
  BY <1>9 DEF r

\* The player comes to the first event.
LEMMA HandledFollows ==
  ASSUME NEW decisions, NEW bound, NEW q \in Seq(Events), q # <<>>,
         Follows(decisions, bound, q), NEW now,
         Takes(bound, q, 1) => now = q[1].to
  PROVE  Follows(decisions, now, Tail(q))
<1> DEFINE r == Tail(q)
           n == Len(q)
<1>1. /\ n \in Nat \ {0} /\ DOMAIN q = 1..n /\ r \in Seq(Events)
      /\ Len(r) = n - 1 /\ \A i \in 1..(n - 1) : r[i] = q[i + 1]
  BY QueueEnds
<1> HIDE DEF r
<1>2. DOMAIN r = 1..(n - 1) /\ (r = <<>> <=> n = 1)
  <2>1. DOMAIN r = 1..Len(r) /\ (r = <<>> <=> Len(r) = 0)
    BY <1>1
  <2> QED
    BY <1>1, <2>1
<1>3. /\ decisions = q[n].to
      /\ \A i \in 1..n : \/ Takes(bound, q, i)
                         \/ \E j \in 1..n : i < j /\ q[j].type = "SetSequence"
  BY <1>1 DEF Follows
<1>4. decisions = IF r = <<>> THEN now ELSE r[Len(r)].to
  <2>1. CASE n = 1
    <3>1. Takes(bound, q, 1)
      BY <1>3, <2>1
    <3> QED
      BY <1>2, <1>3, <2>1, <3>1
  <2>2. CASE n # 1
    <3>1. n - 1 \in 1..(n - 1) /\ (n - 1) + 1 = n
      BY <1>1, <2>2
    <3>2. r[n - 1] = q[n]
      BY <1>1, <3>1
    <3> QED
      BY <1>1, <1>2, <1>3, <2>2, <3>2
  <2> QED
    BY <2>1, <2>2
<1>5. \A i \in 1..(n - 1) : (\E j \in 1..n : i + 1 < j /\ q[j].type = "SetSequence")
        => \E j \in DOMAIN r : i < j /\ r[j].type = "SetSequence"
  <2>1. ASSUME NEW i \in 1..(n - 1), NEW j \in 1..n, i + 1 < j,
               q[j].type = "SetSequence"
        PROVE  \E k \in DOMAIN r : i < k /\ r[k].type = "SetSequence"
    <3>1. j - 1 \in 1..(n - 1) /\ i < j - 1 /\ (j - 1) + 1 = j
      BY <1>1, <2>1
    <3>2. r[j - 1] = q[j]
      BY <1>1, <3>1
    <3> QED
      BY <1>2, <2>1, <3>1, <3>2
  <2> QED
    BY <2>1
<1>6. ASSUME NEW i \in 1..(n - 1)
      PROVE  \/ Takes(now, r, i)
             \/ \E j \in DOMAIN r : i < j /\ r[j].type = "SetSequence"
  <2>0. i + 1 \in 1..n /\ i + 1 # 1 /\ i \in Nat
    BY <1>1
  <2>1. \/ Takes(bound, q, i + 1)
        \/ \E j \in 1..n : i + 1 < j /\ q[j].type = "SetSequence"
    BY <1>3, <2>0
  <2>2. CASE Takes(bound, q, i + 1)
    <3>1. r[i] = q[i + 1] /\ Bound(bound, q, i + 1) = q[i].to
      BY <1>1, <2>0 DEF Bound
    <3>2. CASE i # 1
      <4>1. i - 1 \in 1..(n - 1) /\ (i - 1) + 1 = i
        BY <1>1, <2>0, <3>2
      <4>2. r[i - 1] = q[i]
        BY <1>1, <4>1
      <4>3. Bound(now, r, i) = q[i].to
        BY <3>2, <4>2 DEF Bound
      <4> QED
        BY <2>2, <3>1, <4>3 DEF Takes
    <3>3. CASE i = 1 /\ Takes(bound, q, 1)
      <4>1. Bound(now, r, i) = q[i].to
        BY <3>3 DEF Bound
      <4> QED
        BY <2>2, <3>1, <4>1 DEF Takes
    <3>4. CASE i = 1 /\ ~Takes(bound, q, 1)
      <4>1. PICK j \in 1..n : 1 < j /\ q[j].type = "SetSequence"
        BY <1>1, <1>3, <3>4
      <4>2. CASE j = 2
        BY <3>1, <3>4, <4>1, <4>2 DEF Takes
      <4>3. CASE j # 2
        <5>1. i + 1 < j
          BY <3>4, <4>1, <4>3
        <5> QED
          BY <1>5, <4>1, <5>1
      <4> QED
        BY <4>2, <4>3
    <3> QED
      BY <3>2, <3>3, <3>4
  <2>3. CASE \E j \in 1..n : i + 1 < j /\ q[j].type = "SetSequence"
    BY <1>5, <2>3
  <2> QED
    BY <2>1, <2>2, <2>3
<1>7. Follows(decisions, now, r)
  BY <1>2, <1>4, <1>6 DEF Follows
<1> QED
  BY <1>7 DEF r

-----------------------------------------------------------------------------
(* The steps                                                                *)

LEMMA DocumentIsKept ==
  ASSUME TypeOK
  PROVE  /\ Kept(document.ranges) /\ Kept(program.ranges)
         /\ Parted(document.ranges)
         /\ inUs \in MarkPlaces /\ outUs \in MarkPlaces
         /\ document.ranges \in Seq(Clips)
         /\ document.smooth \in Seq(BOOLEAN)
         /\ Len(document.smooth) = Len(document.ranges) - 1
         /\ document \in [ranges : Seq(Clips), smooth : Seq(BOOLEAN)]
<1>1. document \in Revisions /\ program \in Revisions
  BY DEF TypeOK
<1> QED
  BY <1>1 DEF Revisions, TypeOK

\* A step that puts the marks somewhere and does nothing else.
LEMMA MarkKeeps ==
  ASSUME IInv, active, NEW in \in MarkPlaces, NEW out \in MarkPlaces, Mark(in, out),
         in # None /\ out # None => Apart(in, out)
  PROVE  IInv'
<1>1. /\ inUs' = in /\ outUs' = out
      /\ UNCHANGED <<document, undo, redo, exported, active, prompt, job,
                     program, queue, accepted, outdated>>
  BY DEF Mark, documentVars, playerVars
<1>2. TypeOK'
  BY <1>1 DEF IInv, TypeOK
<1>3. HandlesDoNotCross'
  BY <1>1 DEF HandlesDoNotCross, Apart
<1>4. PreviewInv'
  BY <1>1 DEF IInv, PreviewInv
<1> QED
  BY <1>2, <1>3, <1>4 DEF IInv

\* The playhead is somewhere in the source, and so is the end of its frame.
LEMMA PlayheadIsThere ==
  ASSUME EditAssumption, TypeOK, NEW s \in PlayheadSource
  PROVE  s \in 0..Duration /\ Min({s + Frame, Duration}) \in 0..Duration
<1>1. PICK p \in Positions \cap (0..ProgramLength(program.ranges)) :
        s = SourceAt(program.ranges, p)
  BY DEF PlayheadSource
<1>2. Kept(program.ranges)
  BY DocumentIsKept
<1>3. ProgramLength(program.ranges) \in Nat /\ Duration \in Nat /\ Frame \in Nat
  BY <1>2, ProgramIsThere DEF EditAssumption
<1>4. p \in Nat /\ p <= ProgramLength(program.ranges)
  BY <1>3
<1>5. s \in 0..Duration
  BY <1>1, <1>2, <1>3, <1>4, SourceIsFound
<1>6. s + Frame \in Int /\ Duration \in Int /\ 0 <= s + Frame
  BY <1>3, <1>5
<1>7. Min({s + Frame, Duration}) = IF s + Frame <= Duration THEN s + Frame
                                   ELSE Duration
  BY <1>6, MinOfTwo
<1> QED
  BY <1>3, <1>5, <1>6, <1>7

\* What a projection does to the marks, the queue and what is said of it.
LEMMA ProjectKeeps ==
  ASSUME EditAssumption, IInv, NEW next \in Revisions, document' = next,
         Project(next), active' = active
  PROVE  /\ inUs' \in MarkPlaces /\ outUs' \in MarkPlaces
         /\ program' \in Revisions /\ queue' \in Seq(Events)
         /\ accepted' \in BOOLEAN /\ outdated' \in BOOLEAN
         /\ HandlesDoNotCross' /\ PreviewInv'
<1> DEFINE newRanges == next.ranges # document.ranges
           type == IF newRanges THEN "SetSequence" ELSE "UpdateComposition"
           event == [type |-> type, to |-> next]
<1>1. /\ document \in Revisions /\ program \in Revisions /\ queue \in Seq(Events)
      /\ inUs \in MarkPlaces /\ outUs \in MarkPlaces
      /\ outdated \in BOOLEAN
  BY DEF IInv, TypeOK
<1>2. /\ event \in Events /\ event.type = type /\ event.to = next
      /\ type \in {"SetSequence", "UpdateComposition"}
  BY DEF Events
<1>3. /\ IF newRanges THEN inUs' = None /\ outUs' = None
                      ELSE inUs' = inUs /\ outUs' = outUs
      /\ accepted' = CanBind(next)
      /\ outdated' = (~CanBind(next) \/ (outdated /\ ~newRanges))
      /\ IF CanBind(next) THEN Post(type, next) ELSE queue' = queue
      /\ program' = program
  BY DEF Project, markVars
<1>4. CanBind(next) \in BOOLEAN
  BY DEF CanBind
<1>5. Post(type, next) =>
        \/ queue' = Append(queue, event)
        \/ /\ queue # <<>> /\ Last(queue).type = type
           /\ queue' = Append(Front(queue), event)
  BY DEF Post, Coalesces
<1>6. HandlesDoNotCross'
  <2>1. CASE newRanges
    BY <1>3, <2>1 DEF HandlesDoNotCross
  <2>2. CASE ~newRanges
    <3>1. document'.ranges = document.ranges
      BY <2>2
    <3> QED
      BY <1>3, <2>2, <3>1 DEF IInv, HandlesDoNotCross
  <2> QED
    BY <2>1, <2>2
<1>7. inUs' \in MarkPlaces /\ outUs' \in MarkPlaces
  BY <1>1, <1>3 DEF MarkPlaces
<1> HIDE DEF event, type, newRanges
<1>8. accepted' \in BOOLEAN /\ outdated' \in BOOLEAN /\ program' \in Revisions
  BY <1>1, <1>3, <1>4
<1>9. queue' \in Seq(Events)
  <2>1. CASE queue' = queue
    BY <1>1, <2>1
  <2>2. CASE queue' = Append(queue, event)
    BY <1>1, <1>2, <2>2, OneMore
  <2>3. CASE queue # <<>> /\ queue' = Append(Front(queue), event)
    <3>1. Front(queue) \in Seq(Events)
      BY <1>1, <2>3, QueueEnds
    <3> QED
      BY <1>2, <2>3, <3>1, OneMore
  <2> QED
    BY <1>3, <1>5, <2>1, <2>2, <2>3
<1>10. ASSUME ~outdated'
       PROVE  Follows(next, program, queue')
  <2>1. CanBind(next) /\ (newRanges \/ ~outdated)
    BY <1>3, <1>4, <1>10
  <2>2. \/ queue' = Append(queue, event)
        \/ /\ queue # <<>> /\ Last(queue).type = type
           /\ queue' = Append(Front(queue), event)
    BY <1>3, <1>5, <2>1
  <2>3. CASE newRanges
    <3>1. event.type = "SetSequence"
      BY <1>2, <2>3 DEF type
    <3>2. CASE queue' = Append(queue, event)
      BY <1>1, <1>2, <3>1, <3>2, SequenceOvertakes
    <3>3. CASE queue # <<>> /\ queue' = Append(Front(queue), event)
      <4>1. Front(queue) \in Seq(Events)
        BY <1>1, <3>3, QueueEnds
      <4> QED
        BY <1>2, <3>1, <3>3, <4>1, SequenceOvertakes
    <3> QED
      BY <2>2, <3>2, <3>3
  <2>4. CASE ~newRanges
    <3>1. event.type = "UpdateComposition" /\ type = "UpdateComposition"
      BY <1>2, <2>4 DEF type
    <3>2. event.to.ranges = document.ranges
      BY <1>2, <2>4 DEF newRanges
    <3>3. Follows(document, program, queue)
      BY <2>1, <2>4 DEF IInv, PreviewInv
    <3>4. CASE queue' = Append(queue, event)
      BY <1>1, <1>2, <3>1, <3>2, <3>3, <3>4, CompositionFollows
    <3>5. CASE /\ queue # <<>> /\ Last(queue).type = type
               /\ queue' = Append(Front(queue), event)
      BY <1>1, <1>2, <3>1, <3>2, <3>3, <3>5, CompositionReplaces
    <3> QED
      BY <2>2, <3>4, <3>5
  <2> QED
    BY <2>3, <2>4
<1>11. PreviewInv'
  BY <1>3, <1>10 DEF PreviewInv
<1> QED
  BY <1>6, <1>7, <1>8, <1>9, <1>11

\* A change of the document that leaves the rest to the projection.
LEMMA CommitKeeps ==
  ASSUME EditAssumption, IInv, NEW next \in Revisions, Commit(next)
  PROVE  IInv'
<1>1. /\ undo' = Append(undo, document) /\ redo' = <<>> /\ document' = next
      /\ Project(next)
      /\ exported' = exported /\ active' = active /\ prompt' = prompt /\ job' = job
  BY DEF Commit
<1>2. /\ inUs' \in MarkPlaces /\ outUs' \in MarkPlaces
      /\ program' \in Revisions /\ queue' \in Seq(Events)
      /\ accepted' \in BOOLEAN /\ outdated' \in BOOLEAN
      /\ HandlesDoNotCross' /\ PreviewInv'
  BY <1>1, ProjectKeeps
<1>3. undo' \in Seq(Revisions) /\ redo' \in Seq(Revisions)
  BY <1>1, OneMore DEF IInv, TypeOK
<1>4. TypeOK'
  BY <1>1, <1>2, <1>3 DEF IInv, TypeOK
<1> QED
  BY <1>2, <1>4 DEF IInv

\* Cutting and trimming leave something, which is a document again.
LEMMA ReplaceKeeps ==
  ASSUME EditAssumption, IInv, NEW ranges, Replace(ranges),
         ranges # <<>> => Kept(ranges)
  PROVE  IInv'
<1>1. ranges # <<>> /\ Commit(Replaced(document, ranges))
  BY DEF Replace
<1>2. Replaced(document, ranges) \in Revisions
  BY <1>1, ReplacedIsRevision
<1> QED
  BY <1>1, <1>2, CommitKeeps

LEMMA HandleKeeps ==
  ASSUME EditAssumption, IInv, Handle
  PROVE  IInv'
<1> DEFINE event == Head(queue)
           rejected == /\ event.type = "UpdateComposition"
                       /\ program = Whole \/ ~SameClips(program, event.to)
<1>1. /\ queue # <<>> /\ queue' = Tail(queue)
      /\ program' = (IF rejected THEN program ELSE event.to)
      /\ UNCHANGED <<document, undo, redo, exported, inUs, outUs, active, prompt,
                     job, accepted, outdated>>
  BY DEF Handle, documentVars, markVars
<1>2. /\ queue \in Seq(Events) /\ program \in Revisions
      /\ event \in Events /\ event = queue[1] /\ Tail(queue) \in Seq(Events)
  <2>1. queue \in Seq(Events) /\ program \in Revisions
    BY DEF IInv, TypeOK
  <2> QED
    BY <1>1, <2>1, QueueEnds
<1>3. event.to \in Revisions
  BY <1>2 DEF Events
<1> HIDE DEF event
<1>4. TypeOK'
  BY <1>1, <1>2, <1>3 DEF IInv, TypeOK
<1>5. HandlesDoNotCross'
  BY <1>1 DEF IInv, HandlesDoNotCross
<1>6. Takes(program, queue, 1) => program' = queue[1].to
  BY <1>1, <1>2 DEF Takes, Bound, SameClips
<1>7. ASSUME ~outdated
      PROVE  Follows(document, program', Tail(queue))
  <2>1. Follows(document, program, queue)
    BY <1>7 DEF IInv, PreviewInv
  <2> QED
    BY <1>1, <1>2, <1>6, <2>1, HandledFollows
<1>8. PreviewInv'
  BY <1>1, <1>7 DEF PreviewInv
<1> QED
  BY <1>4, <1>5, <1>8 DEF IInv

\* A step that leaves the document and the player as they are, and the marks
\* as they are or takes them away.
LEMMA RestKeeps ==
  ASSUME IInv,
         UNCHANGED <<document, undo, redo, program, queue, accepted, outdated>>,
         \/ inUs' = inUs /\ outUs' = outUs /\ active' = active
         \/ inUs' = None /\ outUs' = None /\ active' \in BOOLEAN,
         prompt' \in Prompts, exported' \subseteq Revisions,
         job' \in [phase : {"none", "running", "succeeded", "failed"}, of : Revisions]
  PROVE  IInv'
<1>1. TypeOK'
  BY DEF IInv, TypeOK, MarkPlaces
<1>2. HandlesDoNotCross'
  BY DEF IInv, HandlesDoNotCross
<1>3. PreviewInv'
  BY DEF IInv, PreviewInv
<1> QED
  BY <1>1, <1>2, <1>3 DEF IInv

LEMMA UndoKeeps ==
  ASSUME EditAssumption, IInv, Undo
  PROVE  IInv'
<1>1. /\ undo # <<>> /\ redo' = Append(redo, document)
      /\ document' = Last(undo) /\ undo' = Front(undo) /\ Project(Last(undo))
      /\ exported' = exported /\ active' = active /\ prompt' = prompt /\ job' = job
  BY DEF Undo
<1>2. undo \in Seq(Revisions) /\ redo \in Seq(Revisions) /\ document \in Revisions
  BY DEF IInv, TypeOK
<1>3. Last(undo) \in Revisions /\ undo' \in Seq(Revisions) /\ redo' \in Seq(Revisions)
  BY <1>1, <1>2, QueueEnds, OneMore
<1>4. /\ inUs' \in MarkPlaces /\ outUs' \in MarkPlaces
      /\ program' \in Revisions /\ queue' \in Seq(Events)
      /\ accepted' \in BOOLEAN /\ outdated' \in BOOLEAN
      /\ HandlesDoNotCross' /\ PreviewInv'
  BY <1>1, <1>3, ProjectKeeps
<1>5. TypeOK'
  BY <1>1, <1>3, <1>4 DEF IInv, TypeOK
<1> QED
  BY <1>4, <1>5 DEF IInv

LEMMA RedoKeeps ==
  ASSUME EditAssumption, IInv, Redo
  PROVE  IInv'
<1>1. /\ redo # <<>> /\ undo' = Append(undo, document)
      /\ document' = Last(redo) /\ redo' = Front(redo) /\ Project(Last(redo))
      /\ exported' = exported /\ active' = active /\ prompt' = prompt /\ job' = job
  BY DEF Redo
<1>2. undo \in Seq(Revisions) /\ redo \in Seq(Revisions) /\ document \in Revisions
  BY DEF IInv, TypeOK
<1>3. Last(redo) \in Revisions /\ undo' \in Seq(Revisions) /\ redo' \in Seq(Revisions)
  BY <1>1, <1>2, QueueEnds, OneMore
<1>4. /\ inUs' \in MarkPlaces /\ outUs' \in MarkPlaces
      /\ program' \in Revisions /\ queue' \in Seq(Events)
      /\ accepted' \in BOOLEAN /\ outdated' \in BOOLEAN
      /\ HandlesDoNotCross' /\ PreviewInv'
  BY <1>1, <1>3, ProjectKeeps
<1>5. TypeOK'
  BY <1>1, <1>3, <1>4 DEF IInv, TypeOK
<1> QED
  BY <1>4, <1>5 DEF IInv

LEMMA DiscardKeeps ==
  ASSUME EditAssumption, IInv, ConfirmDiscard
  PROVE  IInv'
<1>1. /\ prompt' = "None" /\ document' = Whole /\ undo' = <<>> /\ redo' = <<>>
      /\ Project(Whole) /\ exported' = exported /\ active' = active /\ job' = job
  BY DEF ConfirmDiscard
<1>2. Whole \in Revisions
  BY WholeIsRevision
<1>3. /\ inUs' \in MarkPlaces /\ outUs' \in MarkPlaces
      /\ program' \in Revisions /\ queue' \in Seq(Events)
      /\ accepted' \in BOOLEAN /\ outdated' \in BOOLEAN
      /\ HandlesDoNotCross' /\ PreviewInv'
  BY <1>1, <1>2, ProjectKeeps
<1>4. TypeOK'
  BY <1>1, <1>2, <1>3 DEF IInv, TypeOK, Prompts
<1> QED
  BY <1>3, <1>4 DEF IInv

\* Another kind for one cut makes a revision.
LEMMA ToggledIsRevision ==
  ASSUME NEW decisions \in Revisions, NEW i \in DOMAIN decisions.smooth
  PROVE  [decisions EXCEPT !.smooth[i] = ~@] \in Revisions
<1> DEFINE next == [decisions EXCEPT !.smooth[i] = ~@]
<1>1. /\ decisions \in [ranges : Seq(Clips), smooth : Seq(BOOLEAN)]
      /\ Kept(decisions.ranges) /\ Parted(decisions.ranges)
      /\ Len(decisions.smooth) = Len(decisions.ranges) - 1
  BY DEF Revisions
<1>2. next.ranges = decisions.ranges
      /\ next.smooth = [decisions.smooth EXCEPT ![i] = ~@]
  BY <1>1
<1>3. next.smooth \in Seq(BOOLEAN) /\ Len(next.smooth) = Len(decisions.smooth)
  BY <1>1, <1>2
<1>4. next \in [ranges : Seq(Clips), smooth : Seq(BOOLEAN)]
  BY <1>1, <1>3
<1> HIDE DEF next
<1>5. next \in Revisions
  BY <1>1, <1>2, <1>3, <1>4 DEF Revisions
<1> QED
  BY <1>5 DEF next

LEMMA ToggleKeeps ==
  ASSUME EditAssumption, IInv, ToggleSmoothCut
  PROVE  IInv'
<1>1. PICK i \in DOMAIN document.smooth :
        Commit([document EXCEPT !.smooth[i] = ~@])
  BY DEF ToggleSmoothCut
<1> DEFINE next == [document EXCEPT !.smooth[i] = ~@]
<1>2. next \in Revisions
  BY ToggledIsRevision DEF IInv, TypeOK
<1> HIDE DEF next
<1> QED
  BY <1>1, <1>2, CommitKeeps DEF next

LEMMA MarkStepsKeep ==
  ASSUME EditAssumption, IInv
  PROVE  /\ MarkIn => IInv'
         /\ MarkOut => IInv'
         /\ ClearIn \/ ClearOut \/ ClearInAndOut => IInv'
         /\ SelectSuggestion => IInv'
         /\ MoveBoundary => IInv'
<1>1. /\ TypeOK /\ Kept(document.ranges)
      /\ inUs \in MarkPlaces /\ outUs \in MarkPlaces
      /\ None \in MarkPlaces /\ 0..Duration \subseteq MarkPlaces
      /\ \A place \in MarkPlaces : place # None => place \in 0..Duration
  BY DocumentIsKept DEF IInv, MarkPlaces
<1>2. ASSUME MarkIn PROVE IInv'
  <2>1. PICK s \in PlayheadSource : Mark(MarkedIn(s), outUs)
    BY <1>2 DEF MarkIn
  <2>2. s \in 0..Duration
    BY <1>1, PlayheadIsThere
  <2>3. MarkedIn(s) \in 0..Duration /\ (outUs # None => Apart(MarkedIn(s), outUs))
    BY <1>1, <2>2, MarkedInIs
  <2>4. active
    BY <1>2 DEF MarkIn, Command
  <2> QED
    BY <1>1, <2>1, <2>3, <2>4, MarkKeeps
<1>3. ASSUME MarkOut PROVE IInv'
  <2>1. PICK s \in PlayheadSource :
          Mark(inUs, MarkedOut(inUs, Min({s + Frame, Duration})))
    BY <1>3 DEF MarkOut
  <2> DEFINE out == MarkedOut(inUs, Min({s + Frame, Duration}))
  <2>2. Min({s + Frame, Duration}) \in 0..Duration
    BY <1>1, PlayheadIsThere
  <2>3. out \in 0..Duration /\ (inUs # None => Apart(inUs, out))
    BY <1>1, <2>2, MarkedOutIs
  <2>4. active
    BY <1>3 DEF MarkOut, Command
  <2> HIDE DEF out
  <2>5. Mark(inUs, out)
    BY <2>1 DEF out
  <2> QED
    BY <1>1, <2>3, <2>4, <2>5, MarkKeeps
<1>4. ASSUME ClearIn \/ ClearOut \/ ClearInAndOut PROVE IInv'
  <2>1. active
    BY <1>4 DEF ClearIn, ClearOut, ClearInAndOut, Command
  <2>2. Mark(None, outUs) \/ Mark(inUs, None) \/ Mark(None, None)
    BY <1>4 DEF ClearIn, ClearOut, ClearInAndOut
  <2> QED
    BY <1>1, <2>1, <2>2, MarkKeeps
<1>5. ASSUME SelectSuggestion PROVE IInv'
  <2>1. PICK suggested \in Suggestions :
          Mark(suggested.start, MarkedOut(suggested.start, suggested.end))
    BY <1>5 DEF SelectSuggestion
  <2> DEFINE in == suggested.start
             out == MarkedOut(suggested.start, suggested.end)
  <2>2. in \in 0..Duration /\ suggested.end \in 0..Duration
    BY DEF EditAssumption, Clips
  <2>3. out \in 0..Duration /\ (in # None => Apart(in, out))
    BY <1>1, <2>2, MarkedOutIs
  <2>4. active
    BY <1>5 DEF SelectSuggestion, Command
  <2> HIDE DEF in, out
  <2>5. Mark(in, out)
    BY <2>1 DEF in, out
  <2> QED
    BY <1>1, <2>2, <2>3, <2>4, <2>5, MarkKeeps
<1>6. ASSUME MoveBoundary PROVE IInv'
  <2>1. PICK p \in Positions \cap (0..ProgramLength(document.ranges)) :
          \/ Mark(MarkedIn(SourceAt(document.ranges, MovedIn(p))), outUs)
          \/ Mark(inUs, OutAt(MovedOut(p)))
    BY <1>6 DEF MoveBoundary
  <2>2. active
    BY <1>6 DEF MoveBoundary
  <2> DEFINE s == SourceAt(document.ranges, MovedIn(p))
             in == MarkedIn(s)
             out == OutAt(MovedOut(p))
  <2>3. s \in 0..Duration
    BY <1>1, MovedInIs
  <2> HIDE DEF s
  <2>4. in \in 0..Duration /\ (outUs # None => Apart(in, outUs))
    BY <1>1, <2>3, MarkedInIs
  <2>5. out \in 0..Duration /\ (inUs # None => Apart(inUs, out))
    BY <1>1, MovedOutIs
  <2> HIDE DEF in, out
  <2>6. Mark(in, outUs) \/ Mark(inUs, out)
    BY <2>1 DEF s, in, out
  <2> QED
    BY <1>1, <2>2, <2>4, <2>5, <2>6, MarkKeeps
<1> QED
  BY <1>2, <1>3, <1>4, <1>5, <1>6

LEMMA CutsKeep ==
  ASSUME EditAssumption, IInv
  PROVE  RippleDelete \/ Trim => IInv'
<1>1. Kept(document.ranges) /\ inUs \in MarkPlaces /\ outUs \in MarkPlaces
  BY DocumentIsKept DEF IInv
<1>2. Duration \in Nat
  BY DEF EditAssumption
<1>3. HasRange => /\ Selected \in Clips
                  /\ Selected.start < Selected.end
  BY <1>1, <1>2 DEF HasRange, Selected, Clip, Clips, MarkPlaces
<1>4. ASSUME RippleDelete PROVE IInv'
  <2> DEFINE left == Without(document.ranges, Selected)
  <2>1. HasRange /\ Replace(left)
    BY <1>4 DEF RippleDelete
  <2>2. left # <<>> => Kept(left)
    BY <1>1, <1>3, <2>1, WithoutIsKept
  <2> QED
    BY <2>1, <2>2, ReplaceKeeps
<1>5. ASSUME Trim PROVE IInv'
  <2> DEFINE left == TrimmedTo(document.ranges, Selected)
  <2>1. HasRange /\ Replace(left)
    BY <1>5 DEF Trim
  <2>2. left # <<>> => Kept(left)
    BY <1>1, <1>3, <2>1, TrimmedIsKept
  <2> QED
    BY <2>1, <2>2, ReplaceKeeps
<1> QED
  BY <1>4, <1>5

\* The panel, the prompts and the export.
LEMMA OtherStepsKeep ==
  ASSUME EditAssumption, IInv
  PROVE  /\ Open \/ Finish \/ ConfirmLeave => IInv'
         /\ RequestClose \/ RequestDiscard \/ CancelPrompt => IInv'
         /\ PollExport \/ StartExport \/ EndExport => IInv'
<1>1. /\ document \in Revisions /\ exported \subseteq Revisions /\ prompt \in Prompts
      /\ job \in [phase : {"none", "running", "succeeded", "failed"}, of : Revisions]
      /\ Whole \in Revisions
  BY WholeIsRevision DEF IInv, TypeOK
<1>2. ASSUME Open \/ Finish \/ ConfirmLeave PROVE IInv'
  <2>1. /\ UNCHANGED <<document, undo, redo, program, queue, accepted, outdated,
                       exported, job>>
        /\ inUs' = None /\ outUs' = None /\ active' \in BOOLEAN
        /\ prompt' = prompt \/ prompt' = "None"
    BY <1>2 DEF Open, Finish, ConfirmLeave, FinishEditing, documentVars, playerVars
  <2>2. prompt' \in Prompts
    BY <1>1, <2>1 DEF Prompts
  <2> QED
    BY <1>1, <2>1, <2>2, RestKeeps
<1>3. ASSUME RequestClose \/ RequestDiscard \/ CancelPrompt PROVE IInv'
  <2>1. /\ UNCHANGED <<document, undo, redo, program, queue, accepted, outdated,
                       exported, job, inUs, outUs, active>>
        /\ prompt' \in Prompts
    BY <1>3 DEF RequestClose, RequestDiscard, CancelPrompt, documentVars,
                markVars, playerVars, Prompts
  <2> QED
    BY <1>1, <2>1, RestKeeps
<1>4. ASSUME PollExport \/ StartExport \/ EndExport PROVE IInv'
  <2>1. UNCHANGED <<document, undo, redo, program, queue, accepted, outdated,
                    inUs, outUs, active, prompt>>
    BY <1>4 DEF PollExport, StartExport, EndExport, documentVars, markVars,
                playerVars
  <2>2. Applied \subseteq Revisions
    BY <1>1 DEF Applied
  <2>3. exported' \subseteq Revisions
    BY <1>1, <1>4, <2>2 DEF PollExport, StartExport, EndExport
  <2>4. job' \in [phase : {"none", "running", "succeeded", "failed"}, of : Revisions]
    <3>1. CASE PollExport
      BY <1>1, <3>1 DEF PollExport, NoJob
    <3>2. CASE StartExport
      BY <1>1, <3>2 DEF StartExport
    <3>3. CASE EndExport
      BY <1>1, <3>3 DEF EndExport
    <3> QED
      BY <1>4, <3>1, <3>2, <3>3
  <2> QED
    BY <1>1, <2>1, <2>3, <2>4, RestKeeps
<1> QED
  BY <1>2, <1>3, <1>4

LEMMA StepKeeps ==
  ASSUME EditAssumption, IInv, [Next]_vars
  PROVE  IInv'
<1>1. ASSUME Next PROVE IInv'
  <2>1. ASSUME Reset PROVE IInv'
    BY <2>1, WholeIsRevision, CommitKeeps DEF Reset
  <2> QED
    BY <1>1, <2>1, MarkStepsKeep, CutsKeep, OtherStepsKeep, ToggleKeeps, UndoKeeps,
       RedoKeeps, DiscardKeeps, HandleKeeps DEF Next
<1>2. ASSUME UNCHANGED vars PROVE IInv'
  <2>1. UNCHANGED <<document, undo, redo, program, queue, accepted, outdated,
                    exported, job, prompt, inUs, outUs, active>>
    BY <1>2 DEF vars
  <2> QED
    BY <2>1, RestKeeps DEF IInv, TypeOK
<1> QED
  BY <1>1, <1>2

LEMMA InitHolds ==
  ASSUME EditAssumption, Init
  PROVE  IInv
<1>1. Whole \in Revisions
  BY WholeIsRevision
<1>2. TypeOK
  <2>1. /\ undo \in Seq(Revisions) /\ redo \in Seq(Revisions) /\ queue \in Seq(Events)
        /\ exported \subseteq Revisions
    BY DEF Init
  <2>2. job \in [phase : {"none", "running", "succeeded", "failed"}, of : Revisions]
    BY <1>1 DEF Init, NoJob
  <2>3. document \in Revisions /\ program \in Revisions
    BY <1>1 DEF Init
  <2> QED
    BY <2>1, <2>2, <2>3 DEF Init, TypeOK, MarkPlaces, Prompts
<1>3. HandlesDoNotCross
  BY DEF Init, HandlesDoNotCross
<1>4. PreviewInv
  BY DEF Init, PreviewInv, Follows
<1> QED
  BY <1>2, <1>3, <1>4 DEF IInv

-----------------------------------------------------------------------------
(* The theorems                                                             *)

\* Every document, undone and redone revision, export and projection is a list
\* of kept ranges in order with a kind for each cut between them, and the marks
\* and the queue are as the parts of IInv say.
THEOREM EditorInductive ==
  ASSUME EditAssumption
  PROVE  Spec => []IInv
<1>1. Init => IInv
  BY InitHolds
<1>2. IInv /\ [Next]_vars => IInv'
  BY StepKeeps
<1> QED
  BY <1>1, <1>2, PTL DEF Spec

\* Handles clamp instead of crossing: two marks leave a frame between them as
\* far as the program has one there, however often ranges were removed, trimmed
\* and brought back before the marks were put.
THEOREM HandlesStayApart ==
  ASSUME EditAssumption
  PROVE  Spec => []HandlesDoNotCross
<1>1. IInv => HandlesDoNotCross
  BY DEF IInv
<1> QED
  BY <1>1, EditorInductive, PTL

\* Whatever was coalesced and refused on the way, a player that has handled its
\* queue plays the document, unless the workspace itself withheld a projection.
THEOREM PlayerCatchesUp ==
  ASSUME EditAssumption
  PROVE  Spec => []PlayerFollows
<1>1. IInv => PlayerFollows
  BY DEF IInv, PreviewInv, PlayerFollows, Follows
<1> QED
  BY <1>1, EditorInductive, PTL

-----------------------------------------------------------------------------
(* The history, the discards and the exports are those of EditDecisions     *)

\* Nobody is asked to confirm what is not there, or while it is written.
DiscardInv == prompt = "DiscardEdits" => document # Whole /\ job.phase # "running"

LEMMA DiscardStep ==
  ASSUME DiscardInv, [Next]_vars
  PROVE  DiscardInv'
<1>1. CASE UNCHANGED vars
  BY <1>1 DEF vars, DiscardInv
<1>2. ASSUME RequestDiscard PROVE DiscardInv'
  BY <1>2 DEF RequestDiscard, DiscardInv, documentVars
<1>3. ASSUME Open \/ Finish \/ RequestClose \/ ConfirmLeave \/ CancelPrompt \/ ConfirmDiscard
      PROVE  DiscardInv'
  <2>1. prompt' # "DiscardEdits"
    BY <1>3 DEF Open, Finish, FinishEditing, RequestClose, ConfirmLeave, CancelPrompt,
                ConfirmDiscard
  <2> QED
    BY <2>1 DEF DiscardInv
<1>4. ASSUME MarkIn \/ MarkOut \/ ClearIn \/ ClearOut \/ ClearInAndOut \/
             SelectSuggestion \/ MoveBoundary \/ Handle
      PROVE  DiscardInv'
  <2>1. UNCHANGED <<document, prompt, job>>
    BY <1>4 DEF MarkIn, MarkOut, ClearIn, ClearOut, ClearInAndOut,
                SelectSuggestion, MoveBoundary, Mark, Handle, documentVars
  <2> QED
    BY <2>1 DEF DiscardInv
<1>5. ASSUME RippleDelete \/ Trim \/ ToggleSmoothCut \/ Reset \/ Undo \/ Redo
      PROVE  DiscardInv'
  <2>1. prompt = "None" /\ prompt' = prompt
    BY <1>5 DEF RippleDelete, Trim, Replace, ToggleSmoothCut, Reset, Undo, Redo,
                Commit, Command
  <2> QED
    BY <2>1 DEF DiscardInv
<1>6. ASSUME StartExport PROVE DiscardInv'
  BY <1>6 DEF StartExport, DiscardInv
<1>7. ASSUME PollExport \/ EndExport PROVE DiscardInv'
  <2>1. UNCHANGED <<document, prompt>>
        /\ (job.phase = "running" \/ job'.phase # "running")
    BY <1>7 DEF PollExport, EndExport, documentVars, NoJob
  <2> QED
    BY <2>1 DEF DiscardInv
<1> QED
  BY <1>1, <1>2, <1>3, <1>4, <1>5, <1>6, <1>7 DEF Next

\* While the user is asked whether to give up the edits there are some, and no
\* export runs: no command gets between the question and its answer.
THEOREM DiscardsAreAsked == Spec => []DiscardInv
<1>1. Init => DiscardInv
  BY DEF Init, DiscardInv
<1> QED
  BY <1>1, DiscardStep, PTL DEF Spec

\* The abstract state: what the line of revisions says, and where on it the
\* document is.
LEMMA StateIs ==
  ASSUME TypeOK
  PROVE  /\ Tells(Said(History), undo, document, redo)
         /\ Decisions!Current = Abstract(document)
         /\ Len(undo) \in Nat /\ Len(redo) \in Nat
<1>1. History = Line(undo, document, redo)
  BY DEF History, Line
<1>2. undo \in Seq(Revisions) /\ document \in Revisions /\ redo \in Seq(Revisions)
  BY DEF TypeOK
<1>3. Tells(Said(History), undo, document, redo)
  BY <1>1, <1>2, SaidIs
<1>4. Decisions!Current = Said(History)[Len(undo) + 1]
  BY DEF Decisions!Current, Said
<1> QED
  BY <1>2, <1>3, <1>4 DEF Tells

\* A document that is one of EditDecisions' next revisions.
LEMMA DecideStep ==
  ASSUME TypeOK, NEW next \in Revisions, next # document,
         undo' = Append(undo, document), redo' = <<>>, document' = next,
         exported' = exported, job' = job,
         Abstract(next) \in Decisions!Shorter \cup Decisions!Toggled \cup {Decisions!Whole}
  PROVE  Decisions!Decide
<1>1. undo \in Seq(Revisions) /\ document \in Revisions /\ redo \in Seq(Revisions)
  BY DEF TypeOK
<1>2. Len(undo') + 1 = (Len(undo) + 1) + 1
  BY <1>1
<1>3. Said(History)' = Append(SubSeq(Said(History), 1, Len(undo) + 1), Abstract(next))
  <2>1. Said(History)' = Said(Line(Append(undo, document), next, <<>>))
    BY DEF History, Line, Said
  <2>2. Said(History) = Said(Line(undo, document, redo))
    BY DEF History, Line
  <2> QED
    BY <1>1, <2>1, <2>2, SaidNext
<1>4. Abstract(next) # Decisions!Current
  BY <1>1, StateIs, RevisionsDiffer
<1>5. Abstract(next) \in (Decisions!Shorter \cup Decisions!Toggled \cup {Decisions!Whole})
                           \ {Decisions!Current}
  BY <1>4
<1> HIDE DEF Decisions!Shorter, Decisions!Toggled, Decisions!Whole, Decisions!Current
<1> QED
  BY <1>2, <1>3, <1>5 DEF Decisions!Decide, Said


LEMMA FrontAndLast ==
  ASSUME NEW S, NEW q \in Seq(S), q # <<>>
  PROVE  Append(Front(q), Last(q)) = q
<1>1. /\ Len(q) \in Nat \ {0} /\ Last(q) = q[Len(q)] /\ Last(q) \in S
      /\ Front(q) \in Seq(S) /\ Len(Front(q)) = Len(q) - 1
      /\ \A i \in 1..(Len(q) - 1) : Front(q)[i] = q[i]
  BY QueueEnds
<1> DEFINE front == Front(q)
           last == Last(q)
           all == Append(front, last)
<1> HIDE DEF front, last
<1>2. /\ all \in Seq(S) /\ Len(all) = Len(front) + 1 /\ all[Len(front) + 1] = last
      /\ \A i \in 1..Len(front) : all[i] = front[i]
  BY <1>1 DEF front, last
<1>3. Len(front) + 1 = Len(q) /\ Len(front) = Len(q) - 1
  BY <1>1 DEF front
<1> HIDE DEF all
<1>4. \A i \in 1..Len(q) : all[i] = q[i]
  BY <1>1, <1>2, <1>3 DEF front, last
<1>5. all = q
  BY <1>2, <1>3, <1>4
<1> QED
  BY <1>5 DEF all, front, last
\* One step back, and one forth.
LEMMA UndoStep ==
  ASSUME TypeOK, Undo
  PROVE  Decisions!Undo
<1>1. /\ undo # <<>> /\ redo' = Append(redo, document)
      /\ document' = Last(undo) /\ undo' = Front(undo)
      /\ exported' = exported /\ job' = job
  BY DEF Undo
<1>2. undo \in Seq(Revisions) /\ document \in Revisions /\ redo \in Seq(Revisions)
  BY DEF TypeOK
<1>3. /\ Len(undo) \in Nat \ {0} /\ Len(Front(undo)) = Len(undo) - 1
      /\ Front(undo) \in Seq(Revisions) /\ Last(undo) \in Revisions
      /\ Append(Front(undo), Last(undo)) = undo
  BY <1>1, <1>2, QueueEnds, FrontAndLast
<1>4. History' = History
  <2>1. History' = Line(Front(undo), Last(undo), Append(redo, document))
    BY <1>1 DEF History, Line
  <2>2. History = Line(Append(Front(undo), Last(undo)), document, redo)
    BY <1>3 DEF History, Line
  <2>3. Line(Front(undo), Last(undo), Append(redo, document)) =
        Line(Append(Front(undo), Last(undo)), document, redo)
    <3> DEFINE front == Front(undo)
               last == Last(undo)
    <3>1. front \in Seq(Revisions) /\ last \in Revisions
      BY <1>3
    <3> HIDE DEF front, last
    <3> QED
      BY <1>2, <3>1, LineMoves DEF front, last
  <2> QED
    BY <2>1, <2>2, <2>3
<1>5. Len(undo) + 1 > 1 /\ Len(undo') + 1 = (Len(undo) + 1) - 1
  BY <1>1, <1>3
<1> QED
  BY <1>1, <1>4, <1>5 DEF Decisions!Undo

LEMMA RedoStep ==
  ASSUME TypeOK, Redo
  PROVE  Decisions!Redo
<1>1. /\ redo # <<>> /\ undo' = Append(undo, document)
      /\ document' = Last(redo) /\ redo' = Front(redo)
      /\ exported' = exported /\ job' = job
  BY DEF Redo
<1>2. undo \in Seq(Revisions) /\ document \in Revisions /\ redo \in Seq(Revisions)
  BY DEF TypeOK
<1>3. /\ Len(redo) \in Nat \ {0}
      /\ Front(redo) \in Seq(Revisions) /\ Last(redo) \in Revisions
      /\ Append(Front(redo), Last(redo)) = redo
  BY <1>1, <1>2, QueueEnds, FrontAndLast
<1>4. History' = History
  <2>1. History' = Line(Append(undo, document), Last(redo), Front(redo))
    BY <1>1 DEF History, Line
  <2>2. History = Line(undo, document, Append(Front(redo), Last(redo)))
    BY <1>3 DEF History, Line
  <2>3. Line(undo, document, Append(Front(redo), Last(redo))) =
        Line(Append(undo, document), Last(redo), Front(redo))
    <3> DEFINE front == Front(redo)
               last == Last(redo)
    <3>1. front \in Seq(Revisions) /\ last \in Revisions
      BY <1>3
    <3> HIDE DEF front, last
    <3> QED
      BY <1>2, <3>1, LineMoves DEF front, last
  <2> QED
    BY <2>1, <2>2, <2>3
<1>5. Len(undo') + 1 = (Len(undo) + 1) + 1
  BY <1>1, <1>2
<1>6. Len(undo) + 1 < Len(Said(History))
  BY <1>3, StateIs DEF Tells
<1> QED
  BY <1>1, <1>4, <1>5, <1>6 DEF Decisions!Redo, Said

\* All is given up: nothing of the line is left.
LEMMA DiscardedStep ==
  ASSUME EditAssumption, TypeOK, DiscardInv, ConfirmDiscard
  PROVE  Decisions!Discard
<1>1. /\ document' = Whole /\ undo' = <<>> /\ redo' = <<>>
      /\ exported' = exported /\ job' = job
      /\ document # Whole /\ job.phase # "running"
  BY DEF ConfirmDiscard, DiscardInv
<1>2. Whole \in Revisions /\ document \in Revisions
  BY WholeIsRevision DEF TypeOK
<1>3. Decisions!Current # Decisions!Whole
  BY <1>1, <1>2, StateIs, WholeSays, RevisionsDiffer
<1>4. Said(History)' = <<Decisions!Whole>>
  <2> DEFINE line == Line(<<>>, Whole, <<>>)
  <2>1. Said(History)' = Said(line)
    BY <1>1 DEF History, Line, Said
  <2>2. Tells(Said(line), <<>>, Whole, <<>>)
    <3>1. <<>> \in Seq(Revisions)
      OBVIOUS
    <3> QED
      BY <1>2, <3>1, SaidIs
  <2>3. /\ Said(line) \in Seq(Sayings) /\ Len(Said(line)) = 1
        /\ Said(line)[1] = Decisions!Whole
    <3>1. Len(<<>>) + 1 + Len(<<>>) = 1 /\ Len(<<>>) + 1 = 1
      OBVIOUS
    <3> HIDE DEF line
    <3> QED
      BY <2>2, <3>1, WholeSays DEF Tells
  <2> HIDE DEF line, Decisions!Whole
  <2> QED
    BY <2>1, <2>3
<1>5. Len(undo') + 1 = 1
  BY <1>1
<1> HIDE DEF Decisions!Current, Decisions!Whole
<1> QED
  BY <1>1, <1>3, <1>4, <1>5 DEF Decisions!Discard, Said

\* The units between the two marks are a section of the source.
LEMMA SelectedIsSection ==
  ASSUME EditAssumption, TypeOK, HasRange
  PROVE  /\ Selected \in Clips /\ Selected.start < Selected.end
         /\ Selected.start = inUs /\ Selected.end = outUs
         /\ inUs..(outUs - 1) \in Decisions!Sections
<1>1. /\ inUs \in 0..Duration /\ outUs \in 0..Duration /\ inUs < outUs
      /\ Duration \in Nat
  BY DEF EditAssumption, TypeOK, MarkPlaces, HasRange
<1>2. /\ inUs \in 0..(Duration - 1) /\ outUs - 1 \in 0..(Duration - 1)
      /\ inUs \in inUs..(outUs - 1)
  BY <1>1
<1> QED
  BY <1>1, <1>2 DEF Selected, Clip, Clips, Decisions!Sections, Decisions!Units

\* What is removed or kept of the document leaves it as short as that.
LEMMA ReplaceStep ==
  ASSUME EditAssumption, TypeOK, NEW taken, Kept(taken), Replace(taken),
         NEW section \in Decisions!Sections,
         \/ UnitsOf(taken) = UnitsOf(document.ranges) \cap section
         \/ UnitsOf(taken) = UnitsOf(document.ranges) \ section
  PROVE  Decisions!Decide
<1> DEFINE next == Replaced(document, taken)
           kept == UnitsOf(taken)
<1>1. /\ document \in Revisions /\ next \in Revisions /\ next # document
      /\ undo' = Append(undo, document) /\ redo' = <<>> /\ document' = next
      /\ exported' = exported /\ job' = job
  <2>1. document \in Revisions /\ next \in Revisions
    BY ReplacedIsRevision DEF TypeOK
  <2> HIDE DEF next
  <2>2. Commit(next)
    BY DEF Replace, next
  <2> QED
    BY <2>1, <2>2 DEF Commit
<1>2. Decisions!Current.kept = UnitsOf(document.ranges)
  BY <1>1, StateIs, RevisionSays
<1>3. kept # {}
  <2>1. 1 \in DOMAIN taken /\ taken[1].start \in Nat /\ taken[1].start < taken[1].end
    <3>1. taken \in Seq(Clips) /\ taken # <<>>
      BY DEF Kept, Within
    <3>2. 1 \in DOMAIN taken
      BY <3>1
    <3> QED
      BY <3>2, ClipHas DEF Kept
  <2>2. taken[1].start \in kept
    BY <2>1, ClipHas DEF UnitsOf
  <2> QED
    BY <2>2
<1>4. Abstract(next) = Decisions!Keeping(kept)
  BY <1>1, StateIs, ReplacedSays DEF Decisions!Keeping
<1> HIDE DEF next, kept
<1>5. kept \in ({Decisions!Current.kept \cap part : part \in Decisions!Sections} \cup
                {Decisions!Current.kept \ part : part \in Decisions!Sections}) \ {{}}
  BY <1>2, <1>3 DEF kept
<1>6. Abstract(next) \in Decisions!Shorter
  BY <1>4, <1>5 DEF Decisions!Shorter
<1> QED
  BY <1>1, <1>6, DecideStep

LEMMA CutSteps ==
  ASSUME EditAssumption, TypeOK
  PROVE  RippleDelete \/ Trim => Decisions!Decide
<1>1. document.ranges # <<>> /\ Kept(document.ranges) /\ Parted(document.ranges)
  BY DocumentIsKept DEF Kept
<1>2. ASSUME RippleDelete PROVE Decisions!Decide
  <2> DEFINE taken == Without(document.ranges, Selected)
             section == inUs..(outUs - 1)
  <2>1. HasRange /\ Replace(taken)
    BY <1>2 DEF RippleDelete
  <2>2. /\ Selected \in Clips /\ Selected.start < Selected.end
        /\ Selected.start = inUs /\ Selected.end = outUs
        /\ section \in Decisions!Sections
    BY <2>1, SelectedIsSection
  <2>3. taken # <<>>
    BY <2>1 DEF Replace
  <2>4. Kept(taken) /\ Lacks(taken, document.ranges, Selected.start, Selected.end)
    BY <1>1, <2>2, <2>3, WithoutIsKept
  <2>5. UnitsOf(taken) = UnitsOf(document.ranges) \ section
    BY <2>2, <2>4 DEF Lacks
  <2> HIDE DEF taken, section
  <2> QED
    BY <2>1, <2>2, <2>4, <2>5, ReplaceStep
<1>3. ASSUME Trim PROVE Decisions!Decide
  <2> DEFINE taken == TrimmedTo(document.ranges, Selected)
             section == inUs..(outUs - 1)
  <2>1. HasRange /\ Replace(taken)
    BY <1>3 DEF Trim
  <2>2. /\ Selected \in Clips /\ Selected.start < Selected.end
        /\ Selected.start = inUs /\ Selected.end = outUs
        /\ section \in Decisions!Sections
    BY <2>1, SelectedIsSection
  <2>3. taken # <<>>
    BY <2>1 DEF Replace
  <2>4. Kept(taken) /\ HasOnly(taken, document.ranges, Selected.start, Selected.end)
    BY <1>1, <2>2, <2>3, TrimmedIsKept
  <2>5. UnitsOf(taken) = UnitsOf(document.ranges) \cap section
    BY <2>2, <2>4 DEF HasOnly
  <2> HIDE DEF taken, section
  <2> QED
    BY <2>1, <2>2, <2>4, <2>5, ReplaceStep
<1> QED
  BY <1>2, <1>3

LEMMA ResetStep ==
  ASSUME EditAssumption, TypeOK, Reset
  PROVE  Decisions!Decide
<1>1. /\ Whole \in Revisions /\ Whole # document
      /\ undo' = Append(undo, document) /\ redo' = <<>> /\ document' = Whole
      /\ exported' = exported /\ job' = job
  BY WholeIsRevision DEF Reset, Commit
<1>2. Abstract(Whole) \in Decisions!Shorter \cup Decisions!Toggled \cup {Decisions!Whole}
  BY WholeSays
<1> QED
  BY <1>1, <1>2, DecideStep

\* A toggled cut is a decision of its own.
LEMMA ToggleStep ==
  ASSUME EditAssumption, TypeOK, ToggleSmoothCut
  PROVE  Decisions!Decide
<1>1. PICK i \in DOMAIN document.smooth :
        Commit([document EXCEPT !.smooth[i] = ~@])
  BY DEF ToggleSmoothCut
<1> DEFINE next == [document EXCEPT !.smooth[i] = ~@]
           was == Abstract(document)
           cut == CutOf(document.ranges, i)
<1>2. document \in Revisions
  BY DEF TypeOK
<1>3. next \in Revisions
  BY <1>2, ToggledIsRevision
<1>4. /\ cut \in Decisions!Cuts(was.kept)
      /\ Abstract(next) = [was EXCEPT !.smooth = (@ \ {cut}) \cup ({cut} \ @)]
  BY <1>2, <1>3, ToggledSays
<1> HIDE DEF next, was, cut
<1>5. Decisions!Current = was
  BY StateIs DEF was
<1>6. Abstract(next) \in Decisions!Toggled
  BY <1>4, <1>5 DEF Decisions!Toggled
<1>7. /\ next # document
      /\ undo' = Append(undo, document) /\ redo' = <<>> /\ document' = next
      /\ exported' = exported /\ job' = job
  BY <1>1 DEF Commit, next
<1> QED
  BY <1>3, <1>6, <1>7, DecideStep

\* A revision keeps something, and is never taken for none.
LEMMA RevisionIsSomething ==
  ASSUME NEW decisions \in Revisions
  PROVE  Abstract(decisions) # Decisions!NoJob
<1>1. /\ Abstract(decisions).kept = UnitsOf(decisions.ranges)
      /\ Kept(decisions.ranges)
  BY RevisionSays DEF Revisions
<1>2. 1 \in DOMAIN decisions.ranges
  <2>1. decisions.ranges \in Seq(Clips) /\ decisions.ranges # <<>>
    BY <1>1 DEF Kept, Within
  <2> QED
    BY <2>1
<1>3. decisions.ranges[1].start \in UnitsOf(decisions.ranges)
  BY <1>1, <1>2, ClipHas DEF Kept, UnitsOf
<1> QED
  BY <1>1, <1>3 DEF Decisions!NoJob

LEMMA AccountStep ==
  ASSUME TypeOK, exported' = Applied
  PROVE  Decisions!Account
<1> DEFINE Known == {Abstract(decisions) : decisions \in exported}
           KnownNow == {Abstract(decisions) : decisions \in exported'}
           last == IF job.phase = "none" THEN [kept |-> {}, smooth |-> {}]
                   ELSE Abstract(job.of)
<1>1. CASE job.phase = "succeeded"
  <2>1. job.of \in Revisions
    BY DEF TypeOK
  <2>2. last = Abstract(job.of) /\ last # Decisions!NoJob
    BY <1>1, <2>1, RevisionIsSomething
  <2>3. exported' = exported \cup {job.of}
    BY <1>1 DEF Applied
  <2>4. KnownNow = Known \cup {last}
    BY <2>2, <2>3
  <2>5. {last} \ {Decisions!NoJob} = {last}
    BY <2>2
  <2> HIDE DEF Decisions!NoJob
  <2> QED
    BY <2>4, <2>5 DEF Decisions!Account
<1>2. CASE job.phase # "succeeded"
  <2>1. exported' = exported
    BY <1>2 DEF Applied
  <2> QED
    BY <2>1 DEF Decisions!Account
<1> QED
  BY <1>1, <1>2

LEMMA ExportSteps ==
  ASSUME EditAssumption, TypeOK
  PROVE  /\ StartExport => Decisions!StartExport
         /\ EndExport => Decisions!EndExport
         /\ PollExport => Decisions!ApplyExport
<1>1. document \in Revisions /\ Whole \in Revisions
      /\ job \in [phase : {"none", "running", "succeeded", "failed"}, of : Revisions]
  BY WholeIsRevision DEF TypeOK
<1>2. ASSUME StartExport PROVE Decisions!StartExport
  <2>1. /\ job.phase # "running" /\ document # Whole /\ exported' = Applied
        /\ job' = [phase |-> "running", of |-> document]
        /\ UNCHANGED <<document, undo, redo>>
    BY <1>2 DEF StartExport, documentVars
  <2>2. Decisions!Account
    BY <2>1, AccountStep
  <2>3. Decisions!Current # Decisions!Whole /\ Decisions!Current = Abstract(document)
    BY <1>1, <2>1, StateIs, WholeSays, RevisionsDiffer
  <2>4. History' = History /\ undo' = undo
    BY <2>1 DEF History
  <2>5. job'.phase = "running" /\ job'.of = document
    BY <2>1
  <2> HIDE DEF Decisions!Current, Decisions!Whole, Decisions!Account
  <2> QED
    BY <2>1, <2>2, <2>3, <2>4, <2>5 DEF Decisions!StartExport
<1>3. ASSUME EndExport PROVE Decisions!EndExport
  <2>1. /\ job.phase = "running" /\ exported' = exported
        /\ job'.phase \in {"succeeded", "failed"} /\ job'.of = job.of
        /\ UNCHANGED <<document, undo, redo>>
    BY <1>1, <1>3 DEF EndExport, documentVars
  <2>2. History' = History /\ undo' = undo
    BY <2>1 DEF History
  <2> QED
    BY <2>1, <2>2 DEF Decisions!EndExport
<1>4. ASSUME PollExport PROVE Decisions!ApplyExport
  <2>1. /\ job.phase \in {"succeeded", "failed"} /\ exported' = Applied
        /\ job'.phase = "none"
        /\ UNCHANGED <<document, undo, redo>>
    BY <1>4 DEF PollExport, documentVars, NoJob
  <2>2. Decisions!Account
    BY <2>1, AccountStep
  <2>3. History' = History /\ undo' = undo
    BY <2>1 DEF History
  <2> HIDE DEF Decisions!Account
  <2> QED
    BY <2>1, <2>2, <2>3 DEF Decisions!ApplyExport, Decisions!NoJob
<1> QED
  BY <1>2, <1>3, <1>4

\* Whatever else happens, nothing is decided.
LEMMA OtherSteps ==
  ASSUME UNCHANGED <<document, undo, redo, exported, job>>
  PROVE  UNCHANGED Decisions!vars
<1>1. History' = History /\ undo' = undo /\ exported' = exported /\ job' = job
  BY DEF History
<1> QED
  BY <1>1 DEF Decisions!vars

\* Every step of the editor is one of EditDecisions or nothing to it.
LEMMA DecisionsStep ==
  ASSUME EditAssumption, TypeOK, DiscardInv, [Next]_vars
  PROVE  [Decisions!Next]_(Decisions!vars)
<1>1. ASSUME UNCHANGED vars PROVE UNCHANGED Decisions!vars
  BY <1>1, OtherSteps DEF vars
<1>2. ASSUME \/ Open \/ Finish \/ RequestClose \/ ConfirmLeave \/ RequestDiscard
             \/ CancelPrompt \/ MarkIn \/ MarkOut \/ ClearIn \/ ClearOut
             \/ ClearInAndOut \/ SelectSuggestion \/ MoveBoundary \/ Handle
      PROVE  UNCHANGED Decisions!vars
  <2>1. UNCHANGED <<document, undo, redo, exported, job>>
    BY <1>2 DEF Open, Finish, FinishEditing, RequestClose, ConfirmLeave,
                RequestDiscard, CancelPrompt, MarkIn, MarkOut, ClearIn, ClearOut,
                ClearInAndOut, SelectSuggestion, MoveBoundary, Mark, Handle,
                documentVars
  <2> QED
    BY <2>1, OtherSteps
<1>3. ASSUME RippleDelete \/ Trim \/ ToggleSmoothCut \/ Reset
      PROVE  Decisions!Decide
  BY <1>3, CutSteps, ToggleStep, ResetStep
<1>4. /\ Undo => Decisions!Undo
      /\ Redo => Decisions!Redo
      /\ ConfirmDiscard => Decisions!Discard
  BY UndoStep, RedoStep, DiscardedStep
<1> QED
  BY <1>1, <1>2, <1>3, <1>4, ExportSteps DEF Next, Decisions!Next

LEMMA DecisionsBegin ==
  ASSUME EditAssumption, Init
  PROVE  Decisions!Init
<1>1. Whole \in Revisions /\ <<>> \in Seq(Revisions)
  BY WholeIsRevision
<1>2. /\ undo = <<>> /\ redo = <<>> /\ document = Whole /\ exported = {}
      /\ job.phase = "none"
  BY DEF Init, NoJob
<1>3. Said(History) = <<Decisions!Whole>>
  <2>1. Tells(Said(History), <<>>, Whole, <<>>)
    BY <1>1, <1>2, SaidIs DEF History, Line
  <2>2. Len(<<>>) + 1 + Len(<<>>) = 1 /\ Len(<<>>) + 1 = 1
    OBVIOUS
  <2>3. /\ Said(History) \in Seq(Sayings) /\ Len(Said(History)) = 1
        /\ Said(History)[1] = Decisions!Whole
    BY <2>1, <2>2, WholeSays DEF Tells
  <2> HIDE DEF Decisions!Whole
  <2> QED
    BY <2>3
<1>4. Len(undo) + 1 = 1
  BY <1>2
<1> HIDE DEF Decisions!Whole
<1> QED
  BY <1>2, <1>3, <1>4 DEF Decisions!Init, Decisions!NoJob, Said

\* The document of ranges, its two stacks and its exports implement what
\* EditDecisions promises: a set of kept units and of smooth cuts, one line of
\* revisions to walk along, no edit discarded under a running export, and
\* exports that are known by the revision they were started with.
THEOREM Refinement ==
  ASSUME EditAssumption
  PROVE  Spec => KeepsDecisions
<1>1. IInv => TypeOK
  BY DEF IInv
<1>2. Init => Decisions!Init
  BY DecisionsBegin
<1>3. TypeOK /\ DiscardInv /\ [Next]_vars => [Decisions!Next]_(Decisions!vars)
  BY DecisionsStep
<1> QED
  BY <1>1, <1>2, <1>3, EditorInductive, DiscardsAreAsked, PTL
     DEF Spec, KeepsDecisions, Decisions!Spec

\* What a removal or a trim takes or keeps is what the two handles enclose on
\* the program timeline, content by content, whatever was removed between them
\* before.
THEOREM SelectionTheorem ==
  ASSUME EditAssumption
  PROVE  Spec => EditsWhatIsSelected
<1>1. IInv /\ [Next]_vars => [SelectionIsEdited]_vars
  BY SelectionIsTheEdit DEF IInv, TypeOK
<1> QED
  BY <1>1, EditorInductive, PTL DEF Spec, EditsWhatIsSelected
=============================================================================
