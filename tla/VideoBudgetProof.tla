-------------------------- MODULE VideoBudgetProof --------------------------
(***************************************************************************)
(* The dummy videos of VideoBudget fit, for any size of the largest        *)
(* picture, any context, any number of images and videos, and any temporal *)
(* patch.  With temporal patches of T frames, n frames have                *)
(*     n - T + 1  <=  T * GridT(n)  <=  n + T - 1                          *)
(* so the videos that share n frames have at most one temporal patch each  *)
(* more than one video of n frames.                                        *)
(***************************************************************************)
EXTENDS VideoBudget, TLAPS

T == TemporalPatchSize

LEMMA Numbers == T \in Nat \ {0} /\ MergeSize \in Nat \ {0} /\ MaxFramesPerVideo \in Nat \ {0}
  BY VideoBudgetAssumption DEF VideoBudgetAssumption, T

-----------------------------------------------------------------------------
(* Division.                                                               *)
LEMMA QuotientOf ==
  ASSUME NEW n \in Nat, NEW c \in Nat \ {0}
  PROVE  /\ n \div c \in Nat /\ n % c \in 0..(c - 1)
         /\ n = c * (n \div c) + (n % c) /\ c * (n \div c) \in Nat
<1>1. n \div c \in Int
  OBVIOUS
<1>2. n = c * (n \div c) + (n % c) /\ (n % c) \in 0..c - 1
  OBVIOUS
<1>3. n \div c >= 0
  BY <1>1, <1>2
<1> QED
  BY <1>1, <1>2, <1>3

LEMMA WholeTimes ==
  ASSUME NEW n \in Nat, NEW c \in Nat \ {0}, n % c = 0
  PROVE  \E x \in Nat : n = c * x
<1>1. PICK x \in Nat, y \in Nat : x = n \div c /\ y = c * x
  BY QuotientOf
<1>2. n = y + 0
  BY <1>1, QuotientOf
<1> QED
  BY <1>1, <1>2

LEMMA Times ==
  ASSUME NEW a \in Nat, NEW b \in Nat, NEW c \in Nat, a <= b
  PROVE  c * a \in Nat /\ c * b \in Nat /\ c * a <= c * b
<1>1. c * (b - a) >= 0
  OBVIOUS
<1>2. c * (b - a) = c * b - c * a
  OBVIOUS
<1> QED
  BY <1>1, <1>2

LEMMA SmallerFactor ==
  ASSUME NEW a \in Nat, NEW b \in Nat, NEW c \in Nat \ {0}, c * a < c * b
  PROVE  a < b
<1> SUFFICES ASSUME b <= a PROVE FALSE
  OBVIOUS
<1> QED
  BY Times

LEMMA QuotientIs ==
  ASSUME NEW n \in Nat, NEW c \in Nat \ {0}, NEW q \in Nat, NEW r \in 0..(c - 1),
         n = c * q + r
  PROVE  n \div c = q
<1>1. PICK k \in Nat, s \in 0..(c - 1) : k = n \div c /\ n = c * k + s
  BY QuotientOf
<1>2. c * q \in Nat /\ c * k \in Nat
  OBVIOUS
<1>3. c * (q + 1) = c * q + c /\ c * (k + 1) = c * k + c
  OBVIOUS
<1>4. c * q < c * (k + 1) /\ c * k < c * (q + 1)
  BY <1>1, <1>2, <1>3
<1>5. q < k + 1 /\ k < q + 1
  BY <1>4, SmallerFactor
<1> QED
  BY <1>1, <1>5

LEMMA MaxOfTwo ==
  ASSUME NEW a \in Int, NEW b \in Int
  PROVE  Max({a, b}) = IF a > b THEN a ELSE b
<1> DEFINE m == IF a > b THEN a ELSE b
<1>1. m \in {a, b} /\ \A y \in {a, b} : m >= y
  OBVIOUS
<1>2. \A n \in {a, b} : (\A y \in {a, b} : n >= y) => n = m
  BY <1>1
<1> HIDE DEF m
<1>3. Max({a, b}) = m
  BY <1>1, <1>2 DEF Max
<1> QED
  BY <1>3 DEF m

LEMMA MinOfBoth ==
  ASSUME NEW a \in Int, NEW b \in Int
  PROVE  Min({a, b}) = IF a < b THEN a ELSE b
<1> DEFINE m == IF a < b THEN a ELSE b
<1>1. m \in {a, b} /\ \A y \in {a, b} : m <= y
  OBVIOUS
<1>2. \A n \in {a, b} : (\A y \in {a, b} : n <= y) => n = m
  BY <1>1
<1> HIDE DEF m
<1>3. Min({a, b}) = m
  BY <1>1, <1>2 DEF Min
<1> QED
  BY <1>3 DEF m

-----------------------------------------------------------------------------
(* The temporal grid.                                                      *)
LEMMA GridTIs ==
  ASSUME NEW f \in Nat
  PROVE  \E q \in Nat, r \in 0..(T - 1) :
           /\ f = T * q + r
           /\ LET patches == IF 2 * r >= T THEN q + 1 ELSE q
              IN  GridT(f) = IF patches > 1 THEN patches ELSE 1
<1>1. PICK q \in Nat, r \in 0..(T - 1) : f = T * q + r /\ r = f % T
  BY Numbers, QuotientOf
<1>2. PICK p \in Nat : p = IF 2 * r >= T THEN q + 1 ELSE q
  OBVIOUS
<1>3. PICK s \in 0..(T - 1) : s = IF 2 * r >= T THEN 2 * r - T ELSE 2 * r
  <2>1. (IF 2 * r >= T THEN 2 * r - T ELSE 2 * r) \in 0..(T - 1)
    BY Numbers
  <2> QED
    BY <2>1
<1>4. f + r \in Nat /\ f + r = T * p + s
  <2>1. T * (q + 1) = T * q + T /\ T * q \in Nat
    BY Numbers
  <2>2. PICK m \in Nat : m = T * q
    BY <2>1
  <2>3. T * p = IF 2 * r >= T THEN m + T ELSE m
    BY <1>2, <2>1, <2>2
  <2> QED
    BY <1>1, <1>3, <2>2, <2>3, Numbers
<1>5. (f + r) \div T = p
  BY <1>4, Numbers, QuotientIs
<1>6. GridT(f) = Max({p, 1})
  BY <1>1, <1>5 DEF GridT, T
<1>7. GridT(f) = IF p > 1 THEN p ELSE 1
  BY <1>6, MaxOfTwo
<1> QED
  BY <1>1, <1>2, <1>7

LEMMA GridTBounds ==
  ASSUME NEW f \in Nat, f > 0
  PROVE  /\ GridT(f) \in Nat /\ GridT(f) > 0 /\ T * GridT(f) \in Nat
         /\ T * GridT(f) <= f + T - 1 /\ f - T + 1 <= T * GridT(f)
<1>1. PICK q \in Nat, r \in 0..(T - 1) :
        /\ f = T * q + r
        /\ LET patches == IF 2 * r >= T THEN q + 1 ELSE q
           IN  GridT(f) = IF patches > 1 THEN patches ELSE 1
  BY GridTIs
<1>2. PICK g \in Nat : g = GridT(f) /\ g > 0
  BY <1>1
<1>3. T * (q + 1) = T * q + T /\ T * q \in Nat /\ T * 1 = T
  BY Numbers
<1>4. q = 0 => T * q = 0
  BY Numbers
<1>5. CASE g = q
  BY <1>1, <1>2, <1>3, <1>5, Numbers
<1>6. CASE g = q + 1
  <2>1. r > 0
    BY <1>1, <1>2, <1>4, <1>6, Numbers
  <2> QED
    BY <1>1, <1>2, <1>3, <1>6, <2>1, Numbers
<1>7. g = q \/ g = q + 1
  BY <1>1, <1>2
<1> QED
  BY <1>2, <1>5, <1>6, <1>7

LEMMA GridTNat == ASSUME NEW f \in Nat PROVE GridT(f) \in Nat
<1>1. PICK q \in Nat, r \in 0..(T - 1) :
        GridT(f) = LET patches == IF 2 * r >= T THEN q + 1 ELSE q
                   IN  IF patches > 1 THEN patches ELSE 1
  BY GridTIs
<1> QED
  BY <1>1, Numbers

LEMMA GridTGrows ==
  ASSUME NEW e \in Nat, NEW f \in Nat, e <= f
  PROVE  GridT(e) <= GridT(f)
<1>1. PICK q \in Nat, r \in 0..(T - 1) :
        /\ e = T * q + r
        /\ LET patches == IF 2 * r >= T THEN q + 1 ELSE q
           IN  GridT(e) = IF patches > 1 THEN patches ELSE 1
  BY GridTIs
<1>2. PICK k \in Nat, s \in 0..(T - 1) :
        /\ f = T * k + s
        /\ LET patches == IF 2 * s >= T THEN k + 1 ELSE k
           IN  GridT(f) = IF patches > 1 THEN patches ELSE 1
  BY GridTIs
<1>3. T * q < T * (k + 1)
  <2>1. T * (k + 1) = T * k + T /\ T * k \in Nat /\ T * q \in Nat
    BY Numbers
  <2> QED
    BY <1>1, <1>2, <2>1, Numbers
<1>4. q < k + 1
  BY <1>3, Numbers, SmallerFactor
<1>5. CASE q = k
  <2>1. r <= s
    <3>1. T * q = T * k /\ T * q \in Nat
      BY <1>5, Numbers
    <3> QED
      BY <1>1, <1>2, <3>1
  <2> QED
    BY <1>1, <1>2, <1>5, <2>1, Numbers
<1>6. CASE q < k
  BY <1>1, <1>2, <1>6, Numbers
<1> QED
  BY <1>4, <1>5, <1>6

(* Videos that share n frames evenly have at most one temporal patch each  *)
(* more than one video of all of them.                                     *)
LEMMA SharingCosts ==
  ASSUME NEW n \in Nat, NEW v \in Nat \ {0}, v <= n, NEW d \in Nat, d > 0, d <= n \div v
  PROVE  v * GridT(d) \in Nat /\ v * GridT(d) <= GridT(n) + v
<1>1. PICK e \in Nat, s \in 0..(v - 1) : e = n \div v /\ n = v * e + s
  BY QuotientOf
<1>2. PICK x \in Nat, y \in Nat, z \in Nat : x = GridT(d) /\ y = GridT(e) /\ z = GridT(n)
  BY <1>1, GridTBounds
<1>3. x <= y
  BY <1>1, <1>2, GridTGrows
<1>4. v * x \in Nat /\ v * y \in Nat /\ v * x <= v * y
  BY <1>3, Times
<1>5. T * y <= e + T - 1 /\ n - T + 1 <= T * z /\ T * y \in Nat /\ T * z \in Nat
  BY <1>1, <1>2, GridTBounds
<1>6. v * (T * y) <= v * (e + T - 1)
  BY <1>5, Numbers, Times
<1>7. v * (e + T - 1) = v * e + v * T - v /\ v * (T * y) = T * (v * y)
  BY Numbers
<1>8. T * (z + v + 1) = T * z + v * T + T
  BY Numbers
<1>9. v * e \in Nat /\ v * T \in Nat /\ T * (v * y) \in Nat
  BY <1>4, Numbers
<1>10. T * (v * y) < T * (z + v + 1)
  BY <1>1, <1>5, <1>6, <1>7, <1>8, <1>9, Numbers
<1>11. v * y < z + v + 1
  BY <1>4, <1>10, Numbers, SmallerFactor
<1> QED
  BY <1>2, <1>4, <1>11
-----------------------------------------------------------------------------
(* Tokens: a picture is a whole number of merged patches.                  *)
LEMMA TokensOf ==
  ASSUME grid \in PictureGrids
  PROVE  \E a \in Nat \ {0} : \A f \in Nat : NumVisionTokens(f) = GridT(f) * a
<1>1. /\ grid[1] \in Nat \ {0} /\ grid[1] % MergeSize = 0
      /\ grid[2] \in Nat \ {0} /\ grid[2] % MergeSize = 0
  BY VideoBudgetAssumption DEF VideoBudgetAssumption
<1>2. PICK m \in Nat \ {0} : m = MergeSize
  BY Numbers
<1>3. PICK x \in Nat, y \in Nat : grid[1] = m * x /\ grid[2] = m * y
  <2>1. PICK k \in Nat : k = grid[1] /\ k % m = 0
    BY <1>1, <1>2
  <2>2. PICK x \in Nat : k = m * x
    BY <2>1, WholeTimes
  <2>3. PICK l \in Nat : l = grid[2] /\ l % m = 0
    BY <1>1, <1>2
  <2>4. PICK y \in Nat : l = m * y
    BY <2>3, WholeTimes
  <2> QED
    BY <2>1, <2>2, <2>3, <2>4
<1>4. x # 0 /\ y # 0
  BY <1>1, <1>3
<1>5. x * y \in Nat \ {0} /\ m * m \in Nat \ {0}
  BY <1>4
<1>6. ASSUME NEW f \in Nat PROVE NumVisionTokens(f) = GridT(f) * (x * y)
  <2>1. PICK g \in Nat : g = GridT(f)
    BY GridTNat
  <2>2. PICK n \in Nat : n = g * (x * y)
    OBVIOUS
  <2>3. g * (m * x) * (m * y) = (m * m) * n
    BY <2>2
  <2>4. (m * m) * n \in Nat /\ (m * m) * n = (m * m) * n + 0 /\ 0 \in 0..(m * m - 1)
    BY <1>5
  <2>5. ((m * m) * n) \div (m * m) = n
    BY <1>5, <2>4, QuotientIs
  <2> QED
    BY <1>2, <1>3, <2>1, <2>2, <2>3, <2>5 DEF NumVisionTokens
<1> QED
  BY <1>5, <1>6

LEMMA TokensGrow ==
  ASSUME grid \in PictureGrids, NEW e \in Nat, NEW f \in Nat, e <= f
  PROVE  /\ NumVisionTokens(e) \in Nat /\ NumVisionTokens(f) \in Nat
         /\ NumVisionTokens(e) <= NumVisionTokens(f)
<1>1. PICK a \in Nat \ {0} : \A g \in Nat : NumVisionTokens(g) = GridT(g) * a
  BY TokensOf
<1>2. PICK x \in Nat, y \in Nat : x = GridT(e) /\ y = GridT(f)
  BY GridTNat
<1>3. x <= y
  BY <1>2, GridTGrows
<1>4. a * x \in Nat /\ a * y \in Nat /\ a * x <= a * y
  BY <1>3, Times
<1>5. NumVisionTokens(e) = a * x /\ NumVisionTokens(f) = a * y
  BY <1>1, <1>2
<1> QED
  BY <1>4, <1>5

(* Sharing in tokens: SharingCosts times the patches of a frame.           *)
LEMMA SharedTokens ==
  ASSUME grid \in PictureGrids,
         NEW n \in Nat, NEW v \in Nat \ {0}, v <= n, NEW d \in Nat, d > 0, d <= n \div v
  PROVE  v * NumVisionTokens(d) <= NumVisionTokens(n) + v * NumVisionTokens(1)
<1>1. PICK a \in Nat \ {0} : \A g \in Nat : NumVisionTokens(g) = GridT(g) * a
  BY TokensOf
<1>2. PICK x \in Nat, z \in Nat, o \in Nat : x = GridT(d) /\ z = GridT(n) /\ o = GridT(1)
  BY GridTNat
<1>3. v * x \in Nat /\ v * x <= z + v
  BY <1>2, SharingCosts
<1>4. o > 0
  BY <1>2, GridTBounds
<1>5. v * 1 <= v * o /\ v * o \in Nat
  BY <1>4, Times
<1>6. v * x <= z + v * o
  BY <1>3, <1>5
<1>7. a * (v * x) <= a * (z + v * o)
  <2>1. z + v * o \in Nat
    BY <1>5
  <2> QED
    BY <1>3, <1>6, <2>1, Times
<1>8. a * (v * x) = v * (x * a) /\ a * (z + v * o) = z * a + v * (o * a)
  OBVIOUS
<1> QED
  BY <1>1, <1>2, <1>7, <1>8

-----------------------------------------------------------------------------
(* The loop has counted frames that fit, and stopped at the first that do  *)
(* not.                                                                    *)
BudgetInv ==
    /\ grid \in PictureGrids /\ seqLen \in SeqLens
    /\ mmCounts \in [{"image", "video"} -> 0..MaxCount]
    /\ numFrames \in Nat
    /\ numFrames > 0 => NumVisionTokens(numFrames) <= ForVideos
    /\ phase = "made" => ~OneMoreFits /\ dummy = FramesPerVideo

LEMMA BudgetInvInit == BudgetInit => BudgetInv
  BY DEF BudgetInit, BudgetInv

LEMMA BudgetInvStep ==
  ASSUME BudgetInv, [BudgetNext]_<<budget_vars, phase>>
  PROVE  BudgetInv'
<1>1. CASE CountOneMore
  <2>1. grid' = grid /\ seqLen' = seqLen /\ mmCounts' = mmCounts /\ phase' = "counting"
    BY <1>1 DEF CountOneMore
  <2>2. PICK n \in Nat : n = numFrames + 1
    BY DEF BudgetInv
  <2>3. numFrames' = n /\ NumVisionTokens(n) <= ForVideos
    BY <1>1, <2>2 DEF CountOneMore, OneMoreFits
  <2>4. NumVisionTokens(numFrames)' = NumVisionTokens(n) /\ ForVideos' = ForVideos
    BY <2>1, <2>3 DEF NumVisionTokens, ForVideos, MaxImageTokens
  <2>5. grid' \in PictureGrids /\ seqLen' \in SeqLens /\ numFrames' \in Nat
        /\ mmCounts' \in [{"image", "video"} -> 0..MaxCount]
    BY <2>1, <2>3 DEF BudgetInv
  <2>6. NumVisionTokens(numFrames)' <= ForVideos'
    BY <2>3, <2>4
  <2>7. phase' # "made"
    BY <2>1
  <2> QED
    BY <2>5, <2>6, <2>7 DEF BudgetInv
<1>2. CASE MakeDummies
  <2>1. /\ grid' = grid /\ seqLen' = seqLen /\ mmCounts' = mmCounts /\ numFrames' = numFrames
        /\ ~OneMoreFits /\ dummy' = FramesPerVideo
    BY <1>2 DEF MakeDummies
  <2>2. ForVideos' = ForVideos /\ FramesPerVideo' = FramesPerVideo
        /\ NumVisionTokens(numFrames)' = NumVisionTokens(numFrames)
    BY <2>1 DEF NumVisionTokens, ForVideos, MaxImageTokens, FramesPerVideo
  <2>3. ~OneMoreFits'
    BY <2>1 DEF OneMoreFits, NumVisionTokens, ForVideos, MaxImageTokens
  <2> QED
    BY <2>1, <2>2, <2>3 DEF BudgetInv
<1>3. CASE UNCHANGED <<budget_vars, phase>>
  BY <1>3 DEF budget_vars, BudgetInv, OneMoreFits, NumVisionTokens, ForVideos,
     MaxImageTokens, FramesPerVideo
<1> QED
  BY <1>1, <1>2, <1>3 DEF BudgetNext

(* A dummy has a frame at least, and no more than its share if it is one.  *)
LEMMA DummyIsShare ==
  ASSUME BudgetInv, phase = "made"
  PROVE  /\ dummy \in Nat /\ dummy > 0
         /\ mmCounts.video > 0 /\ numFrames >= mmCounts.video =>
              dummy <= numFrames \div mmCounts.video
         /\ mmCounts.video = 1 /\ dummy > 1 => dummy <= numFrames
<1>1. PICK v \in Nat : v = mmCounts.video
  BY VideoBudgetAssumption DEF BudgetInv, VideoBudgetAssumption
<1>2. PICK w \in Nat \ {0} : w = Max({v, 1}) /\ (v > 0 => w = v)
  <2>1. Max({v, 1}) = IF v > 1 THEN v ELSE 1
    BY MaxOfTwo
  <2> QED
    BY <2>1
<1>3. PICK n \in Nat : n = numFrames
  BY DEF BudgetInv
<1>4. PICK s \in Nat : s = n \div w
  BY QuotientOf
<1>5. PICK u \in Nat : u = Min({s, MaxFramesPerVideo}) /\ u <= s
  <2>1. Min({s, MaxFramesPerVideo}) = IF s < MaxFramesPerVideo THEN s ELSE MaxFramesPerVideo
    BY Numbers, MinOfBoth
  <2> QED
    BY <2>1, Numbers
<1>6. dummy = Max({u, 1})
  BY <1>1, <1>2, <1>3, <1>4, <1>5 DEF BudgetInv, FramesPerVideo
<1>7. dummy = IF u > 1 THEN u ELSE 1
  BY <1>6, MaxOfTwo
<1>8. ASSUME v > 0, n >= v PROVE dummy <= n \div v
  <2>1. s > 0
    <3>1. PICK r \in 0..(v - 1) : n = v * s + r
      BY <1>2, <1>4, <1>8, QuotientOf
    <3>2. s = 0 => v * s = 0
      OBVIOUS
    <3> QED
      BY <1>8, <3>1, <3>2
  <2> QED
    BY <1>2, <1>4, <1>5, <1>7, <1>8, <2>1
<1>9. ASSUME v = 1, dummy > 1 PROVE dummy <= n
  <2>1. PICK r \in 0..(1 - 1) : n = 1 * s + r
    BY <1>2, <1>4, <1>9, QuotientOf
  <2> QED
    BY <1>5, <1>7, <1>9, <2>1
<1> QED
  BY <1>1, <1>3, <1>7, <1>8, <1>9

LEMMA BudgetIsNumbers ==
  ASSUME BudgetInv
  PROVE  /\ ForVideos \in Int /\ ForVideos = seqLen - MaxImageTokens * mmCounts.image
         /\ seqLen \in Nat /\ MaxImageTokens * mmCounts.image \in Nat
         /\ mmCounts.video \in Nat
<1>1. NumVisionTokens(1) \in Nat /\ seqLen \in Nat
  BY TokensGrow, VideoBudgetAssumption DEF BudgetInv, VideoBudgetAssumption
<1>2. mmCounts.image \in Nat /\ mmCounts.video \in Nat
  BY VideoBudgetAssumption DEF BudgetInv, VideoBudgetAssumption
<1>3. NumVisionTokens(1) * mmCounts.image \in Nat
  BY <1>1, <1>2
<1> QED
  BY <1>1, <1>2, <1>3 DEF ForVideos, MaxImageTokens

LEMMA NoMoreFit ==
  ASSUME BudgetInv, phase = "made", NEW n \in Nat, n > numFrames
  PROVE  NumVisionTokens(n) > ForVideos
<1>1. numFrames + 1 \in Nat /\ numFrames + 1 <= n /\ grid \in PictureGrids
  BY DEF BudgetInv
<1>2. /\ NumVisionTokens(numFrames + 1) \in Nat /\ NumVisionTokens(n) \in Nat
      /\ NumVisionTokens(numFrames + 1) <= NumVisionTokens(n)
  BY <1>1, TokensGrow
<1>3. ~(NumVisionTokens(numFrames + 1) <= ForVideos)
  BY DEF BudgetInv, OneMoreFits
<1> QED
  BY <1>2, <1>3, BudgetIsNumbers

LEMMA BudgetFits == ASSUME BudgetInv PROVE DummyVideosFit
<1> SUFFICES ASSUME phase = "made" PROVE DummyVideosFit
  BY DEF DummyVideosFit, FramesAreTheMost, DummyVideosNearlyFit, OneDummyVideoFits
<1>1. FramesAreTheMost
  <2>1. \A n \in numFrames + 1..numFrames + 2 * TemporalPatchSize :
          n \in Nat /\ n > numFrames
    BY Numbers DEF BudgetInv, T
  <2> QED
    BY <2>1, NoMoreFit DEF FramesAreTheMost, BudgetInv
<1>2. PICK v \in Nat, n \in Nat, d \in Nat :
        v = mmCounts.video /\ n = numFrames /\ d = dummy
  BY BudgetIsNumbers, DummyIsShare DEF BudgetInv
<1>3. PICK seq \in Nat, images \in Nat :
        seq = seqLen /\ images = MaxImageTokens * mmCounts.image
  BY BudgetIsNumbers
<1>4. ForVideos = seq - images
  BY <1>3, BudgetIsNumbers
<1>5. PICK all \in Nat, each \in Nat, one \in Nat :
        /\ all = NumVisionTokens(n) /\ each = NumVisionTokens(d) /\ one = NumVisionTokens(1)
  BY TokensGrow DEF BudgetInv
<1>6. n > 0 => all <= seq - images
  BY <1>2, <1>4, <1>5 DEF BudgetInv
<1>7. ASSUME v > 0, n >= v PROVE v * each + images <= seq + v * one
  <2>1. d > 0 /\ d <= n \div v
    BY <1>2, <1>7, DummyIsShare
  <2>2. v * each <= all + v * one
    BY <1>5, <1>7, <2>1, SharedTokens DEF BudgetInv
  <2>3. v * each \in Nat /\ v * one \in Nat
    OBVIOUS
  <2> QED
    BY <1>6, <1>7, <2>2, <2>3
<1>8. ASSUME v = 1, one + images <= seq PROVE v * each + images <= seq
  <2>1. d > 0 /\ (d > 1 => d <= n)
    BY <1>2, <1>8, DummyIsShare
  <2>2. CASE d = 1
    BY <1>5, <1>8, <2>2
  <2>3. CASE d > 1
    <3>1. d <= n /\ n > 0
      BY <2>1, <2>3
    <3>2. each <= all
      BY <1>5, <3>1, TokensGrow DEF BudgetInv
    <3> QED
      BY <1>6, <1>8, <3>1, <3>2
  <2> QED
    BY <2>1, <2>2, <2>3
<1>9. DummyVideosNearlyFit
  BY <1>2, <1>3, <1>5, <1>7 DEF DummyVideosNearlyFit, VideoTokens, OneFrame
<1>10. OneDummyVideoFits
  BY <1>2, <1>3, <1>5, <1>8 DEF OneDummyVideoFits, VideoTokens, OneFrame
<1> QED
  BY <1>1, <1>9, <1>10 DEF DummyVideosFit

NoMoreFramesFit ==
    phase = "made" => \A n \in Nat : n > numFrames => NumVisionTokens(n) > ForVideos

(* The frames that _get_max_video_frames counts are the most that fit,     *)
(* whatever number one compares with, and the dummy videos made of them    *)
(* fit up to a temporal patch each, or exactly if there is one: for any    *)
(* picture of whole merged patches, any context and any counts             *)
(* (qwen2_vl.py:918, :943).                                                *)
THEOREM DummiesFit == BudgetSpec => [](DummyVideosFit /\ NoMoreFramesFit)
<1>1. BudgetInv => DummyVideosFit /\ NoMoreFramesFit
  BY BudgetFits, NoMoreFit DEF NoMoreFramesFit
<1>2. BudgetInv /\ [BudgetNext]_<<budget_vars, phase>> => BudgetInv'
  BY BudgetInvStep
<1> QED
  BY <1>1, <1>2, BudgetInvInit, PTL DEF BudgetSpec
=============================================================================
