--------------------------- MODULE LoadTickMapProofs ---------------------------
(***************************************************************************)
(* The tick map is the range it was asked for, for every pool, spacing and *)
(* range, in whatever order the reads come back.  The searches bring their *)
(* invariants from WalkProofs.                                             *)
(***************************************************************************)
EXTENDS LoadTickMap, TLAPS, FiniteSetTheorems

-------------------------------------------------------------------------------
(* The searches of a load are searches of TickWalk.                        *)

\* What next_tick_gt is asked by a load of Loads.
UpQuery(l, t) ==
    [op |-> "gt", start |-> t, initializedOnly |-> TRUE,
     spacing |-> l.spacing, initialized |-> l.initialized]
UpQueries == {UpQuery(l, t) : l \in Loads, t \in MinTick .. MaxTick}

W == INSTANCE WalkProofs WITH Queries <- UpQueries

\* The arithmetic that comes with the theorems is that of TickBitmap.
LEMMA SameBitmap ==
    /\ W!I24 = I24
    /\ \A t, s : W!CompressTick(t, s) = CompressTick(t, s)
    /\ \A t, s : W!AtUpperBound(t, s) <=> AtUpperBound(t, s)
    /\ \A c : W!WordPos(c) = WordPos(c) /\ W!BitPos(c) = BitPos(c)
    /\ \A S, w : W!WordOf(S, w) = WordOf(S, w)
<1>1. W!I24 = I24
  <2>1. W!I24Half = I24Half
    BY SMT DEF W!I24Half, I24Half
  <2>2. QED
    BY <2>1 DEF W!I24, I24
<1>2. \A t, s : W!CompressTick(t, s) = CompressTick(t, s)
  BY DEF W!CompressTick, CompressTick, W!Quot, Quot, W!Rem, Rem
<1>3. \A t, s : W!AtUpperBound(t, s) <=> AtUpperBound(t, s)
  BY DEF W!AtUpperBound, AtUpperBound
<1>4. \A c : W!WordPos(c) = WordPos(c) /\ W!BitPos(c) = BitPos(c)
  BY DEF W!WordPos, WordPos, W!BitPos, BitPos
<1>5. \A S, w : W!WordOf(S, w) = WordOf(S, w)
  BY <1>4 DEF W!WordOf, WordOf
<1>6. QED
  BY <1>1, <1>2, <1>3, <1>4, <1>5

\* What TickWalk assumes of its queries holds of those.
LEMMA SearchesFit ==
    /\ \A q \in UpQueries :
           /\ q.spacing \in Nat \ {0}
           /\ q.start \in MinTick .. MaxTick
           /\ \A c \in q.initialized : c \in Int /\ c * q.spacing \in MinTick .. MaxTick
           /\ q.op \in W!WalkOps \cup W!WordOps
           /\ q.initializedOnly \in BOOLEAN
    /\ \A q \in UpQueries :
           /\ MaxTick % (q.spacing * WordBits) # 0
           /\ (MinTick + q.spacing) % (q.spacing * WordBits) # 0
    /\ \A q \in UpQueries :
           /\ WordBits * q.spacing \in W!I24
           /\ 2 * MinTick \in W!I24 /\ 2 * MaxTick + q.spacing \in W!I24
<1>1. ASSUME NEW q \in UpQueries
      PROVE  \E l \in Loads : /\ q.spacing = l.spacing /\ q.initialized = l.initialized
                              /\ q.start \in MinTick .. MaxTick
                              /\ q.op = "gt" /\ q.initializedOnly = TRUE
  BY DEF UpQueries, UpQuery
<1>2. ASSUME NEW q \in UpQueries
      PROVE  /\ q.spacing \in Nat \ {0}
             /\ q.start \in MinTick .. MaxTick
             /\ \A c \in q.initialized : c \in Int /\ c * q.spacing \in MinTick .. MaxTick
             /\ q.op \in W!WalkOps \cup W!WordOps
             /\ q.initializedOnly \in BOOLEAN
  BY <1>1, LoadsAssumption DEF W!WalkOps
<1>3. ASSUME NEW q \in UpQueries
      PROVE  /\ MaxTick % (q.spacing * WordBits) # 0
             /\ (MinTick + q.spacing) % (q.spacing * WordBits) # 0
             /\ WordBits * q.spacing \in W!I24
             /\ 2 * MinTick \in W!I24 /\ 2 * MaxTick + q.spacing \in W!I24
  <2>1. PICK l \in Loads : q.spacing = l.spacing
    BY <1>1
  <2>2. QED
    BY <2>1, BoundsAssumption, SameBitmap
<1>4. QED
  BY <1>2, <1>3

LEMMA Floors ==
    ASSUME NEW t \in Int, NEW s \in Nat \ {0}
    PROVE  CompressTick(t, s) = t \div s
<1>1. W!CompressTick(t, s) = t \div s
  BY W!CompressIsFloor, SearchesFit, BitmapAssumption
<1>2. QED
  BY <1>1, SameBitmap

LEMMA I24HalfIs == I24Half \in Nat
  BY SMT DEF I24Half

\* Facts of WalkProofs, brought over.
LEMMA Smallest ==
    ASSUME NEW T \in SUBSET Nat, T # {}
    PROVE  \E x \in T : \A y \in T : x <= y
  BY W!SmallestExists, SearchesFit, BitmapAssumption

LEMMA MultiplesApart ==
    ASSUME NEW x \in Int, NEW y \in Int, NEW s \in Nat \ {0}, x < y
    PROVE  x * s \in Int /\ y * s \in Int /\ x * s + s <= y * s
<1>1. x * s + s <= y * s
  BY W!Apart, SearchesFit, BitmapAssumption
<1>2. QED
  BY <1>1

-------------------------------------------------------------------------------
(* normalize_tick.                                                         *)

\* The multiple at or below a tick.
FloorTick(t, s) == (t \div s) * s

LEMMA FloorTickIs ==
    ASSUME NEW t \in Int, NEW s \in Nat \ {0}
    PROVE  /\ t \div s \in Int /\ FloorTick(t, s) \in Int
           /\ FloorTick(t, s) <= t /\ t < FloorTick(t, s) + s
<1> DEFINE d == t \div s
<1>1. d \in Int /\ s * d <= t /\ t < s * d + s
  OBVIOUS
<1> HIDE DEF d
<1>2. d * s = s * d /\ s * d \in Int
  BY <1>1
<1>3. QED
  BY <1>1, <1>2 DEF FloorTick, d

\* An interval as long as the spacing holds one multiple.
LEMMA OneMultiple ==
    ASSUME NEW x \in Int, NEW y \in Int, NEW s \in Nat \ {0}, NEW low \in Int,
           low <= x * s, x * s < low + s, low <= y * s, y * s < low + s
    PROVE  x = y
<1>1. CASE x < y
  <2>1. x * s + s <= y * s /\ x * s \in Int /\ y * s \in Int
    BY <1>1, MultiplesApart
  <2>2. QED
    BY <2>1
<1>2. CASE y < x
  <2>1. y * s + s <= x * s /\ x * s \in Int /\ y * s \in Int
    BY <1>2, MultiplesApart
  <2>2. QED
    BY <2>1
<1>3. QED
  BY <1>1, <1>2

\* The multiple at or below the tick one spacing on is one spacing on.
LEMMA FloorTickSteps ==
    ASSUME NEW t \in Int, NEW s \in Nat \ {0}
    PROVE  /\ FloorTick(t + s, s) = FloorTick(t, s) + s
           /\ FloorTick(t - s, s) = FloorTick(t, s) - s
<1>1. ASSUME NEW u \in Int PROVE FloorTick(u + s, s) = FloorTick(u, s) + s
  <2> DEFINE x == u \div s + 1
             y == (u + s) \div s
  <2>1. u \div s \in Int /\ FloorTick(u, s) \in Int
        /\ FloorTick(u, s) <= u /\ u < FloorTick(u, s) + s
    BY FloorTickIs
  <2>2. x \in Int /\ x * s = FloorTick(u, s) + s
    BY <2>1 DEF FloorTick
  <2>3. u + s \in Int
    OBVIOUS
  <2>4. y \in Int /\ y * s = FloorTick(u + s, s) /\ y * s \in Int
        /\ y * s <= u + s /\ u + s < y * s + s
    BY <2>3, FloorTickIs DEF FloorTick
  <2> HIDE DEF x, y
  <2>5. x = y
    <3> DEFINE low == u + 1
    <3>1. low \in Int /\ low <= x * s /\ x * s < low + s /\ low <= y * s /\ y * s < low + s
      BY <2>1, <2>2, <2>4
    <3> HIDE DEF low
    <3>2. QED
      BY <2>2, <2>4, <3>1, OneMultiple
  <2>6. QED
    BY <2>2, <2>4, <2>5
<1>2. t - s \in Int /\ (t - s) + s = t
  OBVIOUS
<1>3. FloorTick(t, s) = FloorTick(t - s, s) + s
  BY <1>1, <1>2
<1>4. QED
  BY <1>1, <1>2, <1>3, FloorTickIs

\* The valid ticks nearest to the bounds.
LEMMA ValidTicksAre ==
    ASSUME NEW s \in Nat \ {0}
    PROVE  /\ \E x \in Int : MinValidTick(s) = x * s
           /\ \E x \in Int : MaxValidTick(s) = x * s
           /\ MinValidTick(s) \in Int /\ MaxValidTick(s) \in Int
           /\ MinTick <= MinValidTick(s) /\ MinValidTick(s) < MinTick + s
           /\ MaxTick - s < MaxValidTick(s) /\ MaxValidTick(s) <= MaxTick
           /\ MinValidTick(s) <= 0 /\ 0 <= MaxValidTick(s)
<1>1. -MinTick \in Int /\ -MinTick > 0 /\ MaxTick \in Int /\ MaxTick > 0
      /\ MinTick \in Int /\ MinTick < 0
  BY BitmapAssumption
<1>2. /\ \E x \in Int : MaxValidTick(s) = x * s
      /\ MaxValidTick(s) \in Int
      /\ MaxTick - s < MaxValidTick(s) /\ MaxValidTick(s) <= MaxTick
  <2>1. MaxValidTick(s) = FloorTick(MaxTick, s)
    BY <1>1 DEF MaxValidTick, FloorTick, Quot
  <2>2. /\ MaxTick \div s \in Int /\ FloorTick(MaxTick, s) \in Int
        /\ FloorTick(MaxTick, s) <= MaxTick /\ MaxTick < FloorTick(MaxTick, s) + s
    BY <1>1, FloorTickIs
  <2>3. \E x \in Int : MaxValidTick(s) = x * s
    BY <2>1, <2>2 DEF FloorTick
  <2>4. QED
    BY <1>1, <2>1, <2>2, <2>3
<1>3. /\ \E x \in Int : MinValidTick(s) = x * s
      /\ MinValidTick(s) \in Int
      /\ MinTick <= MinValidTick(s) /\ MinValidTick(s) < MinTick + s
  <2> DEFINE d == (-MinTick) \div s
  <2>1. MinValidTick(s) = (-d) * s
    BY <1>1 DEF MinValidTick, Quot
  <2>2. d \in Int /\ FloorTick(-MinTick, s) = d * s /\ d * s \in Int
        /\ d * s <= -MinTick /\ -MinTick < d * s + s
    BY <1>1, FloorTickIs DEF FloorTick
  <2> HIDE DEF d
  <2>3. -d \in Int /\ (-d) * s = -(d * s)
    BY <2>2
  <2>4. QED
    BY <1>1, <2>1, <2>2, <2>3
<1>4. MinValidTick(s) <= 0
  <2>1. PICK x \in Int : MinValidTick(s) = x * s
    BY <1>3
  <2>2. CASE 0 < x
    <3>1. 0 * s + s <= x * s
      BY <2>2, MultiplesApart
    <3>2. QED
      BY <1>1, <1>3, <2>1, <3>1
  <2>3. CASE x < 0
    <3>1. x * s + s <= 0 * s /\ x * s \in Int
      BY <2>3, MultiplesApart
    <3>2. QED
      BY <1>1, <1>3, <2>1, <3>1
  <2>4. QED
    BY <2>1, <2>2, <2>3
<1>5. 0 <= MaxValidTick(s)
  <2>1. PICK x \in Int : MaxValidTick(s) = x * s
    BY <1>2
  <2>2. CASE x < 0
    <3>1. x * s + s <= 0 * s /\ x * s \in Int
      BY <2>2, MultiplesApart
    <3>2. QED
      BY <1>1, <1>2, <2>1, <3>1
  <2>3. CASE 0 < x
    <3>1. 0 * s + s <= x * s
      BY <2>3, MultiplesApart
    <3>2. QED
      BY <1>1, <1>2, <2>1, <3>1
  <2>4. QED
    BY <2>1, <2>2, <2>3
<1>6. QED
  BY <1>2, <1>3, <1>4, <1>5

\* The tick normalize_tick comes to.
ClampedTick(t, s) ==
    IF FloorTick(t, s) < MinTick THEN MinValidTick(s)
    ELSE IF FloorTick(t, s) > MaxTick THEN MaxValidTick(s)
    ELSE FloorTick(t, s)

\* Where the recursion goes on, and with what.
OffTick(t, s) ==
    LET norm == CompressTick(t, s) * s IN
    \/ t > norm + s \/ t < norm - s
    \/ norm < MinTick \/ norm > MaxTick
NextOff(t, s) == IF t < 0 THEN t + s ELSE t - s

LEMMA OffIs ==
    ASSUME NEW t \in Int, NEW s \in Nat \ {0}
    PROVE  /\ CompressTick(t, s) * s = FloorTick(t, s)
           /\ OffTick(t, s) <=> FloorTick(t, s) < MinTick \/ FloorTick(t, s) > MaxTick
<1>1. CompressTick(t, s) * s = FloorTick(t, s)
  BY Floors DEF FloorTick
<1>2. /\ FloorTick(t, s) \in Int /\ FloorTick(t, s) <= t /\ t < FloorTick(t, s) + s
  BY FloorTickIs
<1>3. QED
  BY <1>1, <1>2 DEF OffTick

\* A tick that is off is on the far side of a bound, one of its spacings is not
\* across the other, and a step of the recursion does not change the result.
LEMMA OffStep ==
    ASSUME NEW t \in Int, NEW s \in Nat \ {0}, OffTick(t, s)
    PROVE  /\ NextOff(t, s) \in Int
           /\ ClampedTick(NextOff(t, s), s) = ClampedTick(t, s)
<1>1. /\ FloorTick(t, s) \in Int /\ t \div s \in Int /\ FloorTick(t, s) = (t \div s) * s
      /\ FloorTick(t, s) <= t /\ t < FloorTick(t, s) + s
  BY FloorTickIs DEF FloorTick
<1>2. FloorTick(t, s) < MinTick \/ FloorTick(t, s) > MaxTick
  BY OffIs
<1>3. /\ MinTick \in Int /\ MaxTick \in Int /\ MinTick < 0 /\ 0 < MaxTick
  BY BitmapAssumption
<1>4. CASE FloorTick(t, s) < MinTick
  <2>1. FloorTick(t, s) + s <= 0
    <3>1. t \div s < 0
      <4>1. CASE 0 < t \div s
        <5>1. 0 * s + s <= (t \div s) * s
          BY <1>1, <4>1, MultiplesApart
        <5>2. QED
          BY <1>1, <1>3, <1>4, <5>1
      <4>2. QED
        BY <1>1, <1>3, <1>4, <4>1
    <3>2. (t \div s) * s + s <= 0 * s
      BY <1>1, <3>1, MultiplesApart
    <3>3. QED
      BY <1>1, <3>2
  <2>2. t < 0
    BY <1>1, <2>1
  <2>3. NextOff(t, s) = t + s /\ t + s \in Int
        /\ FloorTick(t + s, s) = FloorTick(t, s) + s
    BY <2>2, FloorTickSteps DEF NextOff
  <2>4. ClampedTick(t, s) = MinValidTick(s)
    BY <1>4 DEF ClampedTick
  <2>5. CASE FloorTick(t, s) + s < MinTick
    BY <2>3, <2>4, <2>5 DEF ClampedTick
  <2>6. CASE MinTick <= FloorTick(t, s) + s
    <3>1. PICK x \in Int : MinValidTick(s) = x * s
      BY ValidTicksAre
    <3>2. MinTick <= x * s /\ x * s < MinTick + s
      BY <3>1, ValidTicksAre
    <3> DEFINE y == t \div s + 1
    <3>3. y \in Int /\ y * s = FloorTick(t, s) + s
      BY <1>1
    <3> HIDE DEF y
    <3>4. MinTick <= y * s /\ y * s < MinTick + s
      BY <1>1, <1>3, <1>4, <2>6, <3>3
    <3>5. x = y
      BY <1>3, <3>2, <3>3, <3>4, OneMultiple
    <3>6. FloorTick(t, s) + s = MinValidTick(s)
      BY <3>1, <3>3, <3>5
    <3>7. QED
      BY <1>1, <1>3, <2>1, <2>3, <2>4, <2>6, <3>6 DEF ClampedTick
  <2>7. QED
    BY <1>1, <1>3, <2>3, <2>5, <2>6
<1>5. CASE FloorTick(t, s) > MaxTick
  <2>1. 0 <= FloorTick(t, s) - s
    <3>1. 0 < t \div s
      <4>1. CASE t \div s < 0
        <5>1. (t \div s) * s + s <= 0 * s
          BY <1>1, <4>1, MultiplesApart
        <5>2. QED
          BY <1>1, <1>3, <1>5, <5>1
      <4>2. QED
        BY <1>1, <1>3, <1>5, <4>1
    <3>2. 0 * s + s <= (t \div s) * s
      BY <1>1, <3>1, MultiplesApart
    <3>3. QED
      BY <1>1, <3>2
  <2>2. ~(t < 0)
    BY <1>1, <2>1
  <2>3. NextOff(t, s) = t - s /\ t - s \in Int
        /\ FloorTick(t - s, s) = FloorTick(t, s) - s
    BY <2>2, FloorTickSteps DEF NextOff
  <2>4. ClampedTick(t, s) = MaxValidTick(s)
    BY <1>1, <1>3, <1>5 DEF ClampedTick
  <2>5. CASE FloorTick(t, s) - s > MaxTick
    BY <1>1, <1>3, <2>3, <2>4, <2>5 DEF ClampedTick
  <2>6. CASE FloorTick(t, s) - s <= MaxTick
    <3>1. PICK x \in Int : MaxValidTick(s) = x * s
      BY ValidTicksAre
    <3> DEFINE low == MaxTick - s + 1
               y == t \div s - 1
    <3>2. low \in Int /\ low <= x * s /\ x * s < low + s
      BY <1>3, <3>1, ValidTicksAre
    <3>3. y \in Int /\ y * s = FloorTick(t, s) - s
      BY <1>1
    <3>4. low <= y * s /\ y * s < low + s
      <4> HIDE DEF y
      <4>1. QED
        BY <1>1, <1>3, <1>5, <2>6, <3>3
    <3> HIDE DEF y, low
    <3>5. x = y
      BY <3>2, <3>3, <3>4, OneMultiple
    <3>6. FloorTick(t, s) - s = MaxValidTick(s)
      BY <3>1, <3>3, <3>5
    <3>7. QED
      BY <1>1, <1>3, <2>1, <2>3, <2>4, <2>6, <3>6 DEF ClampedTick
  <2>7. QED
    BY <1>1, <1>3, <2>3, <2>5, <2>6
<1>6. QED
  BY <1>2, <1>4, <1>5

\* normalize_tick, for every tick and spacing: the multiple at or below the
\* tick, or the valid tick nearest to it if that is out of bounds.
THEOREM NormalizeIsClamp ==
    ASSUME NEW t \in Int, NEW s \in Nat \ {0}
    PROVE  NormalizeTick(t, s) = ClampedTick(t, s)
<1> DEFINE Body(f, u) == IF ~OffTick(u, s) THEN CompressTick(u, s) * s ELSE f[NextOff(u, s)]
           norm == CHOOSE f : f = [u \in Int |-> Body(f, u)]
           clamped == [u \in Int |-> ClampedTick(u, s)]
<1>1. NormalizeTick(t, s) = norm[t]
  BY DEF NormalizeTick, OffTick, NextOff
<1>2. clamped = [u \in Int |-> Body(clamped, u)]
  <2>1. ASSUME NEW u \in Int PROVE ClampedTick(u, s) = Body(clamped, u)
    <3>1. CASE OffTick(u, s)
      BY <3>1, OffStep
    <3>2. CASE ~OffTick(u, s)
      BY <3>2, OffIs, FloorTickIs, BitmapAssumption DEF ClampedTick
    <3>3. QED
      BY <3>1, <3>2
  <2>2. QED
    BY <2>1
<1>3. norm = [u \in Int |-> Body(norm, u)]
  BY <1>2, Zenon
<1> HIDE DEF norm
<1>4. \A u \in Int : norm[u] = IF ~OffTick(u, s) THEN CompressTick(u, s) * s
                               ELSE norm[NextOff(u, s)]
  BY <1>3
<1>5. \A u \in Nat : norm[u] = ClampedTick(u, s)
  <2> DEFINE T == {u \in Nat : norm[u] # ClampedTick(u, s)}
  <2>1. SUFFICES ASSUME T # {} PROVE FALSE
    OBVIOUS
  <2>2. PICK u \in T : \A v \in T : u <= v
    BY <2>1, Smallest
  <2>3. u \in Nat /\ u \in Int /\ norm[u] # ClampedTick(u, s)
    OBVIOUS
  <2>4. OffTick(u, s)
    BY <1>4, <2>3, OffIs, FloorTickIs, BitmapAssumption DEF ClampedTick
  <2>5. NextOff(u, s) = u - s /\ u - s \in Nat /\ u - s < u
    <3>1. /\ FloorTick(u, s) \in Int /\ FloorTick(u, s) <= u /\ u < FloorTick(u, s) + s
          /\ FloorTick(u, s) = (u \div s) * s /\ u \div s \in Int
      BY <2>3, FloorTickIs DEF FloorTick
    <3>2. FloorTick(u, s) >= s
      <4>1. FloorTick(u, s) > MaxTick \/ FloorTick(u, s) < MinTick
        BY <2>3, <2>4, OffIs
      <4>2. CASE 0 < u \div s
        <5>1. 0 * s + s <= (u \div s) * s
          BY <3>1, <4>2, MultiplesApart
        <5>2. QED
          BY <3>1, <5>1
      <4>3. CASE u \div s < 0
        <5>1. (u \div s) * s + s <= 0 * s
          BY <3>1, <4>3, MultiplesApart
        <5>2. QED
          BY <2>3, <3>1, <5>1
      <4>4. CASE u \div s = 0
        BY <3>1, <4>1, <4>4, BitmapAssumption
      <4>5. QED
        BY <3>1, <4>2, <4>3, <4>4
    <3>3. QED
      BY <2>3, <3>1, <3>2 DEF NextOff
  <2>6. norm[u - s] = ClampedTick(u - s, s)
    BY <2>2, <2>3, <2>5
  <2>7. QED
    BY <1>4, <2>3, <2>4, <2>5, <2>6, OffStep
<1>6. \A u \in Nat : norm[-u] = ClampedTick(-u, s)
  <2> DEFINE T == {u \in Nat : norm[-u] # ClampedTick(-u, s)}
  <2>1. SUFFICES ASSUME T # {} PROVE FALSE
    OBVIOUS
  <2>2. PICK u \in T : \A v \in T : u <= v
    BY <2>1, Smallest
  <2>3. u \in Nat /\ -u \in Int /\ norm[-u] # ClampedTick(-u, s)
    OBVIOUS
  <2>4. OffTick(-u, s)
    BY <1>4, <2>3, OffIs, FloorTickIs, BitmapAssumption DEF ClampedTick
  <2>5. u # 0
    BY <1>5, <2>3
  <2>6. NextOff(-u, s) = -u + s /\ -u + s \in Int
    BY <2>3, <2>5 DEF NextOff
  <2>7. norm[-u + s] = ClampedTick(-u + s, s)
    <3>1. CASE -u + s >= 0
      BY <1>5, <2>3, <3>1
    <3>2. CASE -u + s < 0
      <4>1. u - s \in Nat /\ u - s < u /\ -(u - s) = -u + s
        BY <2>3, <3>2
      <4>2. QED
        BY <2>2, <2>3, <4>1
    <3>3. QED
      BY <2>3, <3>1, <3>2
  <2>8. QED
    BY <1>4, <2>3, <2>4, <2>6, <2>7, OffStep
<1>7. t \in Nat \/ (-t \in Nat /\ -(-t) = t)
  OBVIOUS
<1>8. QED
  BY <1>1, <1>5, <1>6, <1>7

\* The range of a load lies within the bounds and begins on a multiple.
LEMMA RangeIs ==
    ASSUME load \in Loads
    PROVE  /\ load.spacing \in Nat \ {0} /\ load.initialized \in SUBSET Int
           /\ \A c \in load.initialized : c * load.spacing \in MinTick .. MaxTick
           /\ StartTick \in MinTick .. MaxTick /\ EndTick \in MinTick .. MaxTick
           /\ \E x \in Int : StartTick = x * load.spacing
           /\ \A t \in MinTick .. MaxTick : t \in I24
<1> DEFINE s == load.spacing
<1>1. /\ s \in Nat \ {0} /\ load.initialized \in SUBSET Int
      /\ \A c \in load.initialized : c * s \in MinTick .. MaxTick
      /\ load.start # <<>> => load.start[1] \in I24
      /\ load.end # <<>> => load.end[1] \in I24
  BY LoadsAssumption
<1>2. \A t \in I24 : t \in Int
  BY I24HalfIs DEF I24
<1>3. ASSUME NEW t \in Int
      PROVE  /\ NormalizeTick(t, s) \in MinTick .. MaxTick
             /\ \E x \in Int : NormalizeTick(t, s) = x * s
  <2>1. NormalizeTick(t, s) = ClampedTick(t, s)
    BY <1>1, NormalizeIsClamp
  <2>2. /\ FloorTick(t, s) \in Int /\ t \div s \in Int /\ FloorTick(t, s) = (t \div s) * s
    BY <1>1, FloorTickIs DEF FloorTick
  <2>3. /\ \E x \in Int : MinValidTick(s) = x * s
        /\ \E x \in Int : MaxValidTick(s) = x * s
        /\ MinValidTick(s) \in Int /\ MaxValidTick(s) \in Int
        /\ MinTick <= MinValidTick(s) /\ MaxValidTick(s) <= MaxTick
        /\ MinValidTick(s) <= 0 /\ 0 <= MaxValidTick(s)
    BY <1>1, ValidTicksAre
  <2> HIDE DEF s
  <2>4. CASE FloorTick(t, s) < MinTick
    BY <2>1, <2>3, <2>4, BitmapAssumption DEF ClampedTick
  <2>5. CASE FloorTick(t, s) > MaxTick
    BY <2>1, <2>2, <2>3, <2>5, BitmapAssumption DEF ClampedTick
  <2>6. CASE MinTick <= FloorTick(t, s) /\ FloorTick(t, s) <= MaxTick
    <3>1. NormalizeTick(t, s) = FloorTick(t, s)
      BY <2>1, <2>2, <2>6, BitmapAssumption DEF ClampedTick
    <3>2. QED
      BY <2>2, <2>6, <3>1, BitmapAssumption
  <2>7. QED
    BY <2>2, <2>4, <2>5, <2>6, BitmapAssumption
<1>4. /\ StartTick \in MinTick .. MaxTick
      /\ \E x \in Int : StartTick = x * s
  <2>1. CASE load.start = <<>>
    <3>1. /\ MinValidTick(s) \in Int /\ MinTick <= MinValidTick(s) /\ MinValidTick(s) <= 0
          /\ \E x \in Int : MinValidTick(s) = x * s
      BY <1>1, ValidTicksAre
    <3>2. QED
      BY <2>1, <3>1, BitmapAssumption DEF StartTick
  <2>2. CASE load.start # <<>>
    BY <1>1, <1>2, <1>3, <2>2 DEF StartTick
  <2>3. QED
    BY <2>1, <2>2
<1>5. EndTick \in MinTick .. MaxTick
  <2>1. CASE load.end = <<>>
    <3>1. MaxValidTick(s) \in Int /\ MaxValidTick(s) <= MaxTick /\ 0 <= MaxValidTick(s)
      BY <1>1, ValidTicksAre
    <3>2. QED
      BY <2>1, <3>1, BitmapAssumption DEF EndTick
  <2>2. CASE load.end # <<>>
    BY <1>1, <1>2, <1>3, <2>2 DEF EndTick
  <2>3. QED
    BY <2>1, <2>2
<1>6. \A t \in MinTick .. MaxTick : t \in I24
  <2>1. 2 * MinTick \in I24 /\ 2 * MaxTick + s \in I24
    BY BoundsAssumption
  <2>2. QED
    BY <1>1, <2>1, I24HalfIs, BitmapAssumption DEF I24
<1>7. QED
  BY <1>1, <1>4, <1>5, <1>6

-------------------------------------------------------------------------------
(* The invariant of the load.                                              *)

Multiple(t) == \E x \in Int : t = x * load.spacing

\* The position is the start of the range, or the last tick found.
PlaceInv ==
    /\ load \in Loads
    /\ Multiple(ct) /\ ct \in I24 /\ StartTick <= ct
    /\ found = {} => ct = StartTick
    /\ found # {} => ct \in found /\ StartTick <= EndTick

\* Behind the position, exactly the initialized ticks of the range were found;
\* where it is, one of them or, within a spacing of the bound, any tick.
FoundInv ==
    /\ \A t \in found : t \in I24 /\ Multiple(t)
    /\ \A t \in found : \/ t = ct
                        \/ /\ t \in InitializedTicks
                           /\ StartTick < t /\ t < ct /\ t <= EndTick
    /\ ct \in found => \/ ct \in InitializedTicks /\ StartTick < ct
                       \/ AtUpperBound(ct, load.spacing)
    /\ \A t \in InitializedTicks : StartTick < t /\ t <= ct => t \in found

\* The search awaited is asked for the next initialized tick from the position.
SearchInv ==
    status = "search" =>
        /\ query = UpQuery(load, ct) /\ ct <= EndTick
        /\ W!WalkInv /\ W!Span /\ W!Arrives

LoadInv ==
    /\ status \in {"range", "search", "load", "done", "failed"}
    /\ DOMAIN loaded \subseteq found
    /\ \A t \in DOMAIN loaded : loaded[t] <=> t \in InitializedTicks
    /\ status \in {"load", "done"} => EndTick < ct
    /\ status = "done" => found = DOMAIN loaded

IInv == PlaceInv /\ FoundInv /\ SearchInv /\ LoadInv

\* A search begins as a behaviour of TickWalk does, and each of its steps is one
\* of TickWalk's.
LEMMA WalkBegins == W!Init => W!WalkInv /\ W!Span /\ W!Arrives
<1>1. W!Init => W!WalkInv
  BY W!InitWalkInv, SearchesFit, BitmapAssumption
<1>2. W!Init => W!Span
  BY W!InitSpan, SearchesFit, BitmapAssumption
<1>3. W!Init => W!Arrives
  <2> SUFFICES ASSUME W!Init PROVE W!Arrives
    OBVIOUS
  <2>1. tick = query.start /\ answer = <<>> /\ query.start \in Int
    BY SearchesFit, BitmapAssumption DEF W!Init
  <2>2. QED
    BY <2>1 DEF W!Arrives
<1>4. QED
  BY <1>1, <1>2, <1>3

LEMMA WalkBeginsNext == W!Init' => W!WalkInv' /\ W!Span' /\ W!Arrives'
  BY WalkBegins, PTL

LEMMA SameStep == Walk!NextTickGt => W!NextTickGt
<1>1. /\ Walk!spacing = W!spacing /\ Walk!initialized = W!initialized
      /\ \A b, t : Walk!Return(b, t) <=> W!Return(b, t)
      /\ Walk!Asked("gt") <=> W!Asked("gt")
  BY DEF Walk!spacing, W!spacing, Walk!initialized, W!initialized, Walk!Return, W!Return,
     Walk!Asked, W!Asked
<1>2. \A b, t, e : Walk!Continue(b, t, e) <=> W!Continue(b, t, e)
  BY <1>1 DEF Walk!Continue, W!Continue
<1>3. /\ \A t, s : Walk!CompressTick(t, s) = W!CompressTick(t, s)
      /\ \A t, s : Walk!AtUpperBound(t, s) <=> W!AtUpperBound(t, s)
      /\ \A c : Walk!WordPos(c) = W!WordPos(c) /\ Walk!BitPos(c) = W!BitPos(c)
      /\ \A w, b, s : Walk!TickFromWordAndBit(w, b, s) = W!TickFromWordAndBit(w, b, s)
  BY DEF Walk!CompressTick, W!CompressTick, Walk!Quot, W!Quot, Walk!Rem, W!Rem,
     Walk!AtUpperBound, W!AtUpperBound, Walk!WordPos, W!WordPos, Walk!BitPos, W!BitPos,
     Walk!TickFromWordAndBit, W!TickFromWordAndBit
<1>4. \A S, w : Walk!WordOf(S, w) = W!WordOf(S, w)
  BY <1>3 DEF Walk!WordOf, W!WordOf
<1>5. \A word, b : Walk!NextBitGte(word, b) = W!NextBitGte(word, b)
  BY DEF Walk!NextBitGte, W!NextBitGte, Walk!ShiftRight, W!ShiftRight, Walk!Min, W!Min
<1>6. \A c : Walk!Upwards(c) => W!Upwards(c)
  BY <1>1, <1>2, <1>3, <1>4, <1>5 DEF Walk!Upwards, W!Upwards
<1>7. QED
  BY <1>1, <1>3, <1>6 DEF Walk!NextTickGt, W!NextTickGt

LEMMA WalkGoesOn ==
    ASSUME W!WalkInv, W!Span, W!Arrives, Walk!NextTickGt
    PROVE  W!WalkInv' /\ W!Span' /\ W!Arrives'
<1>1. W!NextTickGt
  BY SameStep
<1>2. W!WalkInv'
  BY <1>1, W!NextWalkInv, SearchesFit, BitmapAssumption DEF W!Next
<1>3. W!Span'
  BY <1>1, W!NextSpan, SearchesFit, BitmapAssumption DEF W!Next
<1>4. W!Arrives'
  BY <1>1, W!UpArrives, SearchesFit, BitmapAssumption
<1>5. QED
  BY <1>2, <1>3, <1>4

\* What a search that has come to an answer found.
LEMMA AnswerIs ==
    ASSUME PlaceInv, SearchInv, status = "search", answer # <<>>,
           NEW s, s = load.spacing, NEW n, n = answer[2]
    PROVE  /\ n \in I24 /\ n \in Int /\ ct <= n /\ Multiple(n)
           /\ \/ n = ct /\ AtUpperBound(ct, s)
              \/ /\ ct < n /\ ~AtUpperBound(ct, s)
                 /\ \A t \in InitializedTicks : ct < t /\ t <= n => t = n
                 /\ n \in InitializedTicks \/ AtUpperBound(n, s)
<1>1. /\ query = UpQuery(load, ct) /\ W!WalkInv /\ W!Span /\ W!Arrives
  BY DEF SearchInv
<1>2. /\ query.op = "gt" /\ query.start = ct /\ query.initializedOnly = TRUE
      /\ W!spacing = s /\ W!initialized = load.initialized
  BY <1>1 DEF UpQuery, W!spacing, W!initialized
<1>3. s \in Nat \ {0} /\ load.initialized \in SUBSET Int
  BY RangeIs DEF PlaceInv
<1>4. ct \in Int /\ n \in I24 /\ n \in Int /\ answer[1] \in BOOLEAN
  BY <1>1, SameBitmap, I24HalfIs DEF W!Span, W!TypeOK, PlaceInv, I24
<1>5. CASE AtUpperBound(ct, s)
  <2>1. W!StartsAtBound
    BY <1>2, <1>5, SameBitmap DEF W!StartsAtBound
  <2>2. n = ct
    BY <1>1, <1>2, <2>1 DEF W!Arrives
  <2>3. QED
    BY <1>4, <1>5, <2>2 DEF PlaceInv
<1>6. CASE ~AtUpperBound(ct, s)
  <2>1. ~W!StartsAtBound
    BY <1>2, <1>6, SameBitmap DEF W!StartsAtBound
  <2>2. /\ ct < n /\ Multiple(n)
        /\ ~answer[1] => AtUpperBound(n, s)
    BY <1>1, <1>2, <2>1, SameBitmap DEF W!Arrives, Multiple
  <2>3. W!FindsNearest
    BY <1>1 DEF W!WalkInv
  <2>4. /\ answer[1] <=> W!Side # {}
        /\ answer[1] => n = W!Nearest * s
    BY <1>2, <2>1, <2>3 DEF W!FindsNearest, W!WalkOps
  <2> DEFINE low == ct \div s
  <2>5. low \in Int /\ FloorTick(ct, s) = low * s /\ FloorTick(ct, s) \in Int
        /\ FloorTick(ct, s) <= ct /\ ct < FloorTick(ct, s) + s
    BY <1>3, <1>4, FloorTickIs DEF FloorTick
  <2> HIDE DEF low
  <2>6. W!Side = {c \in load.initialized : c > low} /\ W!Side \in SUBSET Int
    BY <1>2, <1>3 DEF W!Side, W!Floor, low
  <2>7. W!Nearest = W!Min(W!Side)
    BY <1>2 DEF W!Nearest
  <2>8. W!Side # {} => W!Nearest \in W!Side /\ \A c \in W!Side : W!Nearest <= c
    <3>1. \A c \in W!Side : low <= c
      BY <1>3, <2>5, <2>6
    <3>2. ASSUME W!Side # {}
          PROVE  W!Min(W!Side) \in W!Side /\ \A c \in W!Side : W!Min(W!Side) <= c
      <4>1. W!Side \in SUBSET Int /\ W!Side # {} /\ low \in Int
        BY <2>5, <2>6, <3>2
      <4>2. QED
        BY <3>1, <4>1, W!MinBounded, SearchesFit, BitmapAssumption
    <3>3. QED
      BY <2>7, <3>2
  <2>9. ASSUME NEW c \in load.initialized, ct < c * s PROVE c \in W!Side
    <3>1. CASE c <= low
      <4>1. c * s <= low * s
        BY <1>3, <2>5, <2>9, <3>1, MultiplesApart
      <4>2. QED
        BY <1>3, <1>4, <2>5, <2>9, <4>1
    <3>2. QED
      BY <1>3, <2>5, <2>6, <2>9, <3>1
  <2>10. ASSUME NEW t \in InitializedTicks, ct < t, t <= n PROVE t = n
    <3>1. PICK c \in load.initialized : t = c * s
      BY DEF InitializedTicks
    <3>2. c \in W!Side /\ c \in Int
      BY <1>3, <2>9, <2>10, <3>1
    <3>3. W!Nearest \in Int /\ W!Nearest <= c /\ n = W!Nearest * s
      BY <2>4, <2>6, <2>8, <3>2
    <3>4. CASE W!Nearest < c
      <4>1. W!Nearest * s + s <= c * s /\ c * s \in Int /\ W!Nearest * s \in Int
        BY <1>3, <3>2, <3>3, <3>4, MultiplesApart
      <4>2. QED
        BY <1>3, <2>10, <3>1, <3>3, <4>1
    <3>5. QED
      BY <3>1, <3>2, <3>3, <3>4
  <2>11. answer[1] => n \in InitializedTicks
    BY <2>4, <2>6, <2>8 DEF InitializedTicks
  <2>12. QED
    BY <1>4, <1>6, <2>2, <2>10, <2>11
<1>7. QED
  BY <1>5, <1>6

-------------------------------------------------------------------------------
(* Each step keeps it.                                                     *)

\* The range and the pool are those of the load.
LEMMA RangeStays ==
    ASSUME UNCHANGED load
    PROVE  /\ StartTick' = StartTick /\ EndTick' = EndTick
           /\ InitializedTicks' = InitializedTicks
           /\ \A t : Multiple(t)' <=> Multiple(t)
  BY DEF StartTick, EndTick, InitializedTicks, Multiple

\* A step that neither finds a tick nor moves on keeps what was found.
LEMMA FoundStays ==
    ASSUME PlaceInv, FoundInv, UNCHANGED <<load, ct, found>>
    PROVE  PlaceInv' /\ FoundInv'
<1>1. /\ StartTick' = StartTick /\ EndTick' = EndTick
      /\ InitializedTicks' = InitializedTicks
      /\ \A t : Multiple(t)' <=> Multiple(t)
  BY RangeStays
<1>2. load' = load /\ ct' = ct /\ found' = found /\ Multiple(ct)' = Multiple(ct)
  BY <1>1 DEF Multiple
<1>3. PlaceInv'
  BY <1>1, <1>2 DEF PlaceInv
<1>4. FoundInv'
  BY <1>1, <1>2 DEF FoundInv
<1>5. QED
  BY <1>3, <1>4

LEMMA RoundStep ==
    ASSUME IInv, NextRound
    PROVE  IInv'
<1>1. /\ UNCHANGED <<load, ct, found, loaded>> /\ status = "range"
      /\ PlaceInv /\ FoundInv /\ LoadInv
  BY DEF NextRound, IInv
<1>2. PlaceInv' /\ FoundInv'
  BY <1>1, FoundStays
<1>3. EndTick' = EndTick /\ InitializedTicks' = InitializedTicks
  BY <1>1, RangeStays
<1>4. ct \in Int /\ EndTick \in Int /\ StartTick \in Int
  BY <1>1, RangeIs, I24HalfIs, BitmapAssumption DEF PlaceInv, I24
<1>5. LoadInv'
  BY <1>1, <1>3, <1>4 DEF NextRound, LoadInv
<1>6. SearchInv'
  <2>1. CASE status' = "search"
    <3>1. ct <= EndTick /\ Search(ct)
      BY <2>1 DEF NextRound
    <3>2. ct \in MinTick .. MaxTick
      BY <1>1, <1>4, <3>1, RangeIs, BitmapAssumption DEF PlaceInv
    <3>3. query' = UpQuery(load, ct) /\ tick' = ct /\ answer' = <<>>
      BY <3>1 DEF Search, UpQuery
    <3>4. query' \in UpQueries
      BY <1>1, <3>2, <3>3 DEF UpQueries, PlaceInv
    <3>5. W!Init'
      BY <3>3, <3>4 DEF W!Init, UpQuery
    <3>6. QED
      BY <1>1, <1>3, <3>1, <3>3, <3>5, WalkBeginsNext DEF SearchInv
  <2>2. CASE status' # "search"
    BY <2>2 DEF SearchInv
  <2>3. QED
    BY <2>1, <2>2
<1>7. QED
  BY <1>2, <1>5, <1>6 DEF IInv

LEMMA WalkStep ==
    ASSUME IInv, SearchStep
    PROVE  IInv'
<1>1. /\ UNCHANGED <<load, ct, found, loaded, status>> /\ status = "search"
      /\ PlaceInv /\ FoundInv /\ LoadInv /\ SearchInv /\ Walk!NextTickGt
  BY DEF SearchStep, IInv
<1>2. PlaceInv' /\ FoundInv'
  BY <1>1, FoundStays
<1>3. EndTick' = EndTick /\ InitializedTicks' = InitializedTicks
  BY <1>1, RangeStays
<1>4. LoadInv'
  BY <1>1, <1>3 DEF LoadInv
<1>5. query' = query
  BY <1>1 DEF Walk!NextTickGt, Walk!Upwards, Walk!Continue, Walk!Return
<1>6. SearchInv'
  BY <1>1, <1>3, <1>5, WalkGoesOn DEF SearchInv, UpQuery
<1>7. QED
  BY <1>2, <1>4, <1>6 DEF IInv

LEMMA TakeStep ==
    ASSUME IInv, TakeAnswer
    PROVE  IInv'
<1> DEFINE n == answer[2]
           s == load.spacing
<1>1. /\ UNCHANGED <<load, loaded, query, tick, answer>>
      /\ status = "search" /\ answer # <<>> /\ status' = "range"
      /\ found' = found \cup {n} /\ ct' = n
      /\ PlaceInv /\ FoundInv /\ LoadInv /\ SearchInv /\ ct <= EndTick
  BY DEF TakeAnswer, IInv, SearchInv
<1>2. /\ StartTick' = StartTick /\ EndTick' = EndTick
      /\ InitializedTicks' = InitializedTicks
      /\ \A t : Multiple(t)' <=> Multiple(t)
  BY <1>1, RangeStays
<1>3. /\ n \in I24 /\ n \in Int /\ ct <= n /\ Multiple(n)
      /\ \/ n = ct /\ AtUpperBound(ct, s)
         \/ /\ ct < n /\ ~AtUpperBound(ct, s)
            /\ \A t \in InitializedTicks : ct < t /\ t <= n => t = n
            /\ n \in InitializedTicks \/ AtUpperBound(n, s)
  BY <1>1, AnswerIs
<1>4. /\ ct \in Int /\ EndTick \in Int /\ StartTick \in Int
      /\ \A t \in InitializedTicks : t \in Int
      /\ \A t \in found : t \in Int
  BY <1>1, RangeIs, I24HalfIs, BitmapAssumption DEF PlaceInv, FoundInv, I24, InitializedTicks
<1> HIDE DEF n, s
<1>5. PlaceInv'
  <2>1. load' \in Loads /\ StartTick <= n /\ StartTick <= EndTick
    BY <1>1, <1>3, <1>4 DEF PlaceInv
  <2>2. Multiple(ct)'
    BY <1>1, <1>3 DEF Multiple
  <2>3. QED
    BY <1>1, <1>2, <1>3, <2>1, <2>2 DEF PlaceInv
<1>6. FoundInv'
  <2>1. \A t \in found' : t \in I24 /\ Multiple(t)'
    BY <1>1, <1>2, <1>3 DEF FoundInv
  <2>2. ASSUME NEW t \in found', t # n
        PROVE  t \in InitializedTicks /\ StartTick < t /\ t < n /\ t <= EndTick
    <3>1. t \in found /\ t \in Int
      BY <1>1, <1>4, <2>2
    <3>2. CASE t = ct
      <4>1. ct < n /\ ~AtUpperBound(ct, s)
        BY <1>3, <2>2, <3>2
      <4>2. ct \in InitializedTicks /\ StartTick < ct
        BY <1>1, <3>1, <3>2, <4>1 DEF FoundInv, s
      <4>3. QED
        BY <1>1, <3>2, <4>1, <4>2
    <3>3. CASE t # ct
      <4>1. t \in InitializedTicks /\ StartTick < t /\ t < ct /\ t <= EndTick
        BY <1>1, <3>1, <3>3 DEF FoundInv
      <4>2. QED
        BY <1>3, <1>4, <3>1, <4>1
    <3>4. QED
      BY <3>2, <3>3
  <2>3. (n \in InitializedTicks /\ StartTick < n) \/ AtUpperBound(n, s)
    BY <1>1, <1>3, <1>4 DEF PlaceInv
  <2>4. ASSUME NEW t \in InitializedTicks, StartTick < t, t <= n PROVE t \in found'
    <3>1. CASE t <= ct
      BY <1>1, <2>4, <3>1 DEF FoundInv
    <3>2. CASE ct < t
      BY <1>1, <1>3, <1>4, <2>4, <3>2
    <3>3. QED
      BY <1>4, <3>1, <3>2
  <2>5. ct' \in found' =>
            (ct' \in InitializedTicks' /\ StartTick' < ct') \/ AtUpperBound(ct', load.spacing')
    BY <1>1, <1>2, <2>3 DEF s
  <2>6. QED
    BY <1>1, <1>2, <2>1, <2>2, <2>4, <2>5 DEF FoundInv
<1>7. LoadInv'
  BY <1>1, <1>2 DEF LoadInv
<1>8. QED
  BY <1>1, <1>5, <1>6, <1>7 DEF IInv, SearchInv

\* The data of a tick says truly whether it is initialized.
LEMMA DataIs ==
    ASSUME load \in Loads, NEW t, Multiple(t)
    PROVE  TickInitialized(t) <=> t \in InitializedTicks
<1> DEFINE s == load.spacing
           S == load.initialized
<1>1. s \in Nat \ {0} /\ S \in SUBSET Int
  BY RangeIs
<1>2. PICK e \in Int : t = e * s
  BY DEF Multiple
<1>3. t \in Int /\ CompressTick(t, s) = e
  <2>1. t \in Int /\ W!CompressTick(t, s) = t \div s
    BY <1>1, <1>2, W!CompressIsFloor, SearchesFit, BitmapAssumption
  <2>2. t \div s = e
    BY <1>1, <1>2, W!MultipleIs, SearchesFit, BitmapAssumption
  <2>3. QED
    BY <2>1, <2>2, SameBitmap
<1>4. TickInitialized(t) <=> BitPos(e) \in WordOf(S, WordPos(e))
  BY <1>3 DEF TickInitialized
<1>5. BitPos(e) \in WordOf(S, WordPos(e)) <=> e \in S
  <2>1. /\ W!WordPos(e) \in Int /\ W!BitPos(e) \in W!Bits
        /\ e = W!WordPos(e) * WordBits + W!BitPos(e)
    BY W!Parts, SearchesFit, BitmapAssumption
  <2>2. W!BitPos(e) \in W!WordOf(S, W!WordPos(e)) <=> e \in S
    BY <1>1, <2>1, W!WordIs, SearchesFit, BitmapAssumption
  <2>3. QED
    BY <2>2, SameBitmap
<1>6. e \in S <=> t \in InitializedTicks
  <2>1. ASSUME NEW c \in S, t = c * s PROVE c = e
    <3>1. c \in Int
      BY <1>1
    <3>2. CASE c < e
      BY <1>1, <1>2, <2>1, <3>1, <3>2, MultiplesApart
    <3>3. CASE e < c
      BY <1>1, <1>2, <2>1, <3>1, <3>3, MultiplesApart
    <3>4. QED
      BY <1>2, <3>1, <3>2, <3>3
  <2>2. QED
    BY <1>2, <2>1 DEF InitializedTicks
<1>7. QED
  BY <1>4, <1>5, <1>6

LEMMA LoadStep ==
    ASSUME IInv, LoadTickData
    PROVE  IInv'
<1>1. /\ UNCHANGED <<load, ct, found, status>> /\ status = "load"
      /\ PlaceInv /\ FoundInv /\ LoadInv /\ load \in Loads
  BY DEF LoadTickData, IInv, PlaceInv
<1>2. PICK t \in found \ DOMAIN loaded :
          loaded' = [u \in DOMAIN loaded \cup {t} |->
                        IF u = t THEN TickInitialized(t) ELSE loaded[u]]
  BY DEF LoadTickData
<1>3. PlaceInv' /\ FoundInv'
  BY <1>1, FoundStays
<1>4. EndTick' = EndTick /\ InitializedTicks' = InitializedTicks
  BY <1>1, RangeStays
<1>5. /\ DOMAIN loaded' = DOMAIN loaded \cup {t}
      /\ loaded'[t] = TickInitialized(t)
      /\ \A u \in DOMAIN loaded : loaded'[u] = loaded[u]
  BY <1>2
<1>6. TickInitialized(t) <=> t \in InitializedTicks
  BY <1>1, DataIs DEF FoundInv
<1>7. LoadInv'
  BY <1>1, <1>2, <1>4, <1>5, <1>6 DEF LoadInv
<1>8. SearchInv'
  BY <1>1 DEF SearchInv
<1>9. QED
  BY <1>3, <1>7, <1>8 DEF IInv

LEMMA EndStep ==
    ASSUME IInv, Finish \/ ReadFails
    PROVE  IInv'
<1>1. /\ UNCHANGED <<load, ct, found, loaded>> /\ status' \in {"done", "failed"}
      /\ status' = "done" => status = "load" /\ found = DOMAIN loaded
      /\ PlaceInv /\ FoundInv /\ LoadInv
  BY DEF Finish, ReadFails, IInv
<1>2. PlaceInv' /\ FoundInv'
  BY <1>1, FoundStays
<1>3. EndTick' = EndTick /\ InitializedTicks' = InitializedTicks
  BY <1>1, RangeStays
<1>4. LoadInv'
  BY <1>1, <1>3 DEF LoadInv
<1>5. QED
  BY <1>1, <1>2, <1>4 DEF IInv, SearchInv

LEMMA IdleStep ==
    ASSUME IInv, UNCHANGED vars
    PROVE  IInv'
<1>1. /\ UNCHANGED <<load, ct, found, loaded, status, query, tick, answer>>
      /\ PlaceInv /\ FoundInv /\ LoadInv /\ SearchInv
  BY DEF vars, IInv
<1>2. PlaceInv' /\ FoundInv'
  BY <1>1, FoundStays
<1>3. EndTick' = EndTick /\ InitializedTicks' = InitializedTicks
  BY <1>1, RangeStays
<1>4. LoadInv'
  BY <1>1, <1>3 DEF LoadInv
<1>5. SearchInv'
  <2>1. W!WalkInv => W!WalkInv'
    BY <1>1, W!NextWalkInv, SearchesFit, BitmapAssumption DEF W!vars
  <2>2. W!Span => W!Span'
    BY <1>1, W!NextSpan, SearchesFit, BitmapAssumption DEF W!vars
  <2>3. W!Arrives => W!Arrives'
    BY <1>1 DEF W!Arrives, W!StartsAtBound, W!spacing
  <2>4. QED
    BY <1>1, <1>3, <2>1, <2>2, <2>3 DEF SearchInv, UpQuery
<1>6. QED
  BY <1>2, <1>4, <1>5 DEF IInv

LEMMA NextIInv == IInv /\ [Next]_vars => IInv'
  BY RoundStep, WalkStep, TakeStep, LoadStep, EndStep, IdleStep DEF Next

LEMMA InitIInv == Init => IInv
<1> SUFFICES ASSUME Init PROVE IInv
  OBVIOUS
<1>1. /\ load \in Loads /\ ct = StartTick /\ found = {} /\ loaded = <<>>
      /\ status = "range"
  BY DEF Init
<1>2. /\ StartTick \in MinTick .. MaxTick /\ StartTick \in I24 /\ StartTick \in Int
      /\ Multiple(StartTick)
      /\ \A t \in InitializedTicks : t \in Int
  BY <1>1, RangeIs, BitmapAssumption DEF Multiple, InitializedTicks
<1>3. PlaceInv
  BY <1>1, <1>2 DEF PlaceInv
<1>4. FoundInv
  BY <1>1, <1>2 DEF FoundInv
<1>5. DOMAIN loaded = {}
  BY <1>1
<1>6. QED
  BY <1>1, <1>3, <1>4, <1>5 DEF IInv, SearchInv, LoadInv

-------------------------------------------------------------------------------
(* The theorems.                                                           *)

\* The position of the load and every key of its map fit an I24, and nothing is
\* loaded that was not found, for every pool and range.
THEOREM TypeCorrect == Spec => []TypeOK
<1>1. IInv => TypeOK
  BY DEF IInv, PlaceInv, FoundInv, LoadInv, TypeOK
<1>2. QED
  BY <1>1, InitIInv, NextIInv, PTL DEF Spec

LEMMA MapHolds == IInv => MapIsRange
<1> SUFFICES ASSUME IInv, status = "done" PROVE MapIsRange
  BY DEF MapIsRange
<1>1. /\ PlaceInv /\ FoundInv /\ DOMAIN loaded = found /\ EndTick < ct
      /\ \A t \in DOMAIN loaded : loaded[t] <=> t \in InitializedTicks
  BY DEF IInv, LoadInv
<1>2. /\ ct \in Int /\ EndTick \in Int /\ StartTick \in Int
      /\ \A t \in InitializedTicks : t \in Int
      /\ \A t \in found : t \in Int
  BY <1>1, RangeIs, I24HalfIs, BitmapAssumption DEF PlaceInv, FoundInv, I24, InitializedTicks
<1>3. {t \in found : t <= EndTick} = {t \in InitializedTicks : StartTick < t /\ t <= EndTick}
  <2>1. ASSUME NEW t \in found, t <= EndTick
        PROVE  t \in InitializedTicks /\ StartTick < t
    BY <1>1, <1>2, <2>1 DEF FoundInv
  <2>2. ASSUME NEW t \in InitializedTicks, StartTick < t, t <= EndTick
        PROVE  t \in found
    BY <1>1, <1>2, <2>2 DEF FoundInv
  <2>3. QED
    BY <2>1, <2>2
<1>4. Cardinality({t \in found : t > EndTick}) = (IF StartTick <= EndTick THEN 1 ELSE 0)
  <2>1. CASE found = {}
    <3>1. ~(StartTick <= EndTick)
      BY <1>1, <1>2, <2>1 DEF PlaceInv
    <3>2. {t \in found : t > EndTick} = {}
      BY <2>1
    <3>3. QED
      BY <3>1, <3>2, FS_EmptySet
  <2>2. CASE found # {}
    <3>1. StartTick <= EndTick /\ ct \in found
      BY <1>1, <2>2 DEF PlaceInv
    <3>2. \A t \in found : t > EndTick => t = ct
      BY <1>1, <1>2 DEF FoundInv
    <3>3. {t \in found : t > EndTick} = {ct}
      BY <1>1, <1>2, <3>1, <3>2
    <3>4. QED
      BY <3>1, <3>3, FS_Singleton
  <2>3. QED
    BY <2>1, <2>2
<1>5. QED
  BY <1>1, <1>3, <1>4 DEF MapIsRange

\* pool_manager_load_tick_map returns, for any pool and range and any order of
\* the reads, the initialized ticks of the range and one key beyond its end,
\* each with its own data.
THEOREM MapCorrect == Spec => []MapIsRange
  BY MapHolds, InitIInv, NextIInv, PTL DEF Spec
===============================================================================
