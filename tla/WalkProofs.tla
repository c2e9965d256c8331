------------------------------ MODULE WalkProofs ------------------------------
(***************************************************************************)
(* The searches of TickWalk are right for every pool, tick and spacing:    *)
(* what the loop over words and the shifts of a word compute is the        *)
(* nearest initialized tick.                                               *)
(***************************************************************************)
EXTENDS TickWalk, TLAPS, WellFoundedInduction

-------------------------------------------------------------------------------
(* The arithmetic of TickBitmap.                                          *)

\* Division rounds down, and the remainder is below the divisor.
LEMMA DivisionRoundsDown ==
    ASSUME NEW a \in Int, NEW b \in Nat \ {0}
    PROVE  /\ a \div b \in Int /\ a % b \in 0 .. b - 1
           /\ a % b = a - b * (a \div b)
    OBVIOUS

\* The quotient is the only integer whose multiple is within one divisor.
LEMMA FloorUnique ==
    ASSUME NEW a \in Int, NEW b \in Nat \ {0}, NEW q \in Int, b * q <= a, a < b * q + b
    PROVE  a \div b = q
  <1> DEFINE d == a \div b
  <1>1. d \in Int /\ b * d <= a /\ a < b * d + b
    OBVIOUS
  <1> HIDE DEF d
  <1>2. b * d < b * (q + 1) /\ b * q < b * (d + 1)
    BY <1>1
  <1>3. d < q + 1 /\ q < d + 1
    BY <1>1, <1>2
  <1> QED
    BY <1>1, <1>3 DEF d

\* The division of Rust: equal to the floor for a natural number, otherwise the
\* floor unless a remainder is left.
LEMMA QuotFacts ==
    ASSUME NEW a \in Int, NEW b \in Nat \ {0}
    PROVE  /\ Quot(a, b) \in Int /\ Rem(a, b) \in Int
           /\ a = b * Quot(a, b) + Rem(a, b)
           /\ a >= 0 => 0 <= Rem(a, b) /\ Rem(a, b) < b
           /\ a < 0  => -b < Rem(a, b) /\ Rem(a, b) <= 0
  <1>1. CASE a >= 0
    BY <1>1, DivisionRoundsDown DEF Quot, Rem
  <1>2. CASE a < 0
    <2> DEFINE n == (-a) \div b
               r == (-a) % b
    <2>1. n \in Int /\ r \in 0 .. b - 1 /\ -a = b * n + r
      <3>1. -a \in Int
        OBVIOUS
      <3> QED
        BY <3>1, DivisionRoundsDown
    <2>2. Quot(a, b) = -n
      BY <1>2 DEF Quot
    <2> HIDE DEF n, r
    <2>3. b * (-n) = -(b * n)
      BY <2>1
    <2>4. Rem(a, b) = -r
      BY <2>1, <2>2, <2>3 DEF Rem
    <2> QED
      BY <1>2, <2>1, <2>2, <2>3, <2>4
  <1> QED
    BY <1>1, <1>2

\* compress_tick rounds towards minus infinity, for every tick and spacing.
THEOREM CompressIsFloor ==
    ASSUME NEW t \in Int, NEW s \in Nat \ {0}
    PROVE  CompressTick(t, s) = t \div s
  <1> DEFINE q == Quot(t, s)
             r == Rem(t, s)
             c == CompressTick(t, s)
  <1>1. /\ q \in Int /\ r \in Int /\ t = s * q + r
        /\ t >= 0 => 0 <= r /\ r < s
        /\ t < 0 => -s < r /\ r <= 0
    BY QuotFacts
  <1>2. c = IF r < 0 THEN q - 1 ELSE q
    BY <1>1 DEF CompressTick
  <1> HIDE DEF q, r, c
  <1>3. s * (q - 1) = s * q - s
    BY <1>1
  <1>4. c \in Int /\ s * c <= t /\ t < s * c + s
    BY <1>1, <1>2, <1>3
  <1> QED
    BY <1>4, FloorUnique DEF c

\* v3 compresses a tick as v4 does.
LEMMA V3CompressesAlike ==
    ASSUME NEW t \in Int, NEW s \in Nat \ {0}
    PROVE  V3CompressTick(t, s) = CompressTick(t, s)
  <1> DEFINE r == Rem(t, s)
  <1>1. r \in Int /\ (t >= 0 => 0 <= r) /\ (t < 0 => r <= 0)
    BY QuotFacts
  <1>2. (t < 0 /\ r # 0) <=> r < 0
    BY <1>1
  <1> QED
    BY <1>2 DEF V3CompressTick, CompressTick

\* The position of a bit in its word: c % 256 as u8 is c & 0xff.
LEMMA V3BitsAlike ==
    ASSUME NEW c \in Int
    PROVE  V3BitPos(c) = BitPos(c)
  <1> DEFINE q == Quot(c, WordBits)
             r == Rem(c, WordBits)
  <1>1. /\ q \in Int /\ r \in Int /\ c = WordBits * q + r
        /\ -WordBits < r /\ r < WordBits
    BY QuotFacts, BitmapAssumption
  <1> HIDE DEF q, r
  <1>2. CASE r >= 0
    <2>1. c \div WordBits = q
      BY <1>1, <1>2, FloorUnique, BitmapAssumption
    <2> QED
      <3>1. r % WordBits = r
        BY <1>1, <1>2, BitmapAssumption
      <3>2. c % WordBits = c - WordBits * (c \div WordBits)
        BY BitmapAssumption
      <3>3. c % WordBits = r
        BY <1>1, <2>1, <3>2, BitmapAssumption
      <3> QED
        BY <3>1, <3>3 DEF V3BitPos, BitPos, r
  <1>3. CASE r < 0
    <2>1. WordBits * (q - 1) = WordBits * q - WordBits
      BY <1>1, BitmapAssumption
    <2>2. c \div WordBits = q - 1
      BY <1>1, <1>3, <2>1, FloorUnique, BitmapAssumption
    <2>3. c % WordBits = r + WordBits
      <3>1. c % WordBits = c - WordBits * (c \div WordBits)
        BY BitmapAssumption
      <3> QED
        BY <1>1, <2>1, <2>2, <3>1, BitmapAssumption
    <2>4. r \div WordBits = -1
      BY <1>1, <1>3, FloorUnique, BitmapAssumption
    <2>5. r % WordBits = r + WordBits
      <3>1. r % WordBits = r - WordBits * (r \div WordBits)
        BY <1>1, BitmapAssumption
      <3> QED
        BY <1>1, <2>4, <3>1, BitmapAssumption
    <2> QED
      BY <2>3, <2>5 DEF V3BitPos, BitPos, r
  <1> QED
    BY <1>1, <1>2, <1>3

\* tick_from_word_and_bit_pos gives back the tick that was split.
THEOREM SplitAndJoin ==
    ASSUME NEW c \in Int, NEW s \in Nat \ {0}
    PROVE  /\ BitPos(c) \in Bits
           /\ TickFromWordAndBit(WordPos(c), BitPos(c), s) = c * s
  <1>1. /\ c \div WordBits \in Int /\ c % WordBits \in 0 .. WordBits - 1
        /\ (c \div WordBits) * WordBits + (c % WordBits) = c
    BY BitmapAssumption
  <1> QED
    BY <1>1 DEF BitPos, WordPos, Bits, TickFromWordAndBit

\* The one-word searches of v4 and v3 give the same answer for every bitmap,
\* tick and spacing, in both directions.
THEOREM WordSearchesAlike ==
    ASSUME NEW S \in SUBSET Int, NEW t \in Int, NEW s \in Nat \ {0}
    PROVE  /\ V3NextWithinWord(S, t, s, TRUE) =
                  NextWithinWordLte(S, t, s)
           /\ V3NextWithinWord(S, t, s, FALSE) =
                  NextWithinWordGt(S, t, s)
  <1> DEFINE c == CompressTick(t, s)
  <1>1. c \in Int /\ V3CompressTick(t, s) = c
    BY CompressIsFloor, V3CompressesAlike
  <1> HIDE DEF c
  <1>2. V3NextWithinWord(S, t, s, TRUE) =
            NextWithinWordLte(S, t, s)
    <2>1. V3CompressTick(t, s) + 0 = c
      BY <1>1
    <2>2. V3BitPos(c) = BitPos(c)
      BY <1>1, V3BitsAlike
    <2> QED
      BY <2>1, <2>2 DEF c, V3NextWithinWord, NextWithinWordLte
  <1>3. V3NextWithinWord(S, t, s, FALSE) =
            NextWithinWordGt(S, t, s)
    <2> DEFINE d == c + 1
    <2>1. d \in Int
      BY <1>1
    <2> HIDE DEF d
    <2>2. V3BitPos(d) = BitPos(d)
      BY <2>1, V3BitsAlike
    <2> QED
      BY <1>1, <2>2 DEF c, d, V3NextWithinWord, NextWithinWordGt
  <1> QED
    BY <1>2, <1>3

-------------------------------------------------------------------------------
(* Smallest and largest elements.                                          *)

LEMMA SmallestExists ==
    ASSUME NEW T \in SUBSET Nat, T # {}
    PROVE  \E x \in T : \A y \in T : x <= y
<1>1. IsWellFoundedOn(OpToRel(<, Nat), Nat)
  BY NatLessThanWellFounded, Zenon
<1>2. PICK x \in T : \A y \in T : ~(<<y, x>> \in OpToRel(<, Nat))
  BY <1>1, WFMin, Zenon
<1>3. \A y \in T : ~(y < x)
  BY <1>2, Zenon DEF OpToRel
<1>4. QED
  BY <1>3

LEMMA MinIs ==
    ASSUME NEW T \in SUBSET Int, NEW x \in T, \A y \in T : x <= y
    PROVE  Min(T) = x
<1>1. \A z \in T : (\A y \in T : z <= y) => z = x
  OBVIOUS
<1>2. QED
  BY <1>1 DEF Min

LEMMA MaxIs ==
    ASSUME NEW T \in SUBSET Int, NEW x \in T, \A y \in T : x >= y
    PROVE  Max(T) = x
<1>1. \A z \in T : (\A y \in T : z >= y) => z = x
  OBVIOUS
<1>2. QED
  BY <1>1 DEF Max

\* A set of integers with a bound has the element that Min or Max denotes.
LEMMA MinBounded ==
    ASSUME NEW T \in SUBSET Int, T # {}, NEW low \in Int, \A y \in T : low <= y
    PROVE  Min(T) \in T /\ \A y \in T : Min(T) <= y
<1> DEFINE D == {y - low : y \in T}
<1>1. D \in SUBSET Nat /\ D # {}
  <2>1. \A y \in T : y - low \in Nat /\ y - low \in D
    OBVIOUS
  <2>2. \E y : y \in T
    OBVIOUS
  <2>3. QED
    BY <2>1, <2>2
<1>2. PICK d \in D : \A e \in D : d <= e
  BY <1>1, SmallestExists
<1>3. PICK x \in T : d = x - low
  OBVIOUS
<1>4. \A y \in T : x <= y
  <2> SUFFICES ASSUME NEW y \in T PROVE x <= y
    OBVIOUS
  <2>1. y - low \in D
    OBVIOUS
  <2>2. d <= y - low
    BY <1>2, <2>1
  <2>3. QED
    BY <1>3, <2>2
<1>5. QED
  BY <1>4, MinIs

LEMMA MaxBounded ==
    ASSUME NEW T \in SUBSET Int, T # {}, NEW high \in Int, \A y \in T : y <= high
    PROVE  Max(T) \in T /\ \A y \in T : Max(T) >= y
<1> DEFINE D == {high - y : y \in T}
<1>1. D \in SUBSET Nat /\ D # {}
  <2>1. \A y \in T : high - y \in Nat /\ high - y \in D
    OBVIOUS
  <2>2. \E y : y \in T
    OBVIOUS
  <2>3. QED
    BY <2>1, <2>2
<1>2. PICK d \in D : \A e \in D : d <= e
  BY <1>1, SmallestExists
<1>3. PICK x \in T : d = high - x
  OBVIOUS
<1>4. \A y \in T : x >= y
  <2> SUFFICES ASSUME NEW y \in T PROVE x >= y
    OBVIOUS
  <2>1. high - y \in D
    OBVIOUS
  <2>2. d <= high - y
    BY <1>2, <2>1
  <2>3. QED
    BY <1>3, <2>2
<1>5. QED
  BY <1>4, MaxIs

-------------------------------------------------------------------------------
(* A word of the bitmap.                                                   *)

\* Distinct multiples of a spacing are at least a spacing apart.
LEMMA Apart ==
    ASSUME NEW x \in Int, NEW y \in Int, NEW s \in Nat \ {0}, x < y
    PROVE  x * s + s <= y * s
<1>1. PICK k \in Nat : y = x + 1 + k
  <2>1. y - x - 1 \in Nat /\ y = x + 1 + (y - x - 1)
    OBVIOUS
  <2>2. QED
    BY <2>1
<1>2. y * s = x * s + s + k * s
  BY <1>1
<1>3. k * s >= 0
  OBVIOUS
<1>4. QED
  BY <1>2, <1>3

\* Word and bit of a compressed tick, and the tick of a word and a bit.
LEMMA Parts ==
    ASSUME NEW c \in Int
    PROVE  /\ WordPos(c) \in Int /\ BitPos(c) \in Bits
           /\ c = WordPos(c) * WordBits + BitPos(c)
  BY BitmapAssumption DEF WordPos, BitPos, Bits

LEMMA Joined ==
    ASSUME NEW w \in Int, NEW b \in Bits
    PROVE  /\ w * WordBits + b \in Int
           /\ WordPos(w * WordBits + b) = w /\ BitPos(w * WordBits + b) = b
<1> DEFINE c == w * WordBits + b
<1>1. c \in Int /\ WordBits * w <= c /\ c < WordBits * w + WordBits
  BY BitmapAssumption DEF Bits
<1>2. c \div WordBits = w
  BY <1>1, FloorUnique, BitmapAssumption
<1>3. c % WordBits = c - WordBits * (c \div WordBits)
  BY <1>1, DivisionRoundsDown, BitmapAssumption
<1>4. c % WordBits = b
  BY <1>2, <1>3, BitmapAssumption DEF Bits
<1>5. QED
  BY <1>1, <1>2, <1>4 DEF WordPos, BitPos

\* Ticks are ordered by word, then by bit.
LEMMA WordsOrdered ==
    ASSUME NEW c \in Int, NEW d \in Int, c <= d
    PROVE  WordPos(c) <= WordPos(d)
<1>1. CASE WordPos(d) < WordPos(c)
  <2>1. WordPos(d) * WordBits + WordBits <= WordPos(c) * WordBits
    BY <1>1, Parts, Apart, BitmapAssumption
  <2>2. d < c
    BY <2>1, Parts, BitmapAssumption DEF Bits
  <2>3. QED
    BY <2>2
<1>2. QED
  BY <1>1, Parts

\* The bits of a word are the initialized ticks in it.
LEMMA WordIs ==
    ASSUME NEW S \in SUBSET Int, NEW w \in Int
    PROVE  /\ WordOf(S, w) \subseteq Bits
           /\ \A b \in Bits : b \in WordOf(S, w) <=> w * WordBits + b \in S
<1>1. WordOf(S, w) \subseteq Bits
  BY Parts DEF WordOf
<1>2. ASSUME NEW b \in WordOf(S, w) PROVE w * WordBits + b \in S
  <2>1. PICK x \in S : WordPos(x) = w /\ BitPos(x) = b
    BY <1>2 DEF WordOf
  <2>2. x = w * WordBits + b
    BY <2>1, Parts
  <2>3. QED
    BY <2>2
<1>3. ASSUME NEW b \in Bits, w * WordBits + b \in S PROVE b \in WordOf(S, w)
  BY <1>3, Joined DEF WordOf
<1>4. QED
  BY <1>1, <1>2, <1>3

-------------------------------------------------------------------------------
(* The shifts of a word find the nearest bit.                              *)

\* What the searches read for the compressed tick c, and the tick it means.
BitAbove(S, c)  == NextBitGte(WordOf(S, WordPos(c)), BitPos(c))
TickAbove(S, c) == WordPos(c) * WordBits + BitAbove(S, c)[2]
BitBelow(S, c)  == NextBitLte(WordOf(S, WordPos(c)), BitPos(c))
TickBelow(S, c) == WordPos(c) * WordBits + BitBelow(S, c)[2]

LEMMA FindsAbove ==
    ASSUME NEW S \in SUBSET Int, NEW c \in Int
    PROVE  /\ BitAbove(S, c)[1] \in BOOLEAN
           /\ TickAbove(S, c) \in Int /\ c <= TickAbove(S, c)
           /\ BitAbove(S, c)[1] =>
                  TickAbove(S, c) \in S /\ \A x \in S : c <= x => TickAbove(S, c) <= x
           /\ ~BitAbove(S, c)[1] =>
                  /\ \A x \in S : c <= x => TickAbove(S, c) < x
                  /\ (TickAbove(S, c) + 1) % WordBits = 0
<1> DEFINE w == WordPos(c)
           b == BitPos(c)
           word == WordOf(S, w)
           shifted == ShiftRight(word, b)
<1>1. w \in Int /\ b \in Bits /\ c = w * WordBits + b
  BY Parts
<1>2. word \subseteq Bits /\ \A i \in Bits : i \in word <=> w * WordBits + i \in S
  BY <1>1, WordIs
<1>3. \A d : d \in shifted <=> \E i \in word : i >= b /\ d = i - b
  BY DEF ShiftRight
<1>4. BitAbove(S, c) = IF shifted = {} THEN <<FALSE, WordBits - 1>>
                                       ELSE <<TRUE, Min(shifted) + b>>
  BY DEF BitAbove, NextBitGte
<1> HIDE DEF w, b, word, shifted
<1>5. ASSUME NEW x \in S, c <= x
      PROVE  \/ BitPos(x) - b \in shifted /\ x = w * WordBits + BitPos(x)
             \/ w * WordBits + WordBits <= x
  <2>1. x \in Int /\ WordPos(x) \in Int /\ BitPos(x) \in Bits
        /\ x = WordPos(x) * WordBits + BitPos(x)
    BY Parts
  <2>2. w <= WordPos(x)
    BY <1>5, <2>1, WordsOrdered DEF w
  <2>3. CASE w = WordPos(x)
    <3>1. BitPos(x) \in word /\ BitPos(x) >= b
      BY <1>1, <1>2, <1>5, <2>1, <2>3, BitmapAssumption DEF Bits
    <3>2. QED
      BY <1>3, <2>1, <2>3, <3>1
  <2>4. CASE w < WordPos(x)
    <3>1. w * WordBits + WordBits <= WordPos(x) * WordBits
      BY <1>1, <2>1, <2>4, Apart, BitmapAssumption
    <3>2. QED
      BY <1>1, <2>1, <3>1, BitmapAssumption DEF Bits
  <2>5. QED
    BY <1>1, <2>1, <2>2, <2>3, <2>4
<1>6. CASE shifted = {}
  <2>1. BitAbove(S, c)[1] = FALSE /\ TickAbove(S, c) = w * WordBits + WordBits - 1
    BY <1>1, <1>4, <1>6, BitmapAssumption DEF TickAbove, w
  <2>2. \A x \in S : c <= x => TickAbove(S, c) < x
    BY <1>1, <1>5, <1>6, <2>1, BitmapAssumption
  <2>3. (TickAbove(S, c) + 1) % WordBits = 0
    <3>1. TickAbove(S, c) + 1 = (w + 1) * WordBits + 0
      BY <1>1, <2>1, BitmapAssumption
    <3>2. BitPos((w + 1) * WordBits + 0) = 0
      <4>1. w + 1 \in Int /\ 0 \in Bits
        BY <1>1, BitmapAssumption DEF Bits
      <4>2. QED
        BY <4>1, Joined
    <3>3. QED
      BY <3>1, <3>2 DEF BitPos
  <2>4. TickAbove(S, c) \in Int /\ c <= TickAbove(S, c)
    BY <1>1, <2>1, BitmapAssumption DEF Bits
  <2>5. QED
    BY <2>1, <2>2, <2>3, <2>4
<1>7. CASE shifted # {}
  <2> DEFINE m == Min(shifted)
  <2>1. shifted \in SUBSET Int /\ \A d \in shifted : 0 <= d
    BY <1>1, <1>2, <1>3, BitmapAssumption DEF Bits
  <2>2. m \in shifted /\ \A d \in shifted : m <= d
    BY <1>7, <2>1, MinBounded
  <2>3. BitAbove(S, c)[1] = TRUE /\ TickAbove(S, c) = w * WordBits + (m + b)
    BY <1>4, <1>7 DEF TickAbove, w
  <2> HIDE DEF m
  <2>4. m \in Int /\ m >= 0 /\ m + b \in word
    BY <1>1, <1>2, <1>3, <2>2, BitmapAssumption DEF Bits
  <2>5. m + b \in Bits /\ w * WordBits + (m + b) \in S
    BY <1>2, <2>4
  <2>6. ASSUME NEW x \in S, c <= x PROVE TickAbove(S, c) <= x
    <3>1. CASE BitPos(x) - b \in shifted /\ x = w * WordBits + BitPos(x)
      <4>1. m <= BitPos(x) - b
        BY <2>2, <3>1
      <4>2. BitPos(x) \in Int
        BY Parts DEF Bits
      <4>3. QED
        BY <1>1, <2>3, <2>4, <3>1, <4>1, <4>2, BitmapAssumption DEF Bits
    <3>2. CASE w * WordBits + WordBits <= x
      BY <1>1, <2>3, <2>5, <3>2, BitmapAssumption DEF Bits
    <3>3. QED
      BY <1>5, <2>6, <3>1, <3>2
  <2>7. TickAbove(S, c) \in Int /\ c <= TickAbove(S, c)
    <3>1. m + b \in Int /\ m + b >= b
      BY <1>1, <2>2, <2>4, <2>5, BitmapAssumption DEF Bits
    <3>2. QED
      BY <1>1, <2>3, <3>1, BitmapAssumption DEF Bits
  <2>8. QED
    BY <2>3, <2>5, <2>6, <2>7
<1>8. QED
  BY <1>6, <1>7

LEMMA FindsBelow ==
    ASSUME NEW S \in SUBSET Int, NEW c \in Int
    PROVE  /\ BitBelow(S, c)[1] \in BOOLEAN
           /\ TickBelow(S, c) \in Int /\ TickBelow(S, c) <= c
           /\ BitBelow(S, c)[1] =>
                  TickBelow(S, c) \in S /\ \A x \in S : x <= c => x <= TickBelow(S, c)
           /\ ~BitBelow(S, c)[1] =>
                  /\ \A x \in S : x <= c => x < TickBelow(S, c)
                  /\ TickBelow(S, c) % WordBits = 0
<1> DEFINE w == WordPos(c)
           b == BitPos(c)
           word == WordOf(S, w)
           offset == WordBits - 1 - b
           shifted == ShiftLeft(word, offset)
<1>1. w \in Int /\ b \in Bits /\ c = w * WordBits + b
  BY Parts
<1>2. word \subseteq Bits /\ \A i \in Bits : i \in word <=> w * WordBits + i \in S
  BY <1>1, WordIs
<1>3. \A d : d \in shifted <=> \E i \in word : i + offset < WordBits /\ d = i + offset
  BY DEF ShiftLeft
<1>4. BitBelow(S, c) = IF shifted = {} THEN <<FALSE, 0>>
                                       ELSE <<TRUE, Max(shifted) - offset>>
  BY DEF BitBelow, NextBitLte
<1>5. offset \in Int /\ offset = WordBits - 1 - b
  BY <1>1, BitmapAssumption DEF Bits
<1> HIDE DEF w, b, word, offset, shifted
<1>6. ASSUME NEW x \in S, x <= c
      PROVE  \/ BitPos(x) + offset \in shifted /\ x = w * WordBits + BitPos(x)
             \/ x < w * WordBits
  <2>1. x \in Int /\ WordPos(x) \in Int /\ BitPos(x) \in Bits
        /\ x = WordPos(x) * WordBits + BitPos(x)
    BY Parts
  <2>2. WordPos(x) <= w
    BY <1>6, <2>1, WordsOrdered DEF w
  <2>3. CASE w = WordPos(x)
    <3>1. BitPos(x) \in word /\ BitPos(x) <= b
      BY <1>1, <1>2, <1>6, <2>1, <2>3, BitmapAssumption DEF Bits
    <3>2. BitPos(x) + offset < WordBits
      BY <1>1, <1>5, <2>1, <3>1, BitmapAssumption DEF Bits
    <3>3. QED
      BY <1>3, <2>1, <2>3, <3>1, <3>2
  <2>4. CASE WordPos(x) < w
    <3>1. WordPos(x) * WordBits + WordBits <= w * WordBits
      BY <1>1, <2>1, <2>4, Apart, BitmapAssumption
    <3>2. QED
      BY <1>1, <2>1, <3>1, BitmapAssumption DEF Bits
  <2>5. QED
    BY <1>1, <2>1, <2>2, <2>3, <2>4
<1>7. CASE shifted = {}
  <2>1. BitBelow(S, c)[1] = FALSE /\ TickBelow(S, c) = w * WordBits
    BY <1>1, <1>4, <1>7, BitmapAssumption DEF TickBelow, w
  <2>2. \A x \in S : x <= c => x < TickBelow(S, c)
    BY <1>1, <1>6, <1>7, <2>1, BitmapAssumption
  <2>3. TickBelow(S, c) % WordBits = 0
    <3>1. TickBelow(S, c) = w * WordBits + 0
      BY <1>1, <2>1, BitmapAssumption
    <3>2. BitPos(w * WordBits + 0) = 0
      <4>1. w \in Int /\ 0 \in Bits
        BY <1>1, BitmapAssumption DEF Bits
      <4>2. QED
        BY <4>1, Joined
    <3>3. QED
      BY <3>1, <3>2 DEF BitPos
  <2>4. TickBelow(S, c) \in Int /\ TickBelow(S, c) <= c
    BY <1>1, <2>1, BitmapAssumption DEF Bits
  <2>5. QED
    BY <2>1, <2>2, <2>3, <2>4
<1>8. CASE shifted # {}
  <2> DEFINE m == Max(shifted)
  <2>1. shifted \in SUBSET Int /\ \A d \in shifted : d <= WordBits
    BY <1>1, <1>2, <1>3, <1>5, BitmapAssumption DEF Bits
  <2>2. m \in shifted /\ \A d \in shifted : m >= d
    BY <1>8, <2>1, MaxBounded, BitmapAssumption
  <2>3. BitBelow(S, c)[1] = TRUE /\ TickBelow(S, c) = w * WordBits + (m - offset)
    BY <1>4, <1>8 DEF TickBelow, w
  <2> HIDE DEF m
  <2>4. m \in Int /\ m < WordBits /\ m - offset \in word
    BY <1>1, <1>2, <1>3, <1>5, <2>2, BitmapAssumption DEF Bits
  <2>5. m - offset \in Bits /\ w * WordBits + (m - offset) \in S
    BY <1>2, <2>4
  <2>6. ASSUME NEW x \in S, x <= c PROVE x <= TickBelow(S, c)
    <3>1. CASE BitPos(x) + offset \in shifted /\ x = w * WordBits + BitPos(x)
      <4>1. m >= BitPos(x) + offset
        BY <2>2, <3>1
      <4>2. BitPos(x) \in Int
        BY Parts DEF Bits
      <4>3. QED
        BY <1>1, <1>5, <2>3, <2>4, <3>1, <4>1, <4>2, BitmapAssumption DEF Bits
    <3>2. CASE x < w * WordBits
      BY <1>1, <2>3, <2>5, <3>2, BitmapAssumption DEF Bits
    <3>3. QED
      BY <1>6, <2>6, <3>1, <3>2
  <2>7. TickBelow(S, c) \in Int /\ TickBelow(S, c) <= c
    <3>1. m - offset \in Int /\ m - offset <= b
      BY <1>1, <1>5, <2>2, <2>4, <2>5, BitmapAssumption DEF Bits
    <3>2. QED
      BY <1>1, <2>3, <3>1, BitmapAssumption DEF Bits
  <2>8. QED
    BY <2>3, <2>5, <2>6, <2>7
<1>9. QED
  BY <1>7, <1>8

-------------------------------------------------------------------------------
(* The walks over the words.                                               *)

\* No initialized tick of the side searched lies between its start and the
\* tick of the current call, which is not at the bound unless the start was.
WalkInv ==
    /\ query \in Queries /\ tick \in Int
    /\ query.op \in WalkOps /\ answer = <<>> /\ ~StartsAtBound =>
           /\ query.op = "gt" => /\ ~AtUpperBound(tick, spacing)
                                 /\ Floor <= tick \div spacing
                                 /\ \A x \in Side : tick \div spacing < x
           /\ query.op = "lt" => /\ ~AtLowerBound(tick, spacing)
                                 /\ tick \div spacing <= Floor
                                 /\ \A x \in Side : x < tick \div spacing
           /\ query.op = "le" => /\ ~AtLowerBound(tick, spacing)
                                 /\ tick \div spacing <= Floor
                                 /\ \A x \in Side : x <= tick \div spacing
    /\ FindsNearest /\ PassesOverNone

LEMMA PoolIs ==
    ASSUME query \in Queries
    PROVE  /\ spacing \in Nat \ {0} /\ query.start \in Int
           /\ initialized \in SUBSET Int
           /\ \A x \in initialized : MinTick <= x * spacing /\ x * spacing <= MaxTick
           /\ query.initializedOnly \in BOOLEAN
           /\ Floor \in Int /\ Side \subseteq initialized
<1>1. /\ spacing \in Nat \ {0} /\ query.start \in MinTick .. MaxTick
      /\ initialized \in SUBSET Int
      /\ \A x \in initialized : x * spacing \in MinTick .. MaxTick
      /\ query.initializedOnly \in BOOLEAN
  BY QueriesAssumption DEF spacing, initialized
<1>2. Floor \in Int
  BY <1>1, BitmapAssumption DEF Floor
<1>3. QED
  BY <1>1, <1>2, BitmapAssumption DEF Side

\* The tick of the edge of a word is a multiple of the spacing.
LEMMA MultipleIs ==
    ASSUME NEW e \in Int, NEW s \in Nat \ {0}
    PROVE  e * s \in Int /\ (e * s) \div s = e
<1>1. s * e <= e * s /\ e * s < s * e + s /\ e * s \in Int
  OBVIOUS
<1>2. QED
  BY <1>1, FloorUnique

\* A multiple of the spacing at the start of a word is one of both.
LEMMA WordMultiple ==
    ASSUME NEW e \in Int, NEW s \in Nat \ {0}, e % WordBits = 0
    PROVE  (e * s) % (s * WordBits) = 0
<1> DEFINE d == s * WordBits
           k == e \div WordBits
<1>1. k \in Int /\ e = WordBits * k
  BY DivisionRoundsDown, BitmapAssumption
<1>2. d \in Nat \ {0}
  BY BitmapAssumption
<1> HIDE DEF k
<1>3. e * s = d * k
  BY <1>1, BitmapAssumption
<1> HIDE DEF d
<1>4. (d * k) \div d = k
  <2>1. d * k <= d * k /\ d * k < d * k + d /\ d * k \in Int
    BY <1>1, <1>2
  <2>2. QED
    BY <1>1, <1>2, <2>1, FloorUnique
<1>5. (d * k) % d = d * k - d * ((d * k) \div d)
  <2>1. d * k \in Int
    BY <1>1, <1>2
  <2>2. QED
    BY <1>2, <2>1, DivisionRoundsDown
<1>6. (d * k) % d = 0
  BY <1>1, <1>2, <1>4, <1>5
<1>7. QED
  BY <1>3, <1>6 DEF d

\* What one call upwards finds.
LEMMA UpFinds ==
    ASSUME WalkInv, query.op = "gt", answer = <<>>, ~StartsAtBound,
           NEW e, e = TickAbove(initialized, tick \div spacing + 1),
           NEW found, found = BitAbove(initialized, tick \div spacing + 1)[1]
    PROVE  /\ e \in Int /\ found \in BOOLEAN /\ Floor <= e
           /\ found => e \in Side /\ \A x \in Side : e <= x
           /\ ~found => /\ \A x \in Side : e < x
                        /\ MaxTick - e * spacing <= spacing => Side = {}
<1> DEFINE c == tick \div spacing + 1
<1>1. /\ spacing \in Nat \ {0} /\ tick \in Int /\ Floor \in Int
      /\ initialized \in SUBSET Int /\ Side \subseteq initialized
      /\ \A x \in initialized : MinTick <= x * spacing /\ x * spacing <= MaxTick
  BY PoolIs DEF WalkInv
<1>2. c \in Int /\ Floor < c /\ \A x \in Side : c <= x
  <2>1. tick \div spacing \in Int
    BY <1>1
  <2>2. Floor <= tick \div spacing /\ \A x \in Side : tick \div spacing < x
    BY DEF WalkInv, WalkOps
  <2>3. QED
    BY <1>1, <2>1, <2>2
<1> HIDE DEF c
<1>3. /\ found \in BOOLEAN /\ e \in Int /\ c <= e
      /\ found => e \in initialized /\ \A x \in initialized : c <= x => e <= x
      /\ ~found => /\ \A x \in initialized : c <= x => e < x
                   /\ (e + 1) % WordBits = 0
  BY <1>1, <1>2, FindsAbove DEF c
<1>4. found => e \in Side
  <2>1. Floor < e
    BY <1>1, <1>2, <1>3
  <2>2. QED
    BY <1>3, <2>1 DEF Side
<1>5. ASSUME ~found, MaxTick - e * spacing <= spacing, NEW x \in Side
      PROVE  FALSE
  <2>1. x \in Int /\ e < x /\ x * spacing <= MaxTick
    BY <1>1, <1>2, <1>3, <1>5
  <2>2. e * spacing + spacing <= x * spacing
    BY <1>1, <1>3, <2>1, Apart
  <2>3. x = e + 1 \/ e + 1 < x
    BY <1>3, <2>1
  <2>4. CASE e + 1 < x
    <3>1. e + 1 \in Int /\ (e + 1) * spacing = e * spacing + spacing
      BY <1>1, <1>3
    <3>2. (e + 1) * spacing + spacing <= x * spacing
      BY <1>1, <2>1, <2>4, <3>1, Apart
    <3>3. e * spacing \in Int /\ x * spacing \in Int
      BY <1>1, <1>3, <2>1
    <3>4. QED
      BY <1>1, <1>5, <2>1, <3>1, <3>2, <3>3, BitmapAssumption
  <2>5. CASE x = e + 1
    <3>1. e * spacing \in Int /\ x * spacing \in Int
      BY <1>1, <1>3, <2>1
    <3>2. x * spacing = MaxTick
      BY <1>1, <1>5, <2>1, <2>2, <3>1, BitmapAssumption
    <3>3. MaxTick % (spacing * WordBits) = 0
      BY <1>1, <1>3, <1>5, <2>1, <2>5, <3>2, WordMultiple
    <3>4. MaxTick % (spacing * WordBits) # 0
      BY BoundsAssumption DEF WalkInv, spacing
    <3>5. QED
      BY <3>3, <3>4
  <2>6. QED
    BY <2>3, <2>4, <2>5
<1>6. QED
  BY <1>1, <1>2, <1>3, <1>4, <1>5

\* What one call downwards from c finds.
LEMMA DownFinds ==
    ASSUME query \in Queries, query.op \in {"lt", "le"},
           NEW c \in Int, \A x \in Side : x <= c,
           query.op = "lt" => c < Floor, query.op = "le" => c <= Floor,
           NEW e, e = TickBelow(initialized, c),
           NEW found, found = BitBelow(initialized, c)[1]
    PROVE  /\ e \in Int /\ found \in BOOLEAN /\ e <= Floor
           /\ found => e \in Side /\ \A x \in Side : x <= e
           /\ ~found => /\ \A x \in Side : x < e
                        /\ e * spacing - MinTick <= spacing => Side = {}
<1>1. /\ spacing \in Nat \ {0} /\ Floor \in Int
      /\ initialized \in SUBSET Int /\ Side \subseteq initialized
      /\ \A x \in initialized : MinTick <= x * spacing /\ x * spacing <= MaxTick
  BY PoolIs
<1>2. /\ found \in BOOLEAN /\ e \in Int /\ e <= c
      /\ found => e \in initialized /\ \A x \in initialized : x <= c => x <= e
      /\ ~found => /\ \A x \in initialized : x <= c => x < e
                   /\ e % WordBits = 0
  BY <1>1, FindsBelow
<1>3. found => e \in Side
  BY <1>1, <1>2 DEF Side
<1>4. ASSUME ~found, e * spacing - MinTick <= spacing, NEW x \in Side
      PROVE  FALSE
  <2>1. x \in Int /\ x < e /\ MinTick <= x * spacing
    BY <1>1, <1>2, <1>4
  <2>2. x * spacing + spacing <= e * spacing
    BY <1>1, <1>2, <2>1, Apart
  <2>3. e * spacing \in Int /\ x * spacing \in Int
    BY <1>1, <1>2, <2>1
  <2>4. MinTick + spacing = e * spacing
    BY <1>1, <1>4, <2>1, <2>2, <2>3, BitmapAssumption
  <2>5. (MinTick + spacing) % (spacing * WordBits) = 0
    BY <1>1, <1>2, <1>4, <2>4, WordMultiple
  <2>6. (MinTick + spacing) % (spacing * WordBits) # 0
    BY BoundsAssumption DEF spacing
  <2>7. QED
    BY <2>5, <2>6
<1>5. QED
  BY <1>1, <1>2, <1>3, <1>4

\* The answer of a search is right when it is the nearest tick, or the edge of
\* a word with nothing on the way (and then nothing at all, if only an
\* initialized tick will do).
LEMMA AnswerIsRight ==
    ASSUME query \in Queries, UNCHANGED query, query.op \in WalkOps, ~StartsAtBound,
           NEW e \in Int, NEW found \in BOOLEAN, answer' = <<found, e * spacing>>,
           found => /\ e \in Side
                    /\ query.op = "gt" => \A x \in Side : e <= x
                    /\ query.op # "gt" => \A x \in Side : x <= e,
           ~found => /\ query.op = "gt" => \A x \in Side : e < x
                     /\ query.op # "gt" => \A x \in Side : x < e
                     /\ query.initializedOnly => Side = {}
    PROVE  FindsNearest' /\ PassesOverNone'
<1>1. /\ spacing \in Nat \ {0} /\ initialized \in SUBSET Int /\ Side \in SUBSET Int
  BY PoolIs
<1>2. /\ spacing' = spacing /\ initialized' = initialized /\ Floor' = Floor
      /\ Side' = Side /\ Nearest' = Nearest /\ StartsAtBound' = StartsAtBound
  BY DEF spacing, initialized, Floor, Side, Nearest, StartsAtBound
<1>3. found => Nearest = e
  <2>1. CASE query.op = "gt"
    BY <1>1, <2>1, MinIs DEF Nearest
  <2>2. CASE query.op # "gt"
    <3>1. found => \A x \in Side : e >= x
      BY <1>1, <2>2
    <3>2. QED
      BY <1>1, <2>2, <3>1, MaxIs DEF Nearest
  <2>3. QED
    BY <2>1, <2>2
<1>4. answer'[1] = found /\ answer'[2] = e * spacing /\ answer' # <<>>
  OBVIOUS
<1>5. FindsNearest'
  <2>1. query.initializedOnly => (found <=> Side # {})
    OBVIOUS
  <2>2. QED
    BY <1>2, <1>3, <1>4, <2>1 DEF FindsNearest
<1>6. PassesOverNone'
  <2>1. ASSUME ~found, NEW x \in Side
        PROVE  IF query.op = "gt" THEN x * spacing > e * spacing
                                  ELSE x * spacing < e * spacing
    <3>1. x \in Int /\ x * spacing \in Int /\ e * spacing \in Int
      BY <1>1
    <3>2. CASE query.op = "gt"
      <4>1. e * spacing + spacing <= x * spacing
        BY <1>1, <2>1, <3>1, <3>2, Apart
      <4>2. QED
        BY <1>1, <3>1, <3>2, <4>1
    <3>3. CASE query.op # "gt"
      <4>1. x * spacing + spacing <= e * spacing
        BY <1>1, <2>1, <3>1, <3>3, Apart
      <4>2. QED
        BY <1>1, <3>1, <3>3, <4>1
    <3>4. QED
      BY <3>2, <3>3
  <2>2. QED
    BY <1>2, <1>3, <1>4, <2>1 DEF PassesOverNone
<1>7. QED
  BY <1>5, <1>6

\* A search that starts within a spacing of the bound is not judged.
LEMMA BoundStep ==
    ASSUME WalkInv, Next, StartsAtBound
    PROVE  WalkInv'
<1>1. UNCHANGED query
  BY DEF Next, NextTickGt, NextTickLt, NextTickLe, WithinWord, V3WithinWord,
     Upwards, Downwards, Continue, Return
<1>2. StartsAtBound'
  BY <1>1 DEF StartsAtBound, spacing
<1>3. tick' \in Int
  <2>1. spacing \in Nat \ {0} /\ initialized \in SUBSET Int /\ tick \in Int
    BY PoolIs DEF WalkInv
  <2>2. \A c \in Int : TickAbove(initialized, c) * spacing \in Int
                       /\ TickBelow(initialized, c) * spacing \in Int
    BY <2>1, FindsAbove, FindsBelow
  <2>3. CompressTick(tick, spacing) \in Int
    BY <2>1, CompressIsFloor
  <2>4. ASSUME NEW c \in Int, Upwards(c) \/ Downwards(c) PROVE tick' \in Int
    BY <2>1, <2>2, <2>4 DEF Upwards, Downwards, Continue, Return, TickFromWordAndBit,
       TickAbove, BitAbove, TickBelow, BitBelow
  <2>5. QED
    <3>1. /\ CompressTick(tick, spacing) + 1 \in Int
          /\ CompressTick(tick, spacing) - 1 \in Int
      BY <2>3
    <3>2. QED
      BY <2>1, <2>3, <2>4, <3>1 DEF Next, NextTickGt, NextTickLt, NextTickLe,
         WithinWord, V3WithinWord, Return
<1>4. QED
  BY <1>1, <1>2, <1>3 DEF WalkInv, FindsNearest, PassesOverNone

LEMMA UpStep ==
    ASSUME WalkInv, NextTickGt, ~StartsAtBound
    PROVE  WalkInv'
<1> DEFINE c == tick \div spacing + 1
           e == TickAbove(initialized, c)
           found == BitAbove(initialized, c)[1]
<1>1. /\ query.op = "gt" /\ answer = <<>> /\ query \in Queries /\ tick \in Int
      /\ spacing \in Nat \ {0} /\ query.op \in WalkOps /\ ~AtUpperBound(tick, spacing)
  BY PoolIs DEF WalkInv, NextTickGt, Asked, WalkOps
<1>2. /\ e \in Int /\ found \in BOOLEAN /\ Floor <= e
      /\ found => e \in Side /\ \A x \in Side : e <= x
      /\ ~found => /\ \A x \in Side : e < x
                   /\ MaxTick - e * spacing <= spacing => Side = {}
  BY <1>1, UpFinds
<1>3. Upwards(c)
  BY <1>1, CompressIsFloor DEF NextTickGt
<1>4. Continue(found, e * spacing, MaxTick - e * spacing <= spacing)
  BY <1>3 DEF Upwards, TickFromWordAndBit, TickAbove, BitAbove
<1> HIDE DEF c, e, found
<1>5. UNCHANGED query
  BY <1>4 DEF Continue, Return
<1>6. /\ spacing' = spacing /\ Floor' = Floor /\ Side' = Side
      /\ StartsAtBound' = StartsAtBound
  BY <1>5 DEF spacing, initialized, Floor, Side, StartsAtBound
<1>7. CASE Return(found, e * spacing) /\ (query.initializedOnly =>
               found \/ MaxTick - e * spacing <= spacing)
  <2>1. answer' = <<found, e * spacing>> /\ tick' = tick
    BY <1>7 DEF Return
  <2>2. FindsNearest' /\ PassesOverNone'
    BY <1>1, <1>2, <1>5, <1>7, <2>1, AnswerIsRight
  <2>3. QED
    BY <1>1, <1>5, <2>1, <2>2 DEF WalkInv
<1>8. CASE tick' = e * spacing /\ UNCHANGED answer /\ ~found
           /\ ~(MaxTick - e * spacing <= spacing)
  <2>1. tick' \in Int /\ tick' \div spacing = e
    BY <1>1, <1>2, <1>8, MultipleIs
  <2>2. ~AtUpperBound(tick', spacing)
    BY <1>1, <1>8, <2>1, BitmapAssumption DEF AtUpperBound
  <2>3. FindsNearest' /\ PassesOverNone'
    BY <1>1, <1>8 DEF FindsNearest, PassesOverNone
  <2>4. query'.op = "gt" /\ tick' \in Int /\ query' \in Queries
    BY <1>1, <1>5, <2>1
  <2>5. QED
    BY <1>2, <1>6, <1>8, <2>1, <2>2, <2>3, <2>4 DEF WalkInv
<1>9. QED
  BY <1>1, <1>2, <1>4, <1>7, <1>8, PoolIs DEF Continue

LEMMA DownStep ==
    ASSUME WalkInv, NextTickLt \/ NextTickLe, ~StartsAtBound
    PROVE  WalkInv'
<1> DEFINE c == IF query.op = "lt" THEN tick \div spacing - 1 ELSE tick \div spacing
           e == TickBelow(initialized, c)
           found == BitBelow(initialized, c)[1]
<1>1. /\ query.op \in {"lt", "le"} /\ answer = <<>> /\ query \in Queries /\ tick \in Int
      /\ spacing \in Nat \ {0} /\ query.op \in WalkOps /\ ~AtLowerBound(tick, spacing)
      /\ Floor \in Int /\ Side \in SUBSET Int /\ tick \div spacing \in Int
  <2>1. /\ query.op \in {"lt", "le"} /\ answer = <<>> /\ query.op \in WalkOps
        /\ query \in Queries /\ tick \in Int
    BY DEF WalkInv, NextTickLt, NextTickLe, Asked, WalkOps
  <2>2. ~AtLowerBound(tick, spacing)
    BY <2>1 DEF WalkInv
  <2>3. /\ spacing \in Nat \ {0} /\ Floor \in Int /\ Side \in SUBSET Int
    BY <2>1, PoolIs
  <2>4. tick \div spacing \in Int
    BY <2>1, <2>3
  <2>5. QED
    BY <2>1, <2>2, <2>3, <2>4
<1>2. /\ c \in Int /\ \A x \in Side : x <= c
      /\ query.op = "lt" => c < Floor
      /\ query.op = "le" => c <= Floor
  <2>1. CASE query.op = "lt"
    BY <1>1, <2>1 DEF WalkInv
  <2>2. CASE query.op = "le"
    BY <1>1, <2>2 DEF WalkInv
  <2>3. QED
    BY <1>1, <2>1, <2>2
<1>3. Downwards(c)
  BY <1>1, CompressIsFloor DEF NextTickLt, NextTickLe, Asked
<1> HIDE DEF c
<1>4. /\ e \in Int /\ found \in BOOLEAN /\ e <= Floor
      /\ found => e \in Side /\ \A x \in Side : x <= e
      /\ ~found => /\ \A x \in Side : x < e
                   /\ e * spacing - MinTick <= spacing => Side = {}
  BY <1>1, <1>2, DownFinds
<1>5. Continue(found, e * spacing, e * spacing - MinTick <= spacing)
  BY <1>3 DEF Downwards, TickFromWordAndBit, TickBelow, BitBelow
<1> HIDE DEF e, found
<1>6. UNCHANGED query
  BY <1>5 DEF Continue, Return
<1>7. /\ spacing' = spacing /\ Floor' = Floor /\ Side' = Side
      /\ StartsAtBound' = StartsAtBound
  BY <1>6 DEF spacing, initialized, Floor, Side, StartsAtBound
<1>8. CASE Return(found, e * spacing) /\ (query.initializedOnly =>
               found \/ e * spacing - MinTick <= spacing)
  <2>1. answer' = <<found, e * spacing>> /\ tick' = tick
    BY <1>8 DEF Return
  <2>2. FindsNearest' /\ PassesOverNone'
    BY <1>1, <1>4, <1>6, <1>8, <2>1, AnswerIsRight
  <2>3. QED
    BY <1>1, <1>6, <2>1, <2>2 DEF WalkInv
<1>9. CASE tick' = e * spacing /\ UNCHANGED answer /\ ~found
           /\ ~(e * spacing - MinTick <= spacing)
  <2>1. tick' \in Int /\ tick' \div spacing = e
    BY <1>1, <1>4, <1>9, MultipleIs
  <2>2. ~AtLowerBound(tick', spacing)
    BY <1>1, <1>9, <2>1, BitmapAssumption DEF AtLowerBound
  <2>3. FindsNearest' /\ PassesOverNone'
    BY <1>1, <1>9 DEF FindsNearest, PassesOverNone
  <2>4. query'.op \in {"lt", "le"} /\ tick' \in Int /\ query' \in Queries
    BY <1>1, <1>6, <2>1
  <2>5. \A x \in Side : x < e /\ x <= e
    BY <1>1, <1>4, <1>9
  <2>6. QED
    BY <1>4, <1>7, <1>9, <2>1, <2>2, <2>3, <2>4, <2>5 DEF WalkInv
<1>10. QED
  BY <1>1, <1>4, <1>5, <1>8, <1>9, PoolIs DEF Continue

LEMMA NextWalkInv == WalkInv /\ [Next]_vars => WalkInv'
<1> SUFFICES ASSUME WalkInv, [Next]_vars PROVE WalkInv'
  OBVIOUS
<1>1. CASE Next /\ StartsAtBound
  BY <1>1, BoundStep
<1>2. CASE NextTickGt /\ ~StartsAtBound
  BY <1>2, UpStep
<1>3. CASE (NextTickLt \/ NextTickLe) /\ ~StartsAtBound
  BY <1>3, DownStep
<1>4. CASE WithinWord \/ V3WithinWord
  <2>1. /\ query.op \in WordOps /\ UNCHANGED <<query, tick>>
    BY <1>4 DEF WithinWord, V3WithinWord, Asked, WordOps, Return
  <2>2. query'.op \notin WalkOps
    BY <2>1 DEF WordOps, WalkOps
  <2>3. QED
    BY <2>1, <2>2 DEF WalkInv, FindsNearest, PassesOverNone
<1>5. CASE UNCHANGED vars
  <2>1. UNCHANGED <<query, tick, answer>>
    BY <1>5 DEF vars
  <2>2. UNCHANGED <<StartsAtBound, Side, Floor, Nearest, spacing>>
    BY <2>1 DEF StartsAtBound, Side, Floor, Nearest, spacing, initialized
  <2>3. QED
    BY <2>1, <2>2 DEF WalkInv, FindsNearest, PassesOverNone
<1>6. QED
  BY <1>1, <1>2, <1>3, <1>4, <1>5 DEF Next

LEMMA InitWalkInv == Init => WalkInv
<1> SUFFICES ASSUME Init PROVE WalkInv
  OBVIOUS
<1>1. /\ query \in Queries /\ tick = query.start /\ answer = <<>>
      /\ spacing \in Nat \ {0} /\ query.start \in Int /\ Side \in SUBSET Int
      /\ Floor \in Int /\ tick \div spacing = Floor
  BY PoolIs DEF Init, Floor
<1>2. /\ query.op = "gt" => \A x \in Side : Floor < x
      /\ query.op = "lt" => \A x \in Side : x < Floor
      /\ query.op = "le" => \A x \in Side : x <= Floor
  BY <1>1 DEF Side
<1>3. ~StartsAtBound => /\ query.op = "gt" => ~AtUpperBound(tick, spacing)
                        /\ query.op # "gt" => ~AtLowerBound(tick, spacing)
  BY <1>1 DEF StartsAtBound
<1>4. FindsNearest /\ PassesOverNone
  BY <1>1 DEF FindsNearest, PassesOverNone
<1>5. QED
  BY <1>1, <1>2, <1>3, <1>4 DEF WalkInv

\* next_tick_gt, next_tick_lt and next_tick_le, asked for initialized ticks
\* only, find the nearest one of any pool however many words lie between, and
\* say that there is none only when there is none.
THEOREM NearestCorrect == Spec => []FindsNearest
<1>1. WalkInv => FindsNearest
  BY DEF WalkInv
<1>2. QED
  BY <1>1, InitWalkInv, NextWalkInv, PTL DEF Spec

\* The same searches, asked for any tick, answer with the nearest initialized
\* tick of any pool or with the edge of a word and no such tick before it.
THEOREM PassesCorrect == Spec => []PassesOverNone
<1>1. WalkInv => PassesOverNone
  BY DEF WalkInv
<1>2. QED
  BY <1>1, InitWalkInv, NextWalkInv, PTL DEF Spec

-------------------------------------------------------------------------------
(* The searches of one word.                                               *)

\* What a search of one word is asked for, in terms of ticks.
LEMMA WordStartIs ==
    ASSUME query \in Queries
    PROVE  /\ WordStart \in Int /\ WordSide \in SUBSET Int
           /\ WordStart = IF query.op \in {"gtWord", "v3GtWord"}
                          THEN CompressTick(query.start, spacing) + 1
                          ELSE CompressTick(query.start, spacing)
           /\ \A x : x \in WordSide <=>
                  /\ x \in initialized /\ WordPos(x) = WordPos(WordStart)
                  /\ IF query.op \in {"gtWord", "v3GtWord"} THEN x >= WordStart
                                                           ELSE x <= WordStart
<1>1. /\ spacing \in Nat \ {0} /\ query.start \in Int
      /\ initialized \in SUBSET Int /\ Floor \in Int
  BY PoolIs
<1>2. Floor = CompressTick(query.start, spacing)
  BY <1>1, CompressIsFloor DEF Floor
<1>3. WordStart \in Int
  BY <1>1 DEF WordStart
<1>4. QED
  BY <1>1, <1>2, <1>3 DEF WordStart, WordSide, WordPos

LEMMA WordGtIs ==
    ASSUME query \in Queries, query.op \in {"gtWord", "v3GtWord"}
    PROVE  NextWithinWordGt(initialized, query.start, spacing) =
               <<WordSide # {},
                 spacing * Min(WordSide \cup {WordPos(WordStart) * WordBits + WordBits - 1})>>
<1> DEFINE c == WordStart
           w == WordPos(c)
           b == BitPos(c)
           last == w * WordBits + WordBits - 1
           masked == {i \in WordOf(initialized, w) : i >= b}
           bit == IF masked # {} THEN Min(masked) ELSE WordBits - 1
<1>1. /\ c \in Int /\ c = CompressTick(query.start, spacing) + 1
      /\ WordSide \in SUBSET Int /\ spacing \in Nat \ {0} /\ initialized \in SUBSET Int
      /\ \A x : x \in WordSide <=> x \in initialized /\ WordPos(x) = w /\ x >= c
  BY WordStartIs, PoolIs
<1>2. NextWithinWordGt(initialized, query.start, spacing) =
          <<masked # {}, (c + (bit - b)) * spacing>>
  BY <1>1 DEF NextWithinWordGt
<1> HIDE DEF c
<1>3. w \in Int /\ b \in Bits /\ c = w * WordBits + b
  BY <1>1, Parts
<1>4. /\ masked \subseteq Bits
      /\ \A i \in Bits : i \in masked <=> w * WordBits + i \in WordSide
  <2>1. ASSUME NEW i \in Bits
        PROVE  i \in masked <=> w * WordBits + i \in WordSide
    <3>1. WordPos(w * WordBits + i) = w /\ w * WordBits + i \in Int
      BY <1>3, Joined
    <3>2. i \in WordOf(initialized, w) <=> w * WordBits + i \in initialized
      BY <1>1, <1>3, WordIs
    <3>3. i >= b <=> w * WordBits + i >= c
      BY <1>3, BitmapAssumption DEF Bits
    <3>4. QED
      BY <1>1, <3>1, <3>2, <3>3
  <2>2. QED
    BY <1>1, <1>3, <2>1, WordIs
<1>5. \A x \in WordSide : BitPos(x) \in masked /\ x = w * WordBits + BitPos(x)
  BY <1>1, <1>4, Parts
<1> HIDE DEF w, b, masked
<1>6. masked # {} <=> WordSide # {}
  BY <1>4, <1>5
<1>7. /\ bit \in Bits
      /\ w * WordBits + bit \in WordSide \cup {last}
      /\ \A x \in WordSide \cup {last} : w * WordBits + bit <= x
  <2>1. CASE masked = {}
    <3>1. bit = WordBits - 1 /\ WordSide = {}
      BY <1>6, <2>1
    <3>2. QED
      BY <1>3, <3>1, BitmapAssumption DEF Bits
  <2>2. CASE masked # {}
    <3>1. bit \in masked /\ \A i \in masked : bit <= i
      BY <1>4, <2>2, MinBounded, BitmapAssumption DEF Bits
    <3> HIDE DEF bit
    <3>2. bit \in Bits /\ w * WordBits + bit \in WordSide
      BY <1>4, <3>1
    <3>3. w * WordBits + bit <= last
      BY <1>3, <3>2, BitmapAssumption DEF Bits
    <3>4. ASSUME NEW x \in WordSide PROVE w * WordBits + bit <= x
      <4>1. bit <= BitPos(x) /\ x = w * WordBits + BitPos(x) /\ BitPos(x) \in Bits
        BY <1>4, <1>5, <3>1
      <4>2. QED
        BY <1>3, <3>2, <4>1, BitmapAssumption DEF Bits
    <3>5. QED
      BY <3>2, <3>3, <3>4
  <2>3. QED
    BY <2>1, <2>2
<1> HIDE DEF bit
<1>8. Min(WordSide \cup {last}) = w * WordBits + bit
  <2>1. last \in Int
    BY <1>3, BitmapAssumption
  <2>2. QED
    BY <1>1, <1>7, <2>1, MinIs
<1>9. (c + (bit - b)) * spacing = spacing * (w * WordBits + bit)
  <2>1. c + (bit - b) = w * WordBits + bit /\ w * WordBits + bit \in Int
    BY <1>3, <1>7, BitmapAssumption DEF Bits
  <2>2. QED
    BY <1>1, <2>1
<1>10. QED
  BY <1>2, <1>6, <1>8, <1>9 DEF w, c

LEMMA WordLteIs ==
    ASSUME query \in Queries, query.op \in {"lteWord", "v3LteWord"}
    PROVE  NextWithinWordLte(initialized, query.start, spacing) =
               <<WordSide # {},
                 spacing * Max(WordSide \cup {WordPos(WordStart) * WordBits})>>
<1> DEFINE c == WordStart
           w == WordPos(c)
           b == BitPos(c)
           first == w * WordBits
           masked == {i \in WordOf(initialized, w) : i <= b}
           bit == IF masked # {} THEN Max(masked) ELSE 0
<1>1. /\ c \in Int /\ c = CompressTick(query.start, spacing)
      /\ WordSide \in SUBSET Int /\ spacing \in Nat \ {0} /\ initialized \in SUBSET Int
      /\ \A x : x \in WordSide <=> x \in initialized /\ WordPos(x) = w /\ x <= c
  BY WordStartIs, PoolIs
<1>2. NextWithinWordLte(initialized, query.start, spacing) =
          <<masked # {}, (c - (b - bit)) * spacing>>
  BY <1>1 DEF NextWithinWordLte
<1> HIDE DEF c
<1>3. w \in Int /\ b \in Bits /\ c = w * WordBits + b
  BY <1>1, Parts
<1>4. /\ masked \subseteq Bits
      /\ \A i \in Bits : i \in masked <=> w * WordBits + i \in WordSide
  <2>1. ASSUME NEW i \in Bits
        PROVE  i \in masked <=> w * WordBits + i \in WordSide
    <3>1. WordPos(w * WordBits + i) = w /\ w * WordBits + i \in Int
      BY <1>3, Joined
    <3>2. i \in WordOf(initialized, w) <=> w * WordBits + i \in initialized
      BY <1>1, <1>3, WordIs
    <3>3. i <= b <=> w * WordBits + i <= c
      BY <1>3, BitmapAssumption DEF Bits
    <3>4. QED
      BY <1>1, <3>1, <3>2, <3>3
  <2>2. QED
    BY <1>1, <1>3, <2>1, WordIs
<1>5. \A x \in WordSide : BitPos(x) \in masked /\ x = w * WordBits + BitPos(x)
  BY <1>1, <1>4, Parts
<1> HIDE DEF w, b, masked
<1>6. masked # {} <=> WordSide # {}
  BY <1>4, <1>5
<1>7. /\ bit \in Bits
      /\ w * WordBits + bit \in WordSide \cup {first}
      /\ \A x \in WordSide \cup {first} : w * WordBits + bit >= x
  <2>1. CASE masked = {}
    <3>1. bit = 0 /\ WordSide = {}
      BY <1>6, <2>1
    <3>2. QED
      BY <1>3, <3>1, BitmapAssumption DEF Bits
  <2>2. CASE masked # {}
    <3>1. bit \in masked /\ \A i \in masked : bit >= i
      BY <1>4, <2>2, MaxBounded, BitmapAssumption DEF Bits
    <3> HIDE DEF bit
    <3>2. bit \in Bits /\ w * WordBits + bit \in WordSide
      BY <1>4, <3>1
    <3>3. w * WordBits + bit >= first
      BY <1>3, <3>2, BitmapAssumption DEF Bits
    <3>4. ASSUME NEW x \in WordSide PROVE w * WordBits + bit >= x
      <4>1. bit >= BitPos(x) /\ x = w * WordBits + BitPos(x) /\ BitPos(x) \in Bits
        BY <1>4, <1>5, <3>1
      <4>2. QED
        BY <1>3, <3>2, <4>1, BitmapAssumption DEF Bits
    <3>5. QED
      BY <3>2, <3>3, <3>4
  <2>3. QED
    BY <2>1, <2>2
<1> HIDE DEF bit
<1>8. Max(WordSide \cup {first}) = w * WordBits + bit
  <2>1. first \in Int
    BY <1>3, BitmapAssumption
  <2>2. QED
    BY <1>1, <1>7, <2>1, MaxIs
<1>9. (c - (b - bit)) * spacing = spacing * (w * WordBits + bit)
  <2>1. c - (b - bit) = w * WordBits + bit /\ w * WordBits + bit \in Int
    BY <1>3, <1>7, BitmapAssumption DEF Bits
  <2>2. QED
    BY <1>1, <2>1
<1>10. QED
  BY <1>2, <1>6, <1>8, <1>9 DEF w, c

\* A search of one word is one call.
OneWord ==
    /\ query \in Queries
    /\ query.op \in WordOps => tick = query.start
    /\ WordSearchesAgree

LEMMA NextOneWord == OneWord /\ [Next]_vars => OneWord'
<1> SUFFICES ASSUME OneWord, [Next]_vars PROVE OneWord'
  OBVIOUS
<1>1. CASE NextTickGt \/ NextTickLt \/ NextTickLe
  <2>1. UNCHANGED query /\ query.op \notin WordOps
    BY <1>1 DEF NextTickGt, NextTickLt, NextTickLe, Asked, WordOps,
       Upwards, Downwards, Continue, Return
  <2>2. QED
    BY <2>1 DEF OneWord, WordSearchesAgree
<1>2. CASE WithinWord \/ V3WithinWord
  <2>1. /\ UNCHANGED <<query, tick>> /\ query \in Queries /\ tick = query.start
        /\ query.op \in WordOps
    BY <1>2 DEF WithinWord, V3WithinWord, Return, Asked, WordOps, OneWord
  <2>2. UNCHANGED <<WordStart, WordSide, spacing>>
    BY <2>1 DEF WordStart, WordSide, Floor, spacing, initialized
  <2>3. /\ initialized \in SUBSET Int /\ tick \in Int /\ spacing \in Nat \ {0}
    BY <2>1, PoolIs
  <2>4. CASE query.op \in {"gtWord", "v3GtWord"}
    <3>1. answer' = NextWithinWordGt(initialized, query.start, spacing)
      <4>1. CASE WithinWord
        <5>1. answer' = <<NextWithinWordGt(initialized, tick, spacing)[1],
                          NextWithinWordGt(initialized, tick, spacing)[2]>>
          BY <2>4, <4>1 DEF WithinWord, Asked, Return
        <5>2. QED
          BY <2>1, <5>1 DEF NextWithinWordGt
      <4>2. CASE V3WithinWord
        <5>1. answer' = <<V3NextWithinWord(initialized, tick, spacing, FALSE)[1],
                          V3NextWithinWord(initialized, tick, spacing, FALSE)[2]>>
          BY <2>4, <4>2 DEF V3WithinWord, Asked, Return
        <5>2. V3NextWithinWord(initialized, tick, spacing, FALSE) =
                  NextWithinWordGt(initialized, tick, spacing)
          BY <2>3, WordSearchesAlike
        <5>3. NextWithinWordGt(initialized, tick, spacing) =
                  <<NextWithinWordGt(initialized, tick, spacing)[1],
                    NextWithinWordGt(initialized, tick, spacing)[2]>>
          BY DEF NextWithinWordGt
        <5>4. QED
          BY <2>1, <5>1, <5>2, <5>3
      <4>3. QED
        BY <1>2, <4>1, <4>2
    <3>2. answer' = <<WordSide # {}, spacing * Min(WordSide \cup
                        {WordPos(WordStart) * WordBits + WordBits - 1})>>
      BY <2>1, <2>4, <3>1, WordGtIs
    <3>3. WordSearchesAgree'
      BY <2>1, <2>2, <2>4, <3>2 DEF WordSearchesAgree, WordPos
    <3>4. QED
      BY <2>1, <3>3 DEF OneWord
  <2>5. CASE query.op \in {"lteWord", "v3LteWord"}
    <3>1. answer' = NextWithinWordLte(initialized, query.start, spacing)
      <4>1. CASE WithinWord
        <5>1. answer' = <<NextWithinWordLte(initialized, tick, spacing)[1],
                          NextWithinWordLte(initialized, tick, spacing)[2]>>
          BY <2>5, <4>1 DEF WithinWord, Asked, Return
        <5>2. QED
          BY <2>1, <5>1 DEF NextWithinWordLte
      <4>2. CASE V3WithinWord
        <5>1. answer' = <<V3NextWithinWord(initialized, tick, spacing, TRUE)[1],
                          V3NextWithinWord(initialized, tick, spacing, TRUE)[2]>>
          BY <2>5, <4>2 DEF V3WithinWord, Asked, Return
        <5>2. V3NextWithinWord(initialized, tick, spacing, TRUE) =
                  NextWithinWordLte(initialized, tick, spacing)
          BY <2>3, WordSearchesAlike
        <5>3. NextWithinWordLte(initialized, tick, spacing) =
                  <<NextWithinWordLte(initialized, tick, spacing)[1],
                    NextWithinWordLte(initialized, tick, spacing)[2]>>
          BY DEF NextWithinWordLte
        <5>4. QED
          BY <2>1, <5>1, <5>2, <5>3
      <4>3. QED
        BY <1>2, <4>1, <4>2
    <3>2. answer' = <<WordSide # {}, spacing * Max(WordSide \cup
                        {WordPos(WordStart) * WordBits})>>
      BY <2>1, <2>5, <3>1, WordLteIs
    <3>3. WordSearchesAgree'
      BY <2>1, <2>2, <2>5, <3>2 DEF WordSearchesAgree, WordPos
    <3>4. QED
      BY <2>1, <3>3 DEF OneWord
  <2>6. QED
    BY <2>1, <2>4, <2>5 DEF WordOps
<1>3. CASE UNCHANGED vars
  <2>1. UNCHANGED <<query, tick, answer>>
    BY <1>3 DEF vars
  <2>2. UNCHANGED <<WordStart, WordSide, spacing>>
    BY <2>1 DEF WordStart, WordSide, Floor, spacing, initialized
  <2>3. QED
    BY <2>1, <2>2 DEF OneWord, WordSearchesAgree
<1>4. QED
  BY <1>1, <1>2, <1>3 DEF Next

\* next_initialized_tick_within_one_word of v4 and of v3 answer for any pool with
\* the nearest initialized tick of the word on that side, or with its edge.
THEOREM WordsCorrect == Spec => []WordSearchesAgree
<1>1. Init => OneWord
  BY DEF Init, OneWord, WordSearchesAgree
<1>2. OneWord => WordSearchesAgree
  BY DEF OneWord
<1>3. QED
  BY <1>1, <1>2, NextOneWord, PTL DEF Spec

-------------------------------------------------------------------------------
(* Every tick fits an I24.                                                 *)

LEMMA HalfIs == I24Half \in Nat
  BY SMT DEF I24Half

\* The bit a search answers with lies in the word it read.
LEMMA BitAboveInWord ==
    ASSUME NEW S \in SUBSET Int, NEW c \in Int
    PROVE  BitAbove(S, c)[2] \in Bits
<1> DEFINE w == WordPos(c)
           b == BitPos(c)
           word == WordOf(S, w)
           shifted == ShiftRight(word, b)
<1>1. b \in Bits /\ word \subseteq Bits
  BY Parts, WordIs
<1>2. \A d : d \in shifted <=> \E i \in word : i >= b /\ d = i - b
  BY DEF ShiftRight
<1>3. BitAbove(S, c)[2] = IF shifted = {} THEN WordBits - 1 ELSE Min(shifted) + b
  BY DEF BitAbove, NextBitGte
<1> HIDE DEF w, b, word, shifted
<1>4. CASE shifted = {}
  BY <1>3, <1>4, BitmapAssumption, HalfIs DEF Bits
<1>5. CASE shifted # {}
  <2>1. shifted \in SUBSET Int /\ \A d \in shifted : 0 <= d
    BY <1>1, <1>2, BitmapAssumption, HalfIs DEF Bits
  <2>2. Min(shifted) \in shifted
    BY <1>5, <2>1, MinBounded
  <2>3. PICK i \in word : Min(shifted) = i - b
    BY <1>2, <2>2
  <2>4. QED
    BY <1>1, <1>3, <1>5, <2>3, BitmapAssumption, HalfIs DEF Bits
<1>6. QED
  BY <1>4, <1>5

LEMMA BitBelowInWord ==
    ASSUME NEW S \in SUBSET Int, NEW c \in Int
    PROVE  BitBelow(S, c)[2] \in Bits
<1> DEFINE w == WordPos(c)
           b == BitPos(c)
           word == WordOf(S, w)
           offset == WordBits - 1 - b
           shifted == ShiftLeft(word, offset)
<1>1. b \in Bits /\ word \subseteq Bits
  BY Parts, WordIs
<1>2. \A d : d \in shifted <=> \E i \in word : i + offset < WordBits /\ d = i + offset
  BY DEF ShiftLeft
<1>3. BitBelow(S, c)[2] = IF shifted = {} THEN 0 ELSE Max(shifted) - offset
  BY DEF BitBelow, NextBitLte
<1>4. offset \in Int
  BY <1>1, BitmapAssumption, HalfIs DEF Bits
<1> HIDE DEF w, b, word, offset, shifted
<1>5. CASE shifted = {}
  BY <1>3, <1>5, BitmapAssumption, HalfIs DEF Bits
<1>6. CASE shifted # {}
  <2>1. shifted \in SUBSET Int /\ \A d \in shifted : d <= WordBits
    BY <1>1, <1>2, <1>4, BitmapAssumption, HalfIs DEF Bits
  <2>2. Max(shifted) \in shifted
    BY <1>6, <2>1, MaxBounded, BitmapAssumption, HalfIs
  <2>3. PICK i \in word : Max(shifted) = i + offset
    BY <1>2, <2>2
  <2>4. QED
    BY <1>1, <1>3, <1>4, <1>6, <2>3, BitmapAssumption, HalfIs DEF Bits
<1>7. QED
  BY <1>5, <1>6

LEMMA Monotone ==
    ASSUME NEW x \in Int, NEW y \in Int, NEW s \in Nat \ {0}, x <= y
    PROVE  x * s \in Int /\ y * s \in Int /\ x * s <= y * s
<1>1. CASE x = y
  BY <1>1
<1>2. CASE x < y
  <2>1. x * s + s <= y * s
    BY <1>2, Apart
  <2>2. QED
    BY <2>1
<1>3. QED
  BY <1>1, <1>2

\* The ticks of a pool that a word can hold are below 2^23: the word that holds
\* c lies below WordBits, or its size is at most the bound c is below.
LEMMA WordFitsAbove ==
    ASSUME query \in Queries, NEW c \in Int, c * spacing <= MaxTick + spacing,
           NEW b \in Bits, NEW e, e = WordPos(c) * WordBits + b
    PROVE  e \in Int /\ e * spacing \in Int /\ e * spacing < I24Half
<1> DEFINE w == WordPos(c)
           s == spacing
<1>1. /\ s \in Nat \ {0} /\ WordBits * s \in Int /\ WordBits * s < I24Half
      /\ 2 * MaxTick + s < I24Half
  BY PoolIs, WidthAssumption, HalfIs DEF spacing, I24
<1>2. w \in Int /\ BitPos(c) \in Bits /\ c = w * WordBits + BitPos(c)
  BY Parts
<1>3. e \in Int /\ e <= c + WordBits - 1 /\ e <= w * WordBits + WordBits - 1
  BY <1>2, BitmapAssumption, HalfIs DEF Bits
<1> HIDE DEF w, s
<1>4. CASE w <= 0
  <2>1. w * WordBits <= 0
    <3>1. w * WordBits <= 0 * WordBits
      BY <1>2, <1>4, Monotone, BitmapAssumption, HalfIs
    <3>2. QED
      BY <3>1, BitmapAssumption, HalfIs
  <2>2. e <= WordBits
    BY <1>2, <1>3, <2>1, BitmapAssumption, HalfIs
  <2>3. e * s \in Int /\ e * s <= WordBits * s
    BY <1>1, <1>3, <2>2, Monotone, BitmapAssumption, HalfIs
  <2>4. QED
    BY <1>1, <1>3, <2>3, HalfIs DEF s
<1>5. CASE w >= 1
  <2>1. 1 * WordBits <= w * WordBits
    BY <1>2, <1>5, Monotone, BitmapAssumption, HalfIs
  <2>2. WordBits <= c
    BY <1>2, <2>1, BitmapAssumption, HalfIs DEF Bits
  <2>3. c * s \in Int /\ WordBits * s <= c * s
    BY <1>1, <2>2, Monotone, BitmapAssumption, HalfIs
  <2>4. e * s \in Int /\ e * s <= (c + WordBits - 1) * s
    BY <1>1, <1>3, Monotone, BitmapAssumption, HalfIs
  <2>5. (c + WordBits - 1) * s = c * s + WordBits * s - s
    BY <1>1, BitmapAssumption, HalfIs
  <2>6. c * s <= MaxTick + s
    BY DEF s
  <2>7. e * s < I24Half
    BY <1>1, <2>3, <2>4, <2>5, <2>6, BitmapAssumption, HalfIs
  <2>8. QED
    BY <1>3, <2>4, <2>7 DEF s
<1>6. QED
  BY <1>2, <1>4, <1>5

LEMMA WordFitsBelow ==
    ASSUME query \in Queries, NEW c \in Int, MinTick - spacing <= c * spacing,
           NEW b \in Bits, NEW e, e = WordPos(c) * WordBits + b
    PROVE  e \in Int /\ e * spacing \in Int /\ -I24Half <= e * spacing
<1> DEFINE w == WordPos(c)
           s == spacing
<1>1. /\ s \in Nat \ {0} /\ WordBits * s \in Int /\ WordBits * s < I24Half
      /\ -I24Half <= 2 * MinTick
  BY PoolIs, WidthAssumption, HalfIs DEF spacing, I24
<1>2. w \in Int /\ BitPos(c) \in Bits /\ c = w * WordBits + BitPos(c)
  BY Parts
<1>3. e \in Int /\ c - WordBits + 1 <= e /\ w * WordBits <= e
  BY <1>2, BitmapAssumption, HalfIs DEF Bits
<1> HIDE DEF w, s
<1>4. CASE w >= -1
  <2>1. (-1) * WordBits <= w * WordBits
    BY <1>2, <1>4, Monotone, BitmapAssumption, HalfIs
  <2>2. -WordBits <= e /\ -WordBits \in Int
    BY <1>2, <1>3, <2>1, BitmapAssumption, HalfIs
  <2>3. e * s \in Int /\ (-WordBits) * s <= e * s
    BY <1>1, <1>3, <2>2, Monotone
  <2>4. (-WordBits) * s = -(WordBits * s)
    BY <1>1, BitmapAssumption, HalfIs
  <2>5. QED
    BY <1>1, <1>3, <2>3, <2>4, HalfIs DEF s
<1>5. CASE w <= -2
  <2>1. w * WordBits <= (-2) * WordBits
    BY <1>2, <1>5, Monotone, BitmapAssumption, HalfIs
  <2>2. c <= -WordBits - 1 /\ -WordBits - 1 \in Int
    BY <1>2, <2>1, BitmapAssumption, HalfIs DEF Bits
  <2>3. c * s \in Int /\ c * s <= (-WordBits - 1) * s
    BY <1>1, <2>2, Monotone
  <2>4. (-WordBits - 1) * s = -(WordBits * s) - s
    BY <1>1, BitmapAssumption, HalfIs
  <2>5. c - WordBits + 1 \in Int /\ (c - WordBits + 1) * s = c * s - WordBits * s + s
    BY <1>1, BitmapAssumption, HalfIs
  <2>6. e * s \in Int /\ (c - WordBits + 1) * s <= e * s
    BY <1>1, <1>3, <2>5, Monotone
  <2>7. MinTick - s <= c * s
    BY DEF s
  <2>8. -I24Half <= e * s
    BY <1>1, <2>3, <2>4, <2>5, <2>6, <2>7, BitmapAssumption, HalfIs
  <2>9. QED
    BY <1>3, <2>6, <2>8 DEF s
<1>6. QED
  BY <1>2, <1>4, <1>5

\* The current tick lies on the side of the start that is searched.
Span ==
    /\ query \in Queries /\ tick \in I24
    /\ query.op = "gt" => MinTick <= tick
    /\ query.op \in {"lt", "le"} => tick <= MaxTick
    /\ query.op \in WordOps => tick = query.start
    /\ TypeOK

\* What the assumptions say of one query.
LEMMA SpanIs ==
    ASSUME Span
    PROVE  /\ spacing \in Nat \ {0} /\ initialized \in SUBSET Int /\ tick \in Int
           /\ query.start \in Int /\ MinTick <= query.start /\ query.start <= MaxTick
           /\ \A t \in Int : MinTick <= t /\ t <= MaxTick => t \in I24
           /\ \A t \in Int : MinTick <= t /\ t < I24Half => t \in I24 /\ MaxTick - t \in I24
           /\ \A t \in Int : -I24Half <= t /\ t <= MaxTick => t \in I24 /\ t - MinTick \in I24
<1>1. query.start \in MinTick .. MaxTick /\ tick \in Int
  BY QueriesAssumption, HalfIs DEF Span, I24
<1>2. spacing \in Nat \ {0} /\ initialized \in SUBSET Int
  BY PoolIs DEF Span
<1>3. -I24Half <= 2 * MinTick /\ 2 * MaxTick + spacing < I24Half
  BY WidthAssumption, HalfIs DEF Span, spacing, I24
<1>4. QED
  BY <1>1, <1>2, <1>3, BitmapAssumption, HalfIs DEF I24

\* A step to a tick in the span, or with such a tick for an answer, stays in it.
LEMMA StepFits ==
    ASSUME Span, query' = query, NEW t \in Int, NEW b \in BOOLEAN,
           query.op = "gt" => MinTick <= t /\ t < I24Half,
           query.op \in {"lt", "le"} => -I24Half <= t /\ t <= MaxTick,
           query.op \in WordOps => t \in I24 /\ tick' = tick,
           \/ tick' = tick /\ answer' = <<b, t>>
           \/ tick' = t /\ answer' = answer
    PROVE  Span'
<1>1. query.op \in WalkOps \cup WordOps
  BY QueriesAssumption DEF Span
<1>2. /\ query.op = "gt" => t \in I24 /\ MaxTick - t \in I24
      /\ query.op \in {"lt", "le"} => t \in I24 /\ t - MinTick \in I24
  BY SpanIs
<1>3. t \in I24 /\ DistanceFits(t)
  BY <1>1, <1>2 DEF WalkOps, WordOps, DistanceFits
<1>4. tick \in I24 /\ DistanceFits(tick)
  BY DEF Span, TypeOK
<1>5. tick' \in I24 /\ DistanceFits(tick)' /\ DistanceFits(t)'
  BY <1>3, <1>4 DEF DistanceFits
<1>6. answer' # <<>> => answer' \in BOOLEAN \X I24 /\ DistanceFits(answer[2])'
  <2>1. CASE answer' = <<b, t>>
    <3>1. answer'[2] = t
      BY <2>1
    <3>2. QED
      BY <1>3, <1>5, <2>1, <3>1 DEF DistanceFits
  <2>2. CASE answer' = answer
    BY <2>2 DEF Span, TypeOK, DistanceFits
  <2>3. QED
    BY <2>1, <2>2
<1>7. TypeOK'
  BY <1>5, <1>6 DEF TypeOK
<1>8. query.op \in WordOps => query.op # "gt" /\ query.op \notin {"lt", "le"}
  BY DEF WordOps
<1>9. QED
  BY <1>5, <1>7, <1>8 DEF Span

LEMMA UpFits ==
    ASSUME Span, NextTickGt
    PROVE  Span'
<1>1. query.op = "gt" /\ answer = <<>> /\ query \in Queries /\ query.op \notin WordOps
  BY DEF NextTickGt, Asked, Span, WordOps
<1>2. /\ spacing \in Nat \ {0} /\ initialized \in SUBSET Int /\ tick \in Int
      /\ MinTick <= tick /\ tick < I24Half
  BY <1>1, SpanIs, HalfIs DEF Span, I24
<1>3. CASE AtUpperBound(tick, spacing) /\ Return(FALSE, tick)
  <2>1. query' = query /\ tick' = tick /\ answer' = <<FALSE, tick>>
    BY <1>3 DEF Return
  <2>2. QED
    BY <1>1, <1>2, <2>1, StepFits
<1>4. CASE ~AtUpperBound(tick, spacing) /\ Upwards(CompressTick(tick, spacing) + 1)
  <2> DEFINE c == tick \div spacing + 1
             e == TickAbove(initialized, c)
             found == BitAbove(initialized, c)[1]
  <2>1. /\ c \in Int /\ tick < c * spacing /\ c * spacing <= tick + spacing
        /\ c * spacing \in Int
    <3> DEFINE d == tick \div spacing
    <3>1. d \in Int /\ spacing * d <= tick /\ tick < spacing * d + spacing
      BY <1>2
    <3> HIDE DEF d
    <3>2. (d + 1) * spacing = spacing * d + spacing /\ spacing * d \in Int
      BY <1>2, <3>1
    <3>3. QED
      BY <1>2, <3>1, <3>2 DEF d
  <2>2. Continue(found, e * spacing, MaxTick - e * spacing <= spacing)
    BY <1>2, <1>4, CompressIsFloor DEF Upwards, TickFromWordAndBit, TickAbove, BitAbove
  <2>3. c * spacing <= MaxTick + spacing
    BY <1>2, <1>4, <2>1, BitmapAssumption, HalfIs DEF AtUpperBound
  <2> HIDE DEF c
  <2>4. c <= e /\ found \in BOOLEAN
    BY <1>2, <2>1, FindsAbove
  <2>5. e \in Int /\ e * spacing \in Int /\ e * spacing < I24Half
    BY <1>1, <1>2, <2>1, <2>3, BitAboveInWord, WordFitsAbove DEF TickAbove
  <2> HIDE DEF e, found
  <2>6. c * spacing <= e * spacing
    BY <1>2, <2>1, <2>4, <2>5, Monotone
  <2>7. MinTick <= e * spacing
    BY <1>2, <2>1, <2>5, <2>6, BitmapAssumption, HalfIs
  <2>8. /\ query' = query
        /\ \/ tick' = tick /\ answer' = <<found, e * spacing>>
           \/ tick' = e * spacing /\ answer' = answer
    BY <2>2 DEF Continue, Return
  <2>9. QED
    BY <1>1, <2>4, <2>5, <2>7, <2>8, StepFits
<1>5. QED
  BY <1>3, <1>4 DEF NextTickGt

LEMMA DownFits ==
    ASSUME Span, NextTickLt \/ NextTickLe
    PROVE  Span'
<1>1. /\ query.op \in {"lt", "le"} /\ answer = <<>> /\ query \in Queries
      /\ query.op \notin WordOps
  BY DEF NextTickLt, NextTickLe, Asked, Span, WordOps
<1>2. /\ spacing \in Nat \ {0} /\ initialized \in SUBSET Int /\ tick \in Int
      /\ tick <= MaxTick /\ -I24Half <= tick
  BY <1>1, SpanIs, HalfIs DEF Span, I24
<1>3. CASE Return(FALSE, tick)
  <2>1. query' = query /\ tick' = tick /\ answer' = <<FALSE, tick>>
    BY <1>3 DEF Return
  <2>2. QED
    BY <1>1, <1>2, <2>1, StepFits
<1>4. ASSUME NEW c \in Int, c = tick \div spacing \/ c = tick \div spacing - 1,
             ~AtLowerBound(tick, spacing), Downwards(c)
      PROVE  Span'
  <2> DEFINE e == TickBelow(initialized, c)
             found == BitBelow(initialized, c)[1]
  <2>1. c * spacing \in Int /\ c * spacing <= tick /\ tick - spacing - spacing < c * spacing
    <3> DEFINE d == tick \div spacing
    <3>1. d \in Int /\ spacing * d <= tick /\ tick < spacing * d + spacing
      BY <1>2
    <3>2. c = d \/ c = d - 1
      BY <1>4
    <3> HIDE DEF d
    <3>3. /\ (d - 1) * spacing = spacing * d - spacing /\ d * spacing = spacing * d
          /\ spacing * d \in Int
      BY <1>2, <3>1
    <3>4. QED
      BY <1>2, <3>1, <3>2, <3>3
  <2>2. Continue(found, e * spacing, e * spacing - MinTick <= spacing)
    BY <1>4 DEF Downwards, TickFromWordAndBit, TickBelow, BitBelow
  <2>3. MinTick - spacing <= c * spacing
    BY <1>2, <1>4, <2>1, BitmapAssumption, HalfIs DEF AtLowerBound
  <2>4. e <= c /\ found \in BOOLEAN
    BY <1>2, <1>4, FindsBelow
  <2>5. e \in Int /\ e * spacing \in Int /\ -I24Half <= e * spacing
    BY <1>1, <1>2, <1>4, <2>3, BitBelowInWord, WordFitsBelow DEF TickBelow
  <2> HIDE DEF e, found
  <2>6. e * spacing <= c * spacing
    BY <1>2, <1>4, <2>4, <2>5, Monotone
  <2>7. e * spacing <= MaxTick
    BY <1>2, <2>1, <2>5, <2>6, BitmapAssumption, HalfIs
  <2>8. /\ query' = query
        /\ \/ tick' = tick /\ answer' = <<found, e * spacing>>
           \/ tick' = e * spacing /\ answer' = answer
    BY <2>2 DEF Continue, Return
  <2>9. QED
    BY <1>1, <2>4, <2>5, <2>7, <2>8, StepFits
<1>5. /\ CompressTick(tick, spacing) = tick \div spacing
      /\ tick \div spacing \in Int /\ tick \div spacing - 1 \in Int
  BY <1>2, CompressIsFloor
<1>6. CASE NextTickLt
  BY <1>3, <1>4, <1>5, <1>6 DEF NextTickLt
<1>7. CASE NextTickLe
  BY <1>3, <1>4, <1>5, <1>7 DEF NextTickLe
<1>8. QED
  BY <1>6, <1>7

\* A search of one word answers with a tick of the word of its start.
LEMMA WordAnswer ==
    ASSUME query \in Queries
    PROVE  /\ \E b \in Bits :
                 NextWithinWordLte(initialized, query.start, spacing)[2] =
                     (WordPos(CompressTick(query.start, spacing)) * WordBits + b) * spacing
           /\ \E b \in Bits :
                 NextWithinWordGt(initialized, query.start, spacing)[2] =
                     (WordPos(CompressTick(query.start, spacing) + 1) * WordBits + b) * spacing
<1>1. /\ spacing \in Nat \ {0} /\ initialized \in SUBSET Int /\ query.start \in Int
      /\ CompressTick(query.start, spacing) \in Int
  BY PoolIs, CompressIsFloor
<1>2. \E b \in Bits : NextWithinWordLte(initialized, query.start, spacing)[2] =
          (WordPos(CompressTick(query.start, spacing)) * WordBits + b) * spacing
  <2> DEFINE c == CompressTick(query.start, spacing)
             masked == {b \in WordOf(initialized, WordPos(c)) : b <= BitPos(c)}
             bit == IF masked # {} THEN Max(masked) ELSE 0
  <2>1. /\ c \in Int /\ WordPos(c) \in Int /\ BitPos(c) \in Bits
        /\ c = WordPos(c) * WordBits + BitPos(c)
    BY <1>1, Parts
  <2>2. masked \subseteq Bits
    BY <1>1, <2>1, WordIs
  <2>3. NextWithinWordLte(initialized, query.start, spacing)[2] = (c - (BitPos(c) - bit)) * spacing
    BY DEF NextWithinWordLte
  <2> HIDE DEF c, masked
  <2>4. bit \in Bits
    <3>1. CASE masked = {}
      BY <3>1, BitmapAssumption, HalfIs DEF Bits
    <3>2. CASE masked # {}
      <4>1. masked \in SUBSET Int /\ \A i \in masked : i <= WordBits
        BY <2>2, BitmapAssumption DEF Bits
      <4>2. Max(masked) \in masked
        BY <3>2, <4>1, MaxBounded, BitmapAssumption
      <4>3. QED
        BY <2>2, <3>2, <4>2
    <3>3. QED
      BY <3>1, <3>2
  <2> HIDE DEF bit
  <2>5. c - (BitPos(c) - bit) = WordPos(c) * WordBits + bit
    BY <2>1, <2>4, BitmapAssumption, HalfIs DEF Bits
  <2>6. QED
    BY <2>3, <2>4, <2>5 DEF c
<1>3. \E b \in Bits : NextWithinWordGt(initialized, query.start, spacing)[2] =
          (WordPos(CompressTick(query.start, spacing) + 1) * WordBits + b) * spacing
  <2> DEFINE c == CompressTick(query.start, spacing) + 1
             masked == {b \in WordOf(initialized, WordPos(c)) : b >= BitPos(c)}
             bit == IF masked # {} THEN Min(masked) ELSE WordBits - 1
  <2>1. /\ c \in Int /\ WordPos(c) \in Int /\ BitPos(c) \in Bits
        /\ c = WordPos(c) * WordBits + BitPos(c)
    BY <1>1, Parts
  <2>2. masked \subseteq Bits
    BY <1>1, <2>1, WordIs
  <2>3. NextWithinWordGt(initialized, query.start, spacing)[2] = (c + (bit - BitPos(c))) * spacing
    BY DEF NextWithinWordGt
  <2> HIDE DEF c, masked
  <2>4. bit \in Bits
    <3>1. CASE masked = {}
      BY <3>1, BitmapAssumption, HalfIs DEF Bits
    <3>2. CASE masked # {}
      <4>1. masked \in SUBSET Int /\ \A i \in masked : 0 <= i
        BY <2>2, BitmapAssumption DEF Bits
      <4>2. Min(masked) \in masked
        BY <3>2, <4>1, MinBounded
      <4>3. QED
        BY <2>2, <3>2, <4>2
    <3>3. QED
      BY <3>1, <3>2
  <2> HIDE DEF bit
  <2>5. c + (bit - BitPos(c)) = WordPos(c) * WordBits + bit
    BY <2>1, <2>4, BitmapAssumption, HalfIs DEF Bits
  <2>6. QED
    BY <2>3, <2>4, <2>5 DEF c
<1>4. QED
  BY <1>2, <1>3

\* That tick fits an I24 on both sides.
LEMMA WordAnswerFits ==
    ASSUME Span
    PROVE  /\ NextWithinWordLte(initialized, query.start, spacing)[2] \in I24
           /\ NextWithinWordGt(initialized, query.start, spacing)[2] \in I24
<1> DEFINE s == spacing
           d == query.start \div s
<1>1. /\ query \in Queries /\ s \in Nat \ {0} /\ query.start \in Int
      /\ MinTick <= query.start /\ query.start <= MaxTick
      /\ CompressTick(query.start, s) = d
  BY SpanIs, CompressIsFloor DEF Span
<1>2. d \in Int /\ s * d <= query.start /\ query.start < s * d + s
  BY <1>1
<1> HIDE DEF d
<1>3. /\ d * s = s * d /\ (d + 1) * s = s * d + s /\ s * d \in Int /\ d + 1 \in Int
  BY <1>1, <1>2
<1>4. /\ d * s <= MaxTick + s /\ MinTick - s <= d * s
      /\ (d + 1) * s <= MaxTick + s /\ MinTick - s <= (d + 1) * s
  BY <1>1, <1>2, <1>3, BitmapAssumption, HalfIs
<1>5. \A c \in {d, d + 1} : \A b \in Bits : (WordPos(c) * WordBits + b) * s \in I24
  <2> SUFFICES ASSUME NEW c \in {d, d + 1}, NEW b \in Bits
               PROVE  (WordPos(c) * WordBits + b) * s \in I24
    OBVIOUS
  <2>1. c \in Int /\ c * s <= MaxTick + s /\ MinTick - s <= c * s
    BY <1>2, <1>3, <1>4
  <2>2. /\ (WordPos(c) * WordBits + b) * s \in Int
        /\ (WordPos(c) * WordBits + b) * s < I24Half
    BY <1>1, <2>1, WordFitsAbove
  <2>3. -I24Half <= (WordPos(c) * WordBits + b) * s
    BY <1>1, <2>1, WordFitsBelow
  <2>4. QED
    BY <2>2, <2>3, HalfIs DEF I24
<1>6. QED
  BY <1>1, <1>5, WordAnswer

LEMMA WordFits ==
    ASSUME Span, WithinWord \/ V3WithinWord
    PROVE  Span'
<1>1. /\ query \in Queries /\ query.op \in WordOps /\ tick = query.start
      /\ UNCHANGED <<query, tick>>
  BY DEF WithinWord, V3WithinWord, Asked, WordOps, Return, Span
<1>2. initialized \in SUBSET Int /\ spacing \in Nat \ {0} /\ tick \in Int
  BY SpanIs
<1>3. \/ answer' = <<NextWithinWordLte(initialized, tick, spacing)[1],
                     NextWithinWordLte(initialized, tick, spacing)[2]>>
      \/ answer' = <<NextWithinWordGt(initialized, tick, spacing)[1],
                     NextWithinWordGt(initialized, tick, spacing)[2]>>
  <2>1. CASE WithinWord
    BY <2>1 DEF WithinWord, Return
  <2>2. CASE V3WithinWord
    <3>1. PICK lte \in BOOLEAN :
              answer' = <<V3NextWithinWord(initialized, tick, spacing, lte)[1],
                          V3NextWithinWord(initialized, tick, spacing, lte)[2]>>
      BY <2>2 DEF V3WithinWord, Return
    <3>2. lte = TRUE \/ lte = FALSE
      OBVIOUS
    <3>3. QED
      BY <1>2, <3>1, <3>2, WordSearchesAlike
  <2>3. QED
    BY <2>1, <2>2
<1>4. /\ NextWithinWordLte(initialized, tick, spacing)[1] \in BOOLEAN
      /\ NextWithinWordGt(initialized, tick, spacing)[1] \in BOOLEAN
  BY DEF NextWithinWordLte, NextWithinWordGt
<1>5. PICK b \in BOOLEAN, t \in I24 : answer' = <<b, t>>
  BY <1>1, <1>3, <1>4, WordAnswerFits
<1>6. t \in Int /\ query.op # "gt" /\ query.op \notin {"lt", "le"}
  BY <1>1, HalfIs DEF I24, WordOps
<1>7. QED
  BY <1>1, <1>5, <1>6, StepFits

LEMMA InitSpan == Init => Span
<1> SUFFICES ASSUME Init PROVE Span
  OBVIOUS
<1>1. /\ query \in Queries /\ tick = query.start /\ answer = <<>>
      /\ tick \in MinTick .. MaxTick
  BY QueriesAssumption DEF Init
<1>2. -I24Half <= 2 * MinTick /\ 2 * MaxTick + spacing < I24Half /\ spacing \in Nat
  BY <1>1, WidthAssumption, HalfIs, PoolIs DEF spacing, I24
<1>3. tick \in I24 /\ MaxTick - tick \in I24 /\ tick - MinTick \in I24
  BY <1>1, <1>2, BitmapAssumption, HalfIs DEF I24
<1>4. MinTick <= tick /\ tick <= MaxTick
  BY <1>1, BitmapAssumption, HalfIs
<1>5. QED
  BY <1>1, <1>3, <1>4 DEF Span, TypeOK, DistanceFits

LEMMA NextSpan == Span /\ [Next]_vars => Span'
<1> SUFFICES ASSUME Span, [Next]_vars PROVE Span'
  OBVIOUS
<1>1. CASE NextTickGt
  BY <1>1, UpFits
<1>2. CASE NextTickLt \/ NextTickLe
  BY <1>2, DownFits
<1>3. CASE WithinWord \/ V3WithinWord
  BY <1>3, WordFits
<1>4. CASE UNCHANGED vars
  BY <1>4 DEF vars, Span, TypeOK, DistanceFits
<1>5. QED
  BY <1>1, <1>2, <1>3, <1>4 DEF Next

\* No search computes a tick, or takes a difference with the bound it walks
\* towards, that an I24 cannot hold: for every pool, start and spacing for which
\* a word of ticks fits one.
THEOREM WidthCorrect == Spec => []TypeOK
<1>1. Span => TypeOK
  BY DEF Span
<1>2. QED
  BY <1>1, InitSpan, NextSpan, PTL DEF Spec

-------------------------------------------------------------------------------
(* Where a search upwards arrives, for the loops that go on from there.    *)

\* Above its start, at a multiple of the spacing, which is within a spacing of
\* the bound if no initialized tick was found; at its start if that is.
Arrives ==
    query.op = "gt" =>
        /\ query.start <= tick
        /\ StartsAtBound =>
               tick = query.start /\ (answer # <<>> => answer = <<FALSE, query.start>>)
        /\ ~StartsAtBound /\ answer # <<>> =>
               /\ query.start < answer[2]
               /\ \E e \in Int : answer[2] = e * spacing
               /\ query.initializedOnly /\ ~answer[1] => AtUpperBound(answer[2], spacing)

LEMMA UpArrives ==
    ASSUME WalkInv, Arrives, NextTickGt
    PROVE  Arrives'
<1>1. query.op = "gt" /\ answer = <<>> /\ query \in Queries /\ query.start <= tick
  BY DEF NextTickGt, Asked, WalkInv, Arrives
<1>2. /\ spacing \in Nat \ {0} /\ initialized \in SUBSET Int /\ tick \in Int
      /\ query.start \in Int
  BY <1>1, PoolIs DEF WalkInv
<1>3. CASE StartsAtBound
  <2>1. AtUpperBound(tick, spacing) /\ tick = query.start
    BY <1>1, <1>3 DEF Arrives, StartsAtBound
  <2>2. query' = query /\ tick' = tick /\ answer' = <<FALSE, tick>>
    BY <2>1 DEF NextTickGt, Return
  <2>3. StartsAtBound'
    BY <1>3, <2>2 DEF StartsAtBound, spacing
  <2>4. QED
    BY <1>1, <2>1, <2>2, <2>3 DEF Arrives
<1>4. CASE ~StartsAtBound
  <2> DEFINE c == tick \div spacing + 1
             e == TickAbove(initialized, c)
             found == BitAbove(initialized, c)[1]
  <2>1. ~AtUpperBound(tick, spacing)
    BY <1>1, <1>4 DEF WalkInv, WalkOps
  <2>2. c \in Int /\ tick < c * spacing /\ c * spacing \in Int
    <3> DEFINE d == tick \div spacing
    <3>1. d \in Int /\ tick < spacing * d + spacing
      BY <1>2
    <3> HIDE DEF d
    <3>2. (d + 1) * spacing = spacing * d + spacing /\ spacing * d \in Int
      BY <1>2, <3>1
    <3>3. QED
      BY <1>2, <3>1, <3>2 DEF d
  <2>3. Continue(found, e * spacing, MaxTick - e * spacing <= spacing)
    BY <1>2, <2>1, CompressIsFloor DEF NextTickGt, Upwards, TickFromWordAndBit,
       TickAbove, BitAbove
  <2> HIDE DEF c
  <2>4. c <= e /\ e \in Int
    BY <1>2, <2>2, FindsAbove
  <2> HIDE DEF e, found
  <2>5. e * spacing \in Int /\ tick < e * spacing
    <3>1. c * spacing <= e * spacing /\ e * spacing \in Int
      BY <1>2, <2>2, <2>4, Monotone
    <3>2. QED
      BY <1>2, <2>2, <3>1
  <2>6. query' = query /\ spacing' = spacing /\ ~StartsAtBound'
    BY <1>4, <2>3 DEF Continue, Return, StartsAtBound, spacing
  <2>7. CASE tick' = e * spacing /\ answer' = answer
    BY <1>1, <1>2, <2>5, <2>6, <2>7 DEF Arrives
  <2>8. CASE /\ tick' = tick /\ answer' = <<found, e * spacing>>
             /\ query.initializedOnly => found \/ MaxTick - e * spacing <= spacing
    <3>1. ~found /\ query.initializedOnly => AtUpperBound(e * spacing, spacing)
      BY <1>2, <2>5, <2>8, BitmapAssumption DEF AtUpperBound
    <3>2. answer'[1] = found /\ answer'[2] = e * spacing
      BY <2>8
    <3>3. query.start < e * spacing
      BY <1>1, <1>2, <2>5
    <3>4. QED
      BY <1>1, <2>4, <2>6, <2>8, <3>1, <3>2, <3>3 DEF Arrives
  <2>9. QED
    BY <1>2, <2>3, <2>7, <2>8, PoolIs DEF Continue, Return
<1>5. QED
  BY <1>3, <1>4
===============================================================================
