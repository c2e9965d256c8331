------------------------------ MODULE TickBitmap ------------------------------
(***************************************************************************)
(* The arithmetic of ticks in uniswap-storage: v4/pool_manager/            *)
(* tick_bitmap.rs, v4/utils.rs and the one-word search of v3.  A word of   *)
(* the bitmap (a U256) is the set of the positions of its bits; a pool's   *)
(* bitmap is the set of its initialized ticks divided by the spacing.      *)
(***************************************************************************)
EXTENDS Integers, FiniteSetsExt

CONSTANTS WordBits,           \* 256
          MinTick, MaxTick    \* MIN_TICK, MAX_TICK

ASSUME BitmapAssumption ==
    /\ WordBits \in Nat \ {0}
    /\ MinTick \in Int /\ MaxTick \in Int
    /\ MinTick < 0 /\ 0 < MaxTick

Bits == 0 .. WordBits - 1

I24Half == 8388608
I24     == -I24Half .. I24Half - 1

\* Integer division of Rust: towards zero, the remainder has the dividend's sign.
Quot(a, b) == IF a >= 0 THEN a \div b ELSE -((-a) \div b)
Rem(a, b)  == a - b * Quot(a, b)

\* Mutant: division without the correction for negative ticks.
CompressTowardsZero(tick, spacing) == Quot(tick, spacing)

CompressTick(tick, spacing) ==
    Quot(tick, spacing) - (IF Rem(tick, spacing) < 0 THEN 1 ELSE 0)

WordPos(c) == c \div WordBits      \* c >> 8
BitPos(c)  == c % WordBits         \* c & 0xff

\* Mutant: word and bit swapped.
TickFromBitAndWord(w, b, spacing) == (b * WordBits + w) * spacing

TickFromWordAndBit(w, b, spacing) == (w * WordBits + b) * spacing

\* The recursion of normalize_tick steps towards 0 by one spacing.
NormalizeTick(t, spacing) ==
    LET Norm(u) == CompressTick(u, spacing) * spacing
        Off(u)  == \/ u > Norm(u) + spacing \/ u < Norm(u) - spacing
                   \/ Norm(u) < MinTick \/ Norm(u) > MaxTick
        norm[u \in Int] == IF ~Off(u) THEN Norm(u)
                           ELSE norm[IF u < 0 THEN u + spacing ELSE u - spacing]
    IN  norm[t]

MaxValidTick(spacing) == Quot(MaxTick, spacing) * spacing
MinValidTick(spacing) == Quot(MinTick, spacing) * spacing

AtUpperBound(tick, spacing) == tick + spacing >= MaxTick
AtLowerBound(tick, spacing) == tick - spacing <= MinTick

-------------------------------------------------------------------------------
(* Words.                                                                  *)

WordOf(initialized, w) == {BitPos(c) : c \in {x \in initialized : WordPos(x) = w}}

ShiftRight(word, n) == {b - n : b \in {x \in word : x >= n}}
ShiftLeft(word, n)  == {b + n : b \in {x \in word : x + n < WordBits}}

\* The nearest bit at or above, at or below: whether there is one, and where.
NextBitGte(word, b) ==
    LET shifted == ShiftRight(word, b) IN
    IF shifted = {} THEN <<FALSE, WordBits - 1>> ELSE <<TRUE, Min(shifted) + b>>

NextBitLte(word, b) ==
    LET offset  == WordBits - 1 - b
        shifted == ShiftLeft(word, offset)
    IN  IF shifted = {} THEN <<FALSE, 0>> ELSE <<TRUE, Max(shifted) - offset>>

\* next_initialized_tick_within_one_word
NextWithinWordLte(initialized, tick, spacing) ==
    LET c      == CompressTick(tick, spacing)
        masked == {b \in WordOf(initialized, WordPos(c)) : b <= BitPos(c)}
    IN  <<masked # {},
          (c - (BitPos(c) - (IF masked # {} THEN Max(masked) ELSE 0))) * spacing>>

NextWithinWordGt(initialized, tick, spacing) ==
    LET c      == CompressTick(tick, spacing) + 1
        masked == {b \in WordOf(initialized, WordPos(c)) : b >= BitPos(c)}
    IN  <<masked # {},
          (c + ((IF masked # {} THEN Min(masked) ELSE WordBits - 1) - BitPos(c))) * spacing>>

-------------------------------------------------------------------------------
(* v3: position_compressed_tick and v3_next_initialized_tick_within_one_word *)

V3CompressTick(tick, spacing) ==
    Quot(tick, spacing) - (IF tick < 0 /\ Rem(tick, spacing) # 0 THEN 1 ELSE 0)

\* Mutant: the position of a negative tick counted from the other end.
V3BitPosAbs(c) == LET r == Rem(c, WordBits) IN IF r < 0 THEN -r ELSE r

\* (c % 256) as u8: a negative remainder wraps.
V3BitPos(c) == Rem(c, WordBits) % WordBits

V3NextWithinWord(initialized, tick, spacing, lte) ==
    LET c    == V3CompressTick(tick, spacing) + (IF lte THEN 0 ELSE 1)
        bit  == V3BitPos(c)
        word == WordOf(initialized, WordPos(c))
        masked == {b \in word : IF lte THEN b <= bit ELSE b >= bit}
    IN  IF lte
        THEN <<masked # {}, (c - (bit - (IF masked # {} THEN Max(masked) ELSE 0))) * spacing>>
        ELSE <<masked # {},
               (c + ((IF masked # {} THEN Min(masked) ELSE WordBits - 1) - bit)) * spacing>>
===============================================================================
