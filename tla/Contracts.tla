------------------------------- MODULE Contracts -------------------------------
(***************************************************************************)
(* The contracts whose storage uniswap-storage reads: Uniswap v3 and v4,   *)
(* Angstrom on L1 and L2.  They are not part of the repository: where each *)
(* variable is stored and how growth accrues is what the readers rely on.  *)
(* A slot is a term: keccak256 has no collisions.  A word is the number it *)
(* holds, or its 32 bytes, the lowest first, when variables are packed.    *)
(***************************************************************************)
EXTENDS Integers, Sequences, FiniteSets, SequencesExt

CONSTANTS Modulus,          \* 2^256: growth wraps around
          Pool, Token, Manager, Hook,    \* a pool id, a token id, two addresses
          Initialized,      \* initialized ticks of the pool
          PoolTicks,        \* the ticks its price visits
          Genesis,          \* what a chain starts from, see NewWorld
          MaxBlocks,        \* bound on the length of a chain
          Field,            \* name |-> the values of a variable, block by block
          PoolKeys,         \* what is pushed to poolKeys, and to allHooks
          Hooks

\* A payment must not wrap by itself.
ASSUME ContractsAssumption ==
    /\ Modulus \in Nat /\ Modulus > 3 /\ MaxBlocks \in Nat \ {0}
    /\ Initialized \subseteq Int /\ PoolTicks \subseteq Int
    /\ \A g \in Genesis : /\ g.tick \in PoolTicks /\ g.global \in 0 .. Modulus - 1
                          /\ g.keysSlot \in {5, 6, 7}
                          /\ g.keys \in 0 .. Len(PoolKeys) /\ g.hooks \in 0 .. Len(Hooks)

Span24 == 16777216
UInt24 == {n \in Nat : n < Span24}
Int24  == {n \in Int : -8388608 <= n /\ n <= 8388607}
ASSUME TicksAssumption == Initialized \cup PoolTicks \subseteq Int24

Root(n)          == [base |-> <<>>, off |-> n]
MapSlot(key, s)  == [base |-> <<s, key>>, off |-> 0]     \* keccak256((key, s))
ArraySlot(s)     == [base |-> <<s>>, off |-> 0]          \* keccak256(s)
Plus(s, n)       == [s EXCEPT !.off = @ + n]

\* Wrapping arithmetic of growth.
Sub(a, b) == IF a >= b THEN a - b ELSE a - b + Modulus
Add(a, b) == IF a + b < Modulus THEN a + b ELSE a + b - Modulus

-------------------------------------------------------------------------------
(* Encoding.                                                               *)

ZeroWord == [i \in 0 .. 31 |-> 0]

Width == [u24 |-> 3, i24 |-> 3, bool |-> 1, u128 |-> 16, u160 |-> 20, b25 |-> 25, b31 |-> 31]

\* An opaque value is one number: 0, or the first of its bytes.
Fill(v, n) == [i \in 0 .. n - 1 |-> IF v = 0 THEN 0 ELSE (v + i) % 256]

Power == <<1, 256, 65536>>

Encode(type, v) ==
    CASE type \in {"u24", "i24"} -> [i \in 0 .. 2 |-> (v \div Power[i + 1]) % 256]
      [] type = "bool"           -> [i \in 0 .. 0 |-> IF v THEN 1 ELSE 0]
      [] OTHER                   -> Fill(v, Width[type])

\* What a reader returns for a variable of the type; one that returns a word
\* as it is returns the zeros after the variable too.
Shown(type, v) ==
    CASE type \in {"u24", "i24", "bool", "whole"} -> v
      [] type = "word128" -> [i \in 0 .. 31 |-> IF i < 16 THEN Fill(v, 16)[i] ELSE 0]
      [] type = "option" -> IF v = 0 THEN <<>> ELSE <<Fill(v, 20)>>
      [] OTHER -> Fill(v, Width[type])

-------------------------------------------------------------------------------
(* A world: the state of the contracts at a block.                         *)

Accumulators == {"fee0", "fee1", "reward"}
Payment == [fee0 |-> 1, fee1 |-> 2, reward |-> 3]

\* The rule by which a swap pays fees at its tick and then moves the price:
\* growth outside flips when a tick is crossed.  below is history: what was
\* paid since the genesis while the price was below a tick.
Crossed(t, from, to) == \/ from < t /\ t <= to
                        \/ to < t /\ t <= from

Swap(w, to) ==
    LET global == [a \in Accumulators |-> Add(w.global[a], Payment[a])] IN
    [n |-> w.n + 1, tick |-> to, keysSlot |-> w.keysSlot, global |-> global,
     outside |-> [a \in Accumulators |-> [t \in Initialized |->
         IF Crossed(t, w.tick, to) THEN Sub(global[a], w.outside[a][t])
         ELSE w.outside[a][t]]],
     below |-> [a \in Accumulators |-> [t \in Initialized |->
         IF w.tick < t THEN Add(w.below[a][t], Payment[a]) ELSE w.below[a][t]]],
     keys |-> IF w.keys < Len(PoolKeys) THEN w.keys + 1 ELSE w.keys,
     hooks |-> IF w.hooks < Len(Hooks) THEN w.hooks + 1 ELSE w.hooks]

\* Ticks start with everything paid so far outside if the price is above.
NewWorld(g) ==
    [n |-> 1, tick |-> g.tick, keysSlot |-> g.keysSlot, keys |-> g.keys, hooks |-> g.hooks,
     global  |-> [a \in Accumulators |-> g.global],
     outside |-> [a \in Accumulators |-> [t \in Initialized |->
                     IF t <= g.tick THEN g.global ELSE 0]],
     below   |-> [a \in Accumulators |-> [t \in Initialized |-> 0]]]

KeyFields == <<"currency0", "currency1", "fee", "tickSpacing", "hooks">>
KeyTypes  == [currency0 |-> "u160", currency1 |-> "u160", fee |-> "u24",
              tickSpacing |-> "i24", hooks |-> "u160"]

\* What a reader returns for a key.
KeyTuple(key) == [i \in 1 .. 5 |-> Shown(KeyTypes[KeyFields[i]], key[KeyFields[i]])]

\* A variable is <<type, name>> or <<type, name, index...>>.
Value(w, var) == Shown(var[1],
    CASE var[2] = "tick"    -> w.tick
      [] var[2] = "global"  -> w.global[var[3]]
      [] var[2] = "outside" -> w.outside[var[3]][var[4]]
      [] var[2] = "keys"    -> IF var[3] = w.keysSlot THEN w.keys ELSE 0
      [] var[2] = "hooks"   -> w.hooks
      [] var[2] = "hook"    -> IF var[3] <= w.hooks THEN Hooks[var[3]] ELSE 0
      [] var[2] = "key"     -> PoolKeys[var[3]][var[4]]
      [] var[2] = "pushed"  -> IF var[5] = w.keysSlot /\ var[3] <= w.keys
                               THEN PoolKeys[var[3]][var[4]] ELSE 0
      [] var[2] = "totalSwap" -> Field.creatorSwap[w.n] + Field.protocolSwap[w.n]
      [] var[2] = "totalTax"  -> Field.creatorTax[w.n] + Field.protocolTax[w.n]
      [] OTHER              -> Field[var[2]][w.n])

\* Values fit their types; no key and no hook is pushed twice; a position
\* stays in its pool.
ASSUME FieldsAssumption ==
    /\ \A n \in 1 .. MaxBlocks :
         /\ \A f \in {"protocolFee", "lpFee", "creatorTax", "protocolTax", "creatorSwap",
                     "protocolSwap", "swapMultiple"} : Field[f][n] \in UInt24
         /\ Field.lower[n] \in Int24 /\ Field.upper[n] \in Int24
         /\ \A f \in {"initialized", "isInitialized", "jitEnabled", "jitDefault",
                     "withdrawOnly", "verified"} : Field[f][n] \in BOOLEAN
         /\ Field.hookOfPool[n] \in Nat /\ Field.poolId[n] = Field.poolId[1]
    /\ PoolKeys # <<>>
    /\ PoolKeys \in Seq([currency0 : Nat, currency1 : Nat, fee : UInt24, tickSpacing : Int24,
                         hooks : Nat])
    /\ \A i, j \in DOMAIN PoolKeys :
         KeyTuple(PoolKeys[i]) = KeyTuple(PoolKeys[j]) => i = j
    /\ Hooks \in Seq(Nat)
    /\ \A i, j \in DOMAIN Hooks : Fill(Hooks[i], 20) = Fill(Hooks[j], 20) => i = j

-------------------------------------------------------------------------------
(* Layouts: where a variable is, from which byte.                          *)

Cell(slot, at, var) == [slot |-> slot, at |-> at, var |-> var]
Whole(slot, var)    == Cell(slot, 0, <<"whole">> \o var)

PositionKey(lower, upper) == <<Manager, lower, upper, Token>>
Ranges == {r \in Initialized \X Initialized : r[1] < r[2]}

\* A PoolKey takes three slots.
KeyCells(slot, which) ==
    LET var(f) == <<KeyTypes[f], which[1], which[2], f>> \o Tail(Tail(which)) IN
    {Cell(slot, 0, var("currency0")), Cell(Plus(slot, 1), 0, var("currency1")),
     Cell(Plus(slot, 1), 20, var("fee")), Cell(Plus(slot, 1), 23, var("tickSpacing")),
     Cell(Plus(slot, 2), 0, var("hooks"))}

\* Tick.Info: the first three slots are the same in v3 and v4.
TickCells(slot, t) ==
    {Cell(slot, 0, <<"u128", "gross">>), Cell(slot, 16, <<"u128", "net">>),
     Whole(Plus(slot, 1), <<"outside", "fee0", t>>),
     Whole(Plus(slot, 2), <<"outside", "fee1", t>>)}

PositionCells(slot) ==
    {Cell(slot, 0, <<"u128", "posLiquidity">>),
     Whole(Plus(slot, 1), <<"last0">>), Whole(Plus(slot, 2), <<"last1">>)}

PoolCells(pool) ==
    {Cell(pool, 0, <<"u160", "sqrtPrice">>), Cell(pool, 20, <<"i24", "tick">>),
     Cell(pool, 23, <<"u24", "protocolFee">>), Cell(pool, 26, <<"u24", "lpFee">>),
     Whole(Plus(pool, 1), <<"global", "fee0">>), Whole(Plus(pool, 2), <<"global", "fee1">>),
     Cell(Plus(pool, 3), 0, <<"u128", "liquidity">>)}

PoolManagerCells ==
    LET pool == MapSlot(Pool, Root(6)) IN
    UNION ({PoolCells(pool)}
           \cup {TickCells(MapSlot(<<t>>, Plus(pool, 4)), t) : t \in Initialized}
           \cup {PositionCells(MapSlot(PositionKey(r[1], r[2]), Plus(pool, 6))) : r \in Ranges})

PositionManagerCells ==
    LET info == MapSlot(Token, Root(9)) IN
    {Cell(MapSlot(Token, Root(2)), 0, <<"u160", "owner">>),
     Whole(Root(8), <<"nextTokenId">>),
     Cell(info, 0, <<"bool", "subscribed">>), Cell(info, 1, <<"i24", "lower">>),
     Cell(info, 4, <<"i24", "upper">>), Cell(info, 7, <<"b25", "poolId">>)}
    \cup KeyCells(MapSlot(Fill(Field.poolId[1], 25), Root(10)), <<"key", 1>>)

V3PoolCells ==
    {Cell(Root(0), 0, <<"u160", "sqrtPrice">>), Cell(Root(0), 20, <<"i24", "tick">>),
     Cell(Root(0), 23, <<"u24", "protocolFee">>),
     Whole(Root(1), <<"global", "fee0">>), Whole(Root(2), <<"global", "fee1">>),
     Cell(Root(4), 0, <<"u128", "liquidity">>)}
    \cup (UNION {LET s == MapSlot(<<t>>, Root(5)) IN
                 TickCells(s, t) \cup {Cell(Plus(s, 3), 0, <<"b31", "seconds">>),
                                       Cell(Plus(s, 3), 31, <<"bool", "initialized">>)} :
                 t \in Initialized})

AngstromCells ==
    LET rewards == MapSlot(Pool, Root(7)) IN
    {Whole(Plus(rewards, Span24), <<"global", "reward">>)}
    \cup {Whole(Plus(rewards, t % Span24), <<"outside", "reward", t>>) : t \in Initialized}
    \cup {Whole(MapSlot(PositionKey(r[1], r[2]), MapSlot(Pool, Root(6))), <<"last0">>) :
          r \in Ranges}

\* Older deployments keep poolKeys in slot 6 or 5, and nothing in those after it.
AngstromL2Cells ==
    LET rewards == MapSlot(Pool, Root(1))
        config  == MapSlot(Pool, Root(3))
    IN  {Cell(config, 0, <<"bool", "isInitialized">>), Cell(config, 1, <<"u24", "creatorTax">>),
         Cell(config, 4, <<"u24", "protocolTax">>), Cell(config, 7, <<"u24", "creatorSwap">>),
         Cell(config, 10, <<"u24", "protocolSwap">>),
         Whole(Root(8), <<"mevFactor">>), Whole(Root(9), <<"taxFloor">>),
         Cell(Root(10), 0, <<"bool", "jitEnabled">>),
         Whole(Plus(rewards, 2), <<"global", "reward">>)}
        \cup {Whole(MapSlot(<<t>>, Plus(rewards, 1)), <<"outside", "reward", t>>) :
              t \in Initialized}
        \cup {Whole(MapSlot(PositionKey(r[1], r[2]), rewards), <<"last0">>) : r \in Ranges}
        \cup {Whole(Root(n), <<"keys", n>>) : n \in {5, 6, 7}}
        \cup (UNION {KeyCells(Plus(ArraySlot(Root(n)), 3 * (i - 1)), <<"pushed", i, n>>) :
                     n \in {5, 6, 7}, i \in DOMAIN PoolKeys})

FactoryCells ==
    {Cell(Root(0), 0, <<"bool", "withdrawOnly">>), Cell(Root(0), 1, <<"u24", "swapMultiple">>),
     Cell(Root(0), 4, <<"u24", "protocolTax">>), Cell(Root(0), 7, <<"bool", "jitDefault">>),
     Whole(Root(1), <<"mevFactor">>), Whole(Root(2), <<"taxFloor">>),
     Cell(MapSlot(Hook, Root(3)), 0, <<"bool", "verified">>), Whole(Root(4), <<"hooks">>),
     Cell(MapSlot(Pool, Root(5)), 0, <<"u160", "hookOfPool">>)}
    \cup {Cell(Plus(ArraySlot(Root(4)), i - 1), 0, <<"u160", "hook", i>>) : i \in DOMAIN Hooks}

Layout == [PoolManager |-> PoolManagerCells, PositionManager |-> PositionManagerCells,
           V3Pool |-> V3PoolCells, Angstrom |-> AngstromCells,
           AngstromL2 |-> AngstromL2Cells, Factory |-> FactoryCells]

\* The word of a slot; one never written is 0.
Word(w, contract, slot) ==
    LET cells == {c \in Layout[contract] : c.slot = slot}
        raw(c) == IF c.var[1] = "whole" THEN Value(w, c.var)
                  ELSE IF c.var[1] \in {"u24", "i24", "bool"}
                       THEN Encode(c.var[1], Value(w, c.var)) ELSE Value(w, c.var)
        here(c, i) == c.at <= i /\ i < c.at + Width[c.var[1]]
    IN  IF \E c \in cells : c.var[1] = "whole"
        THEN raw(CHOOSE c \in cells : TRUE)
        ELSE [i \in 0 .. 31 |->
                IF \E c \in cells : here(c, i)
                THEN LET c == CHOOSE c \in cells : here(c, i) IN raw(c)[i - c.at]
                ELSE 0]
===============================================================================
