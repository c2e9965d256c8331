----------------------------- MODULE StorageProofs -----------------------------
(***************************************************************************)
(* The readers, for every chain, every pool, every fetcher and every call: *)
(* what a call returns is what the contracts held.  Growth inside a range  *)
(* is what was paid in it, whatever swaps came before; every variable of   *)
(* the six layouts is alone in its bytes, every reader asks for its slot,  *)
(* and decodes its value; and the filter and all_hooks lose and repeat     *)
(* nothing, in whatever order their futures end while blocks are added.    *)
(***************************************************************************)
EXTENDS StorageReads, FiniteSetTheorems, SequenceTheorems, TLAPS

Amounts == 0 .. Modulus - 1
PerTick == [Accumulators -> [Initialized -> Amounts]]

World == [n : Nat, tick : Int, keysSlot : {5, 6, 7}, keys : Nat, hooks : Nat,
          global : [Accumulators -> Amounts], outside : PerTick, below : PerTick]

\* The growth paid below a tick, as the words of the contract tell it.
BelowOf(now, t, global, outside) == IF t <= now THEN outside ELSE Sub(global, outside)

\* It differs from the history by the same amount at every tick.
Consistent(w) ==
    \A a \in Accumulators : \A t, u \in Initialized :
        Sub(BelowOf(w.tick, t, w.global[a], w.outside[a][t]), w.below[a][t])
          = Sub(BelowOf(w.tick, u, w.global[a], w.outside[a][u]), w.below[a][u])

WorldsInv == /\ chain \in Seq(World) /\ chain # <<>>
             /\ \A b \in DOMAIN chain : Consistent(chain[b])

\* What the three readers of growth decode at a block, for every range.
GrowthIsPaid ==
    \A b \in DOMAIN chain : \A a \in Accumulators : \A lower, upper \in Initialized :
        lower <= upper =>
            GrowthInside(chain[b].tick, lower, upper, chain[b].global[a],
                         chain[b].outside[a][lower], chain[b].outside[a][upper])
              = Sub(chain[b].below[a][upper], chain[b].below[a][lower])

\* Blocks are numbered, ticks stay in range, arrays only grow, in one slot.
BlocksInv ==
    /\ Len(chain) <= MaxBlocks
    /\ \A b \in DOMAIN chain :
         /\ chain[b].n = b /\ chain[b].tick \in PoolTicks
         /\ chain[b].keys <= Len(PoolKeys) /\ chain[b].hooks <= Len(Hooks)
    /\ \A b, d \in DOMAIN chain : b <= d =>
         /\ chain[b].keysSlot = chain[d].keysSlot
         /\ chain[b].keys <= chain[d].keys /\ chain[b].hooks <= chain[d].hooks

-------------------------------------------------------------------------------
\* The arithmetic of growth: it wraps, and stays in the amounts.
LEMMA WrapCloses ==
    ASSUME NEW a \in Amounts, NEW b \in Amounts
    PROVE  Sub(a, b) \in Amounts /\ Add(a, b) \in Amounts
    BY ContractsAssumption DEF Amounts, Sub, Add

\* Whichever side of the range the price is on, the formula subtracts what was
\* paid below the range from what was paid below its end.
LEMMA InsideIsDifference ==
    ASSUME NEW now \in Int, NEW lower \in Int, NEW upper \in Int, lower <= upper,
           NEW global \in Amounts, NEW low \in Amounts, NEW high \in Amounts
    PROVE  GrowthInside(now, lower, upper, global, low, high)
             = Sub(BelowOf(now, upper, global, high), BelowOf(now, lower, global, low))
  <1>1. CASE now < lower
    BY <1>1, ContractsAssumption DEF GrowthInside, BelowOf, Sub, Amounts
  <1>2. CASE lower <= now /\ now < upper
    BY <1>2, ContractsAssumption DEF GrowthInside, BelowOf, Sub, Amounts
  <1>3. CASE now >= upper
    BY <1>3, ContractsAssumption DEF GrowthInside, BelowOf, Sub, Amounts
  <1> QED
    BY <1>1, <1>2, <1>3

\* Two differences with the same offset.
LEMMA SameOffset ==
    ASSUME NEW p \in Amounts, NEW q \in Amounts, NEW b \in Amounts, NEW c \in Amounts,
           Sub(p, b) = Sub(q, c)
    PROVE  Sub(p, q) = Sub(b, c)
    BY ContractsAssumption DEF Sub, Amounts

\* A payment does not wrap by itself.
LEMMA PaymentIsAmount == \A a \in Accumulators : Payment[a] \in Amounts
    BY ContractsAssumption DEF Accumulators, Payment, Amounts

\* The arrays are finite.
LEMMA LengthsAreNat == Len(PoolKeys) \in Nat /\ Len(Hooks) \in Nat
  <1>1. \E S : PoolKeys \in Seq(S)
    BY FieldsAssumption, Zenon
  <1>2. \E S : Hooks \in Seq(S)
    BY FieldsAssumption, Zenon
  <1> QED
    BY <1>1, <1>2

\* A chain starts from a consistent world.
LEMMA GenesisWorld ==
    ASSUME NEW g \in Genesis
    PROVE  NewWorld(g) \in World /\ Consistent(NewWorld(g))
  <1> DEFINE w == NewWorld(g)
  <1>1. w \in World
    <2>1. g.tick \in Int /\ g.global \in Amounts /\ 0 \in Amounts
            /\ g.keysSlot \in {5, 6, 7} /\ g.keys \in Nat /\ g.hooks \in Nat
      <3>1. /\ g.tick \in PoolTicks /\ g.global \in 0 .. Modulus - 1
            /\ g.keysSlot \in {5, 6, 7} /\ g.keys \in 0 .. Len(PoolKeys)
            /\ g.hooks \in 0 .. Len(Hooks)
        BY ContractsAssumption, Zenon
      <3>2. PoolTicks \subseteq Int /\ 0 \in Amounts
        BY ContractsAssumption DEF Amounts
      <3>3. g.keys \in Nat /\ g.hooks \in Nat
        BY <3>1, LengthsAreNat
      <3> QED
        BY <3>1, <3>2, <3>3 DEF Amounts
    <2>2. [a \in Accumulators |-> g.global] \in [Accumulators -> Amounts]
      BY <2>1
    <2>3. [a \in Accumulators |-> [t \in Initialized |-> IF t <= g.tick THEN g.global ELSE 0]]
            \in PerTick
      BY <2>1 DEF PerTick
    <2>4. [a \in Accumulators |-> [t \in Initialized |-> 0]] \in PerTick
      BY <2>1 DEF PerTick
    <2> QED
      BY <2>1, <2>2, <2>3, <2>4 DEF NewWorld, World
  <1>2. ASSUME NEW a \in Accumulators, NEW t \in Initialized
        PROVE  /\ w.tick = g.tick /\ w.global[a] = g.global /\ w.below[a][t] = 0
               /\ w.outside[a][t] = IF t <= g.tick THEN g.global ELSE 0
    BY DEF NewWorld
  <1>3. ASSUME NEW a \in Accumulators, NEW t \in Initialized
        PROVE  BelowOf(w.tick, t, w.global[a], w.outside[a][t]) = g.global
    BY <1>2, ContractsAssumption DEF BelowOf, Sub
  <1> QED
    BY <1>1, <1>2, <1>3 DEF Consistent

\* One tick and one accumulator through a swap: the growth below the tick, as
\* told and as paid, grow together.
LEMMA SwapKeepsOffset ==
    ASSUME NEW now \in Int, NEW to \in Int, NEW t \in Int,
           NEW global \in Amounts, NEW outside \in Amounts, NEW paid \in Amounts,
           NEW below \in Amounts
    PROVE  LET global2  == Add(global, paid)
               outside2 == IF Crossed(t, now, to) THEN Sub(global2, outside) ELSE outside
               below2   == IF now < t THEN Add(below, paid) ELSE below
           IN  Sub(BelowOf(to, t, global2, outside2), below2)
                 = Sub(BelowOf(now, t, global, outside), below)
  <1>1. CASE t <= now /\ t <= to
    BY <1>1, ContractsAssumption DEF Crossed, BelowOf, Add, Sub, Amounts
  <1>2. CASE t <= now /\ to < t
    BY <1>2, ContractsAssumption DEF Crossed, BelowOf, Add, Sub, Amounts
  <1>3. CASE now < t /\ t <= to
    BY <1>3, ContractsAssumption DEF Crossed, BelowOf, Add, Sub, Amounts
  <1>4. CASE now < t /\ to < t
    BY <1>4, ContractsAssumption DEF Crossed, BelowOf, Add, Sub, Amounts
  <1> QED
    BY <1>1, <1>2, <1>3, <1>4

\* A swap makes a consistent world of one.
LEMMA SwapWorld ==
    ASSUME NEW w \in World, Consistent(w), NEW to \in PoolTicks
    PROVE  Swap(w, to) \in World /\ Consistent(Swap(w, to))
  <1> DEFINE v == Swap(w, to)
  <1>0. to \in Int /\ Initialized \subseteq Int
    BY ContractsAssumption
  <1>1. /\ v.n = w.n + 1 /\ v.tick = to /\ v.keysSlot = w.keysSlot
        /\ v.keys = (IF w.keys < Len(PoolKeys) THEN w.keys + 1 ELSE w.keys)
        /\ v.hooks = (IF w.hooks < Len(Hooks) THEN w.hooks + 1 ELSE w.hooks)
    BY DEF Swap, World
  <1>2. v.global = [a \in Accumulators |-> Add(w.global[a], Payment[a])]
    BY DEF Swap, World
  <1>3. v.outside = [a \in Accumulators |-> [t \in Initialized |->
                       IF Crossed(t, w.tick, to)
                       THEN Sub(Add(w.global[a], Payment[a]), w.outside[a][t])
                       ELSE w.outside[a][t]]]
    BY DEF Swap, World
  <1>4. v.below = [a \in Accumulators |-> [t \in Initialized |->
                     IF w.tick < t THEN Add(w.below[a][t], Payment[a]) ELSE w.below[a][t]]]
    BY DEF Swap, World
  <1>5. ASSUME NEW a \in Accumulators, NEW t \in Initialized
        PROVE  /\ w.tick \in Int /\ w.global[a] \in Amounts
               /\ w.outside[a][t] \in Amounts /\ w.below[a][t] \in Amounts
               /\ Payment[a] \in Amounts /\ t \in Int
    BY <1>0, PaymentIsAmount DEF World, PerTick
  <1>6. v.global \in [Accumulators -> Amounts] /\ v.outside \in PerTick /\ v.below \in PerTick
    <2>1. ASSUME NEW a \in Accumulators
          PROVE  Add(w.global[a], Payment[a]) \in Amounts
      BY PaymentIsAmount, WrapCloses DEF World
    <2> QED
      BY <1>2, <1>3, <1>4, <1>5, <2>1, WrapCloses DEF PerTick
  <1>7. v \in World
    <2>1. v.n \in Nat /\ v.tick \in Int /\ v.keysSlot \in {5, 6, 7}
            /\ v.keys \in Nat /\ v.hooks \in Nat
      BY <1>0, <1>1 DEF World
    <2>2. v = [n |-> v.n, tick |-> v.tick, keysSlot |-> v.keysSlot, global |-> v.global,
               outside |-> v.outside, below |-> v.below, keys |-> v.keys, hooks |-> v.hooks]
      BY DEF Swap
    <2> HIDE DEF v
    <2> QED
      BY <2>1, <2>2, <1>6 DEF World
  <1>8. ASSUME NEW a \in Accumulators, NEW t \in Initialized
        PROVE  Sub(BelowOf(v.tick, t, v.global[a], v.outside[a][t]), v.below[a][t])
                 = Sub(BelowOf(w.tick, t, w.global[a], w.outside[a][t]), w.below[a][t])
    <2> DEFINE global2  == Add(w.global[a], Payment[a])
               outside2 == IF Crossed(t, w.tick, to) THEN Sub(global2, w.outside[a][t])
                           ELSE w.outside[a][t]
               below2   == IF w.tick < t THEN Add(w.below[a][t], Payment[a])
                           ELSE w.below[a][t]
    <2>1. Sub(BelowOf(to, t, global2, outside2), below2)
            = Sub(BelowOf(w.tick, t, w.global[a], w.outside[a][t]), w.below[a][t])
      BY <1>0, <1>5, SwapKeepsOffset
    <2> HIDE DEF v
    <2>2. v.tick = to /\ v.global[a] = global2 /\ v.outside[a][t] = outside2
            /\ v.below[a][t] = below2
      BY <1>1, <1>2, <1>3, <1>4
    <2> HIDE DEF global2, outside2, below2
    <2> QED
      BY <2>1, <2>2
  <1> HIDE DEF v
  <1>9. Consistent(v)
    BY <1>8 DEF Consistent
  <1> QED
    BY <1>7, <1>9 DEF v

\* The worlds of a chain: at the start, and one block after another.
LEMMA InitWorlds == Init => WorldsInv
  <1> SUFFICES ASSUME NEW g \in Genesis, chain = <<NewWorld(g)>>
               PROVE  WorldsInv
    BY DEF Init
  <1>1. NewWorld(g) \in World /\ Consistent(NewWorld(g))
    BY GenesisWorld
  <1> HIDE DEF World
  <1> QED
    BY <1>1 DEF WorldsInv

\* Only a new block changes the chain.
LEMMA NextWorlds == WorldsInv /\ [Next]_vars => WorldsInv'
  <1> SUFFICES ASSUME WorldsInv, [Next]_vars
               PROVE  WorldsInv'
    OBVIOUS
  <1>1. CASE NewBlock
    <2>1. PICK to \in PoolTicks : chain' = Append(chain, Swap(Last(chain), to))
      BY <1>1 DEF NewBlock
    <2>2. Last(chain) \in World /\ Consistent(Last(chain))
      BY DEF WorldsInv, Last
    <2>3. Swap(Last(chain), to) \in World /\ Consistent(Swap(Last(chain), to))
      BY <2>2, SwapWorld
    <2> HIDE DEF World
    <2> QED
      BY <2>1, <2>3 DEF WorldsInv
  <1>2. CASE UNCHANGED chain
    BY <1>2 DEF WorldsInv
  <1> QED
    BY <1>1, <1>2 DEF Next, vars, Ask, Answer, ReadFails, Continue, Return

\* At every block the worlds are well formed, and the growth they tell of below
\* any two ticks differs from what was paid by the same amount.
THEOREM WorldsCorrect == Spec => []WorldsInv
  BY InitWorlds, NextWorlds, PTL DEF Spec

\* At every block of every chain, for every range, the growth the readers make
\* of the three words is the growth paid while the price was in the range.
THEOREM GrowthCorrect == Spec => []GrowthIsPaid
  <1>1. WorldsInv => GrowthIsPaid
    <2> SUFFICES ASSUME WorldsInv, NEW b \in DOMAIN chain, NEW a \in Accumulators,
                        NEW lower \in Initialized, NEW upper \in Initialized, lower <= upper
                 PROVE  GrowthInside(chain[b].tick, lower, upper, chain[b].global[a],
                                     chain[b].outside[a][lower], chain[b].outside[a][upper])
                          = Sub(chain[b].below[a][upper], chain[b].below[a][lower])
      BY DEF GrowthIsPaid
    <2> DEFINE w == chain[b]
               low == w.outside[a][lower]
               high == w.outside[a][upper]
               global == w.global[a]
    <2>1. w \in World /\ Consistent(w)
      BY DEF WorldsInv
    <2> HIDE DEF w
    <2>2. /\ w.tick \in Int /\ global \in Amounts /\ low \in Amounts /\ high \in Amounts
          /\ w.below[a][lower] \in Amounts /\ w.below[a][upper] \in Amounts
          /\ lower \in Int /\ upper \in Int
      BY <2>1, ContractsAssumption DEF World, PerTick
    <2>3. Sub(BelowOf(w.tick, upper, global, high), w.below[a][upper])
            = Sub(BelowOf(w.tick, lower, global, low), w.below[a][lower])
      BY <2>1 DEF Consistent
    <2> HIDE DEF low, high, global
    <2>4. BelowOf(w.tick, upper, global, high) \in Amounts
            /\ BelowOf(w.tick, lower, global, low) \in Amounts
      BY <2>2, WrapCloses DEF BelowOf
    <2>5. Sub(BelowOf(w.tick, upper, global, high), BelowOf(w.tick, lower, global, low))
            = Sub(w.below[a][upper], w.below[a][lower])
      BY <2>2, <2>3, <2>4, SameOffset
    <2>6. GrowthInside(w.tick, lower, upper, global, low, high)
            = Sub(w.below[a][upper], w.below[a][lower])
      BY <2>2, <2>5, InsideIsDifference
    <2> QED
      BY <2>6 DEF w, low, high, global
  <1> QED
    BY <1>1, WorldsCorrect, PTL

\* The numbers and lengths of the blocks: at the start, and one after another.
LEMMA InitBlocks == Init => BlocksInv
  <1> SUFFICES ASSUME NEW g \in Genesis, chain = <<NewWorld(g)>>
               PROVE  BlocksInv
    BY DEF Init
  <1>1. /\ g.tick \in PoolTicks /\ g.keys \in 0 .. Len(PoolKeys) /\ g.hooks \in 0 .. Len(Hooks)
    BY ContractsAssumption, Zenon
  <1>2. /\ NewWorld(g).n = 1 /\ NewWorld(g).tick = g.tick
        /\ NewWorld(g).keys = g.keys /\ NewWorld(g).hooks = g.hooks
    BY DEF NewWorld
  <1>3. Len(chain) = 1 /\ DOMAIN chain = {1} /\ chain[1] = NewWorld(g) /\ 1 <= MaxBlocks
    BY ContractsAssumption
  <1> QED
    BY <1>1, <1>2, <1>3, LengthsAreNat DEF BlocksInv

\* Only a new block changes them.
LEMMA NextBlocks == WorldsInv /\ BlocksInv /\ [Next]_vars => BlocksInv'
  <1> SUFFICES ASSUME WorldsInv, BlocksInv, [Next]_vars
               PROVE  BlocksInv'
    OBVIOUS
  <1>1. CASE NewBlock
    <2>1. PICK to \in PoolTicks : chain' = Append(chain, Swap(Last(chain), to))
      BY <1>1 DEF NewBlock
    <2> DEFINE n == Len(chain)
               w == chain[n]
               v == Swap(w, to)
    <2>2. /\ n \in Nat \ {0} /\ n < MaxBlocks /\ chain' = Append(chain, v)
          /\ \A b \in 1 .. n : chain[b] \in World /\ chain[b].keys \in Nat /\ chain[b].hooks \in Nat
      <3>1. \A x \in World : x.keys \in Nat /\ x.hooks \in Nat
        BY DEF World
      <3> HIDE DEF World
      <3> QED
        BY <1>1, <2>1, <3>1 DEF WorldsInv, Last, NewBlock
    <2>3. /\ v.n = w.n + 1 /\ v.tick = to /\ v.keysSlot = w.keysSlot
          /\ v.keys = (IF w.keys < Len(PoolKeys) THEN w.keys + 1 ELSE w.keys)
          /\ v.hooks = (IF w.hooks < Len(Hooks) THEN w.hooks + 1 ELSE w.hooks)
      BY DEF Swap
    <2> HIDE DEF World, v
    <2>4. /\ DOMAIN chain = 1 .. n /\ DOMAIN chain' = 1 .. n + 1 /\ Len(chain') = n + 1
          /\ chain'[n + 1] = v /\ \A b \in 1 .. n : chain'[b] = chain[b]
      BY <2>2 DEF WorldsInv
    <2>5. /\ v.n = n + 1 /\ v.tick \in PoolTicks
          /\ v.keys <= Len(PoolKeys) /\ v.hooks <= Len(Hooks)
          /\ v.keysSlot = w.keysSlot /\ w.keys <= v.keys /\ w.hooks <= v.hooks
          /\ v.keys \in Nat /\ v.hooks \in Nat
      BY <2>2, <2>3, <2>4, LengthsAreNat DEF BlocksInv
    <2>6. Len(chain') <= MaxBlocks
      BY <2>2, <2>4, ContractsAssumption
    <2>7. ASSUME NEW b \in DOMAIN chain'
          PROVE  /\ chain'[b].n = b /\ chain'[b].tick \in PoolTicks
                 /\ chain'[b].keys <= Len(PoolKeys) /\ chain'[b].hooks <= Len(Hooks)
      BY <2>2, <2>4, <2>5 DEF BlocksInv
    <2>8. ASSUME NEW b \in DOMAIN chain', NEW d \in DOMAIN chain', b <= d
          PROVE  /\ chain'[b].keysSlot = chain'[d].keysSlot
                 /\ chain'[b].keys <= chain'[d].keys /\ chain'[b].hooks <= chain'[d].hooks
      <3>1. CASE d \in 1 .. n
        BY <2>2, <2>4, <2>8, <3>1 DEF BlocksInv
      <3>2. CASE d = n + 1 /\ b \in 1 .. n
        <4>1. /\ chain[b].keysSlot = w.keysSlot
              /\ chain[b].keys <= w.keys /\ chain[b].hooks <= w.hooks
          BY <2>2, <2>4, <3>2 DEF BlocksInv
        <4> QED
          BY <2>2, <2>4, <2>5, <3>2, <4>1
      <3>3. CASE d = n + 1 /\ b = n + 1
        BY <2>4, <2>5, <3>3
      <3> QED
        BY <2>2, <2>4, <2>8, <3>1, <3>2, <3>3
    <2> QED
      BY <2>6, <2>7, <2>8 DEF BlocksInv
  <1>2. CASE UNCHANGED chain
    BY <1>2 DEF BlocksInv
  <1> QED
    BY <1>1, <1>2 DEF Next, vars, Ask, Answer, ReadFails, Continue, Return

\* Along a chain the two arrays only grow, stay in the slot the deployment keeps
\* them in, and never outgrow what is pushed.
THEOREM BlocksCorrect == Spec => []BlocksInv
  BY InitWorlds, NextWorlds, InitBlocks, NextBlocks, PTL DEF Spec

-------------------------------------------------------------------------------
(* Slots: what is stored in them, in the six layouts.                       *)

\* A variable of its type at a slot, from a byte on: in its bytes there is
\* nothing else, and a whole word has the slot for itself.
Stored(contract, slot, at, var) ==
    LET cell == Cell(slot, at, var) IN
    /\ cell \in Layout[contract]
    /\ \A c \in Layout[contract] : c.slot = slot /\ c # cell =>
           /\ var[1] # "whole" /\ c.var[1] # "whole"
           /\ c.at \in Nat /\ Width[c.var[1]] \in Nat
           /\ \/ c.at + Width[c.var[1]] <= at
              \/ at + Width[var[1]] <= c.at

\* A variable that has a slot for itself, without filling it.
Sole(contract, slot, at, var) ==
    LET cell == Cell(slot, at, var) IN
    /\ cell \in Layout[contract]
    /\ \A c \in Layout[contract] : c.slot = slot => c = cell

\* A slot of a mapping, and those after it: as a record.
LEMMA MapSlotIs ==
    ASSUME NEW k, NEW s, NEW n \in Int
    PROVE  /\ Plus(MapSlot(k, s), n) = [base |-> <<s, k>>, off |-> n]
           /\ MapSlot(k, s) = [base |-> <<s, k>>, off |-> 0]
    BY DEF Plus, MapSlot

\* A slot counted from that of an entry is known by the mapping, the key and the
\* distance: two such are equal only if all three are.
LEMMA SlotsApart ==
    ASSUME NEW k, NEW s, NEW n \in Int, NEW l, NEW r, NEW m \in Int
    PROVE  Plus(MapSlot(k, s), n) = Plus(MapSlot(l, r), m) <=> k = l /\ s = r /\ n = m
    BY MapSlotIs

\* A slot of a mapping has a key; a slot at the root has none.
LEMMA MapNotRoot ==
    ASSUME NEW k, NEW s, NEW n \in Int, NEW m \in Int
    PROVE  Plus(MapSlot(k, s), n) # Root(m) /\ MapSlot(k, s) # Root(m)
    BY MapSlotIs DEF Root, MapSlot, Plus

\* The cells of a structure are counted from its first slot.
LEMMA BaseOfCells ==
    ASSUME NEW k, NEW r, NEW c, NEW t
    PROVE  /\ c \in PoolCells(MapSlot(k, r)) => c.slot.base = <<r, k>>
           /\ c \in TickCells(MapSlot(k, r), t) => c.slot.base = <<r, k>>
           /\ c \in PositionCells(MapSlot(k, r)) => c.slot.base = <<r, k>>
  <1>1. \A m \in Int : Plus(MapSlot(k, r), m).base = <<r, k>> /\ MapSlot(k, r).base = <<r, k>>
    BY MapSlotIs
  <1> QED
    BY <1>1 DEF PoolCells, TickCells, PositionCells, Cell, Whole

\* The base of a slot tells which structure of the PoolManager it is in.
LEMMA PoolManagerAt ==
    ASSUME NEW c \in PoolManagerCells
    PROVE  /\ c.slot.base = PoolStateSlot.base => c \in PoolCells(PoolStateSlot)
           /\ \A t : c.slot.base = PoolTickSlot(t).base => c \in TickCells(PoolTickSlot(t), t)
           /\ \A l, u : c.slot.base = PositionStateSlot(l, u).base =>
                 c \in PositionCells(PositionStateSlot(l, u))
  <1> DEFINE pool == PoolStateSlot
             T(t) == TickCells(PoolTickSlot(t), t)
             P(l, u) == PositionCells(PositionStateSlot(l, u))
  <1>1. \/ c \in PoolCells(pool)
        \/ \E t \in Initialized : c \in T(t)
        \/ \E r \in Ranges : c \in P(r[1], r[2])
    <2>1. PoolManagerCells
            = UNION ({PoolCells(pool)} \cup {T(t) : t \in Initialized}
                     \cup {P(r[1], r[2]) : r \in Ranges})
      BY DEF PoolManagerCells, PoolStateSlot, PoolTickSlot, PositionStateSlot, EncodePositionKey,
             PositionKey
    <2> HIDE DEF T, P
    <2> QED
      BY <2>1
  <1>2. c \in PoolCells(pool) => c.slot.base = <<Root(6), Pool>>
    BY BaseOfCells DEF PoolStateSlot
  <1>3. \A t : c \in T(t) => c.slot.base = <<Plus(pool, 4), <<t>>>>
    BY BaseOfCells DEF PoolTickSlot
  <1>4. \A l, u : c \in P(l, u) => c.slot.base = <<Plus(pool, 6), <<Manager, l, u, Token>>>>
    BY BaseOfCells DEF PositionStateSlot, EncodePositionKey
  <1>5. /\ pool.base = <<Root(6), Pool>>
        /\ \A t : PoolTickSlot(t).base = <<Plus(pool, 4), <<t>>>>
        /\ \A l, u : PositionStateSlot(l, u).base = <<Plus(pool, 6), <<Manager, l, u, Token>>>>
    <2>1. \A k, s : MapSlot(k, s).base = <<s, k>>
      BY MapSlotIs
    <2> QED
      BY <2>1 DEF PoolStateSlot, PoolTickSlot, PositionStateSlot, EncodePositionKey
  <1>6. Plus(pool, 4) # Root(6) /\ Plus(pool, 6) # Root(6) /\ Plus(pool, 4) # Plus(pool, 6)
    BY SlotsApart, MapNotRoot DEF PoolStateSlot
  <1> HIDE DEF pool, T, P
  <1> QED
    BY <1>1, <1>2, <1>3, <1>4, <1>5, <1>6 DEF pool, T, P

\* The variables of a pool.
LEMMA PoolManagerStored ==
    /\ Stored("PoolManager", PoolStateSlot, 0, <<"u160", "sqrtPrice">>)
    /\ Stored("PoolManager", PoolStateSlot, 20, <<"i24", "tick">>)
    /\ Stored("PoolManager", PoolStateSlot, 23, <<"u24", "protocolFee">>)
    /\ Stored("PoolManager", PoolStateSlot, 26, <<"u24", "lpFee">>)
    /\ Stored("PoolManager", Plus(PoolStateSlot, 1), 0, <<"whole">> \o <<"global", "fee0">>)
    /\ Stored("PoolManager", Plus(PoolStateSlot, 2), 0, <<"whole">> \o <<"global", "fee1">>)
    /\ Sole("PoolManager", Plus(PoolStateSlot, 3), 0, <<"u128", "liquidity">>)
  <1> DEFINE pool == PoolStateSlot
             S(slot, at, var) == Stored("PoolManager", slot, at, var)
  <1>1. pool = [base |-> pool.base, off |-> 0]
          /\ \A n \in Int : Plus(pool, n) = [base |-> pool.base, off |-> n]
    BY MapSlotIs DEF PoolStateSlot
  <1>2. Layout["PoolManager"] = PoolManagerCells /\ PoolCells(pool) \subseteq PoolManagerCells
    BY DEF Layout, PoolManagerCells, PoolStateSlot
  <1>3. \A c \in PoolManagerCells : c.slot.base = pool.base => c \in PoolCells(pool)
    BY PoolManagerAt
  <1> HIDE DEF pool
  <1>4. S(pool, 0, <<"u160", "sqrtPrice">>) /\ S(pool, 20, <<"i24", "tick">>)
          /\ S(pool, 23, <<"u24", "protocolFee">>) /\ S(pool, 26, <<"u24", "lpFee">>)
    BY <1>1, <1>2, <1>3 DEF Stored, PoolCells, Cell, Whole, Width
  <1>5. S(Plus(pool, 1), 0, <<"whole">> \o <<"global", "fee0">>)
    BY <1>1, <1>2, <1>3 DEF Stored, PoolCells, Cell, Whole, Width
  <1>6. S(Plus(pool, 2), 0, <<"whole">> \o <<"global", "fee1">>)
    BY <1>1, <1>2, <1>3 DEF Stored, PoolCells, Cell, Whole, Width
  <1>7. Sole("PoolManager", Plus(pool, 3), 0, <<"u128", "liquidity">>)
    BY <1>1, <1>2, <1>3 DEF Sole, PoolCells, Cell, Whole, Width
  <1> QED
    BY <1>4, <1>5, <1>6, <1>7 DEF pool

\* The variables of a tick.
LEMMA TickStored ==
    ASSUME NEW t \in Initialized
    PROVE  /\ Stored("PoolManager", Plus(PoolTickSlot(t), 1), 0, <<"whole">> \o <<"outside", "fee0", t>>)
           /\ Stored("PoolManager", Plus(PoolTickSlot(t), 2), 0, <<"whole">> \o <<"outside", "fee1", t>>)
  <1> DEFINE slot == PoolTickSlot(t)
             T(u) == TickCells(PoolTickSlot(u), u)
             Q == PoolCells(PoolStateSlot)
             P(r) == PositionCells(PositionStateSlot(r[1], r[2]))
  <1>1. slot = [base |-> slot.base, off |-> 0]
          /\ \A n \in Int : Plus(slot, n) = [base |-> slot.base, off |-> n]
    BY MapSlotIs DEF PoolTickSlot
  <1>2. Layout["PoolManager"] = PoolManagerCells /\ TickCells(slot, t) \subseteq PoolManagerCells
    <2>1. PoolManagerCells = UNION ({Q} \cup {T(u) : u \in Initialized} \cup {P(r) : r \in Ranges})
      BY DEF PoolManagerCells, PoolStateSlot, PoolTickSlot, PositionStateSlot, EncodePositionKey,
             PositionKey
    <2>2. T(t) \subseteq PoolManagerCells
      <3> HIDE DEF T, P, Q
      <3> QED
        BY <2>1
    <2> QED
      BY <2>2 DEF Layout
  <1>3. \A c \in PoolManagerCells : c.slot.base = slot.base => c \in TickCells(slot, t)
    BY PoolManagerAt
  <1> HIDE DEF slot
  <1>4. Stored("PoolManager", Plus(slot, 1), 0, <<"whole">> \o <<"outside", "fee0", t>>)
    BY <1>1, <1>2, <1>3 DEF Stored, TickCells, Cell, Whole, Width
  <1>5. Stored("PoolManager", Plus(slot, 2), 0, <<"whole">> \o <<"outside", "fee1", t>>)
    BY <1>1, <1>2, <1>3 DEF Stored, TickCells, Cell, Whole, Width
  <1> QED
    BY <1>4, <1>5 DEF slot

\* The variables of a position.
LEMMA PositionStored ==
    ASSUME NEW p \in Ranges
    PROVE  LET slot == PositionStateSlot(p[1], p[2]) IN
           /\ Stored("PoolManager", slot, 0, <<"u128", "posLiquidity">>)
           /\ Stored("PoolManager", Plus(slot, 1), 0, <<"whole">> \o <<"last0">>)
           /\ Stored("PoolManager", Plus(slot, 2), 0, <<"whole">> \o <<"last1">>)
  <1> DEFINE slot == PositionStateSlot(p[1], p[2])
             T(u) == TickCells(PoolTickSlot(u), u)
             Q == PoolCells(PoolStateSlot)
             P(r) == PositionCells(PositionStateSlot(r[1], r[2]))
  <1>1. slot = [base |-> slot.base, off |-> 0]
          /\ \A n \in Int : Plus(slot, n) = [base |-> slot.base, off |-> n]
    BY MapSlotIs DEF PositionStateSlot
  <1>2. Layout["PoolManager"] = PoolManagerCells /\ PositionCells(slot) \subseteq PoolManagerCells
    <2>1. PoolManagerCells = UNION ({Q} \cup {T(u) : u \in Initialized} \cup {P(r) : r \in Ranges})
      BY DEF PoolManagerCells, PoolStateSlot, PoolTickSlot, PositionStateSlot, EncodePositionKey,
             PositionKey
    <2>2. P(p) \subseteq PoolManagerCells
      <3> HIDE DEF T, P, Q
      <3> QED
        BY <2>1
    <2> QED
      BY <2>2 DEF Layout
  <1>3. \A c \in PoolManagerCells : c.slot.base = slot.base => c \in PositionCells(slot)
    BY PoolManagerAt
  <1> HIDE DEF slot
  <1>4. Stored("PoolManager", slot, 0, <<"u128", "posLiquidity">>)
    BY <1>1, <1>2, <1>3 DEF Stored, PositionCells, Cell, Whole, Width
  <1>5. Stored("PoolManager", Plus(slot, 1), 0, <<"whole">> \o <<"last0">>)
    BY <1>1, <1>2, <1>3 DEF Stored, PositionCells, Cell, Whole, Width
  <1>6. Stored("PoolManager", Plus(slot, 2), 0, <<"whole">> \o <<"last1">>)
    BY <1>1, <1>2, <1>3 DEF Stored, PositionCells, Cell, Whole, Width
  <1> QED
    BY <1>4, <1>5, <1>6 DEF slot

-------------------------------------------------------------------------------
KeyVar(f, which) == <<KeyTypes[f], which[1], which[2], f>> \o Tail(Tail(which))

\* The three slots of a key, in the mapping or in an array.
KeyStoredAt(contract, slot, which) ==
    /\ Stored(contract, slot, 0, KeyVar("currency0", which))
    /\ Stored(contract, Plus(slot, 1), 0, KeyVar("currency1", which))
    /\ Stored(contract, Plus(slot, 1), 20, KeyVar("fee", which))
    /\ Stored(contract, Plus(slot, 1), 23, KeyVar("tickSpacing", which))
    /\ Stored(contract, Plus(slot, 2), 0, KeyVar("hooks", which))

IsSlot(slot) == slot = [base |-> slot.base, off |-> slot.off] /\ slot.off \in Int

\* The three slots of a key.
LEMMA KeySlots ==
    ASSUME NEW which, NEW slot, IsSlot(slot), NEW c \in KeyCells(slot, which)
    PROVE  c.slot.base = slot.base /\ c.slot.off \in {slot.off, slot.off + 1, slot.off + 2}
  <1> DEFINE var(f) == <<KeyTypes[f], which[1], which[2], f>> \o Tail(Tail(which))
  <1>1. c \in {Cell(slot, 0, var("currency0")), Cell(Plus(slot, 1), 0, var("currency1")),
               Cell(Plus(slot, 1), 20, var("fee")), Cell(Plus(slot, 1), 23, var("tickSpacing")),
               Cell(Plus(slot, 2), 0, var("hooks"))}
    BY DEF KeyCells
  <1> HIDE DEF var
  <1>2. c.slot \in {slot, Plus(slot, 1), Plus(slot, 2)}
    BY <1>1 DEF Cell
  <1> QED
    BY <1>2 DEF Plus, IsSlot

\* The fields of a key, alone in its three slots.
LEMMA KeyStored ==
    ASSUME NEW contract, NEW which, NEW slot, IsSlot(slot),
           KeyCells(slot, which) \subseteq Layout[contract],
           \A c \in Layout[contract] :
              c.slot.base = slot.base /\ c.slot.off \in {slot.off, slot.off + 1, slot.off + 2}
                => c \in KeyCells(slot, which)
    PROVE  KeyStoredAt(contract, slot, which)
  <1> DEFINE var(f) == KeyVar(f, which)
  <1>1. \A f : KeyVar(f, which)[1] = KeyTypes[f]
    BY DEF KeyVar
  <1>2. KeyTypes["currency0"] = "u160" /\ KeyTypes["currency1"] = "u160"
          /\ KeyTypes["fee"] = "u24" /\ KeyTypes["tickSpacing"] = "i24" /\ KeyTypes["hooks"] = "u160"
    BY DEF KeyTypes
  <1>3. KeyCells(slot, which) =
          {Cell(slot, 0, var("currency0")), Cell(Plus(slot, 1), 0, var("currency1")),
           Cell(Plus(slot, 1), 20, var("fee")), Cell(Plus(slot, 1), 23, var("tickSpacing")),
           Cell(Plus(slot, 2), 0, var("hooks"))}
    BY DEF KeyCells, KeyVar
  <1>4. \A c \in Layout[contract] : c.slot \in {slot, Plus(slot, 1), Plus(slot, 2)} =>
                                       c \in KeyCells(slot, which)
    BY DEF Plus, IsSlot
  <1>5. slot # Plus(slot, 1) /\ slot # Plus(slot, 2) /\ Plus(slot, 1) # Plus(slot, 2)
    BY DEF Plus, IsSlot
  <1> DEFINE two == Plus(slot, 1)
             three == Plus(slot, 2)
  <1> HIDE DEF var, two, three
  <1>6. /\ Stored(contract, slot, 0, var("currency0"))
        /\ Stored(contract, three, 0, var("hooks"))
    BY <1>1, <1>2, <1>3, <1>4, <1>5 DEF Stored, Cell, Width, var, two, three
  <1>7. /\ Stored(contract, two, 0, var("currency1"))
        /\ Stored(contract, two, 20, var("fee"))
        /\ Stored(contract, two, 23, var("tickSpacing"))
    BY <1>1, <1>2, <1>3, <1>4, <1>5 DEF Stored, Cell, Width, var, two, three
  <1> QED
    BY <1>6, <1>7 DEF KeyStoredAt, var, two, three

\* The variables of the PositionManager.
LEMMA PositionManagerStored ==
    LET info == PositionInfoSlot(Token) IN
    /\ Stored("PositionManager", MapSlot(Token, Root(2)), 0, <<"u160", "owner">>)
    /\ Stored("PositionManager", Root(8), 0, <<"whole">> \o <<"nextTokenId">>)
    /\ Stored("PositionManager", info, 1, <<"i24", "lower">>)
    /\ Stored("PositionManager", info, 4, <<"i24", "upper">>)
    /\ Stored("PositionManager", info, 7, <<"b25", "poolId">>)
    /\ KeyStoredAt("PositionManager", MapSlot(Fill(Field.poolId[1], 25), Root(10)), <<"key", 1>>)
  <1> DEFINE info == PositionInfoSlot(Token)
             id == Fill(Field.poolId[1], 25)
             base == MapSlot(id, Root(10))
             owner == MapSlot(Token, Root(2))
             fixed == {Cell(owner, 0, <<"u160", "owner">>), Whole(Root(8), <<"nextTokenId">>),
                       Cell(info, 0, <<"bool", "subscribed">>), Cell(info, 1, <<"i24", "lower">>),
                       Cell(info, 4, <<"i24", "upper">>), Cell(info, 7, <<"b25", "poolId">>)}
             key == KeyCells(base, <<"key", 1>>)
  <1>1. Layout["PositionManager"] = fixed \cup key
    BY DEF Layout, PositionManagerCells, PositionInfoSlot
  <1> HIDE DEF id
  <1>2. /\ base = [base |-> <<Root(10), id>>, off |-> 0] /\ owner.base = <<Root(2), Token>>
        /\ info.base = <<Root(9), Token>> /\ Root(8).base = <<>>
    BY DEF PositionInfoSlot, Root, MapSlot
  <1>3. Root(10) # Root(2) /\ Root(10) # Root(9) /\ Root(2) # Root(9)
    BY DEF Root
  <1> HIDE DEF info, base, owner
  <1>4. \A c \in key : c.slot.base = <<Root(10), id>>
    <2>1. IsSlot(base) /\ base.base = <<Root(10), id>>
      BY <1>2 DEF IsSlot
    <2> QED
      BY <2>1, KeySlots
  <1>5. \A c \in fixed : c.slot.base # <<Root(10), id>>
    BY <1>2, <1>3 DEF Cell, Whole
  <1>6. owner # info /\ owner # Root(8) /\ info # Root(8)
    BY <1>2, <1>3
  <1>7. owner.base # base.base /\ info.base # base.base /\ Root(8).base # base.base
    BY <1>2, <1>3
  <1>8. \A c \in Layout["PositionManager"] : c.slot \in {owner, info, Root(8)} => c \in fixed
    <2> HIDE DEF fixed, key
    <2> QED
      BY <1>1, <1>2, <1>4, <1>7
  <1>9. fixed \subseteq Layout["PositionManager"]
    <2> HIDE DEF fixed, key
    <2> QED
      BY <1>1
  <1>10. /\ Stored("PositionManager", owner, 0, <<"u160", "owner">>)
         /\ Stored("PositionManager", Root(8), 0, <<"whole">> \o <<"nextTokenId">>)
    BY <1>6, <1>8, <1>9 DEF Stored, Cell, Whole, Width
  <1>11. /\ Stored("PositionManager", info, 1, <<"i24", "lower">>)
         /\ Stored("PositionManager", info, 4, <<"i24", "upper">>)
         /\ Stored("PositionManager", info, 7, <<"b25", "poolId">>)
    BY <1>6, <1>8, <1>9 DEF Stored, Cell, Whole, Width
  <1>12. KeyStoredAt("PositionManager", base, <<"key", 1>>)
    <2>1. IsSlot(base) /\ base.base = <<Root(10), id>>
      BY <1>2 DEF IsSlot
    <2>2. \A c \in Layout["PositionManager"] : c.slot.base = base.base => c \in key
      <3> HIDE DEF fixed, key
      <3> QED
        BY <1>1, <1>5, <2>1
    <2>3. key \subseteq Layout["PositionManager"]
      <3> HIDE DEF fixed, key
      <3> QED
        BY <1>1
    <2> QED
      BY <2>1, <2>2, <2>3, KeyStored
  <1> QED
    BY <1>10, <1>11, <1>12 DEF info, base, owner, id

V3TickCells(t) ==
    TickCells(V3TickSlot(t), t) \cup {Cell(Plus(V3TickSlot(t), 3), 0, <<"b31", "seconds">>),
                                      Cell(Plus(V3TickSlot(t), 3), 31, <<"bool", "initialized">>)}

V3TickStoredAt(t) ==
    LET slot == V3TickSlot(t) IN
    /\ Stored("V3Pool", Plus(slot, 0), 0, <<"u128", "gross">>)
    /\ Stored("V3Pool", Plus(slot, 0), 16, <<"u128", "net">>)
    /\ Stored("V3Pool", Plus(slot, 1), 0, <<"whole">> \o <<"outside", "fee0", t>>)
    /\ Stored("V3Pool", Plus(slot, 2), 0, <<"whole">> \o <<"outside", "fee1", t>>)
    /\ Stored("V3Pool", Plus(slot, 3), 31, <<"bool", "initialized">>)

\* Slots at the root differ as their numbers do.
LEMMA RootsApart == 
    /\ \A m, n \in Int : Root(m) = Root(n) <=> m = n
    /\ \A n : Root(n).base = <<>>
    BY DEF Root

\* The variables of a v3 pool.
LEMMA V3PoolStored ==
    /\ Stored("V3Pool", Root(0), 0, <<"u160", "sqrtPrice">>)
    /\ Stored("V3Pool", Root(0), 20, <<"i24", "tick">>)
    /\ Stored("V3Pool", Root(1), 0, <<"whole">> \o <<"global", "fee0">>)
    /\ Stored("V3Pool", Root(2), 0, <<"whole">> \o <<"global", "fee1">>)
    /\ Stored("V3Pool", Root(4), 0, <<"u128", "liquidity">>)
    /\ \A t \in Initialized : V3TickStoredAt(t)
  <1> DEFINE fixed ==
               {Cell(Root(0), 0, <<"u160", "sqrtPrice">>), Cell(Root(0), 20, <<"i24", "tick">>),
                Cell(Root(0), 23, <<"u24", "protocolFee">>),
                Whole(Root(1), <<"global", "fee0">>), Whole(Root(2), <<"global", "fee1">>),
                Cell(Root(4), 0, <<"u128", "liquidity">>)}
             L == Layout["V3Pool"]
             T(t) == V3TickCells(t)
  <1>1. L = fixed \cup (UNION {T(t) : t \in Initialized})
    BY DEF Layout, V3PoolCells, V3TickSlot, V3TickCells
  <1>2. ASSUME NEW t
        PROVE  /\ \A n \in Int : Plus(V3TickSlot(t), n) = [base |-> <<Root(5), <<t>>>>, off |-> n]
               /\ V3TickSlot(t) = [base |-> <<Root(5), <<t>>>>, off |-> 0]
    BY MapSlotIs DEF V3TickSlot
  <1>3. ASSUME NEW t, NEW c \in T(t) PROVE c.slot.base = <<Root(5), <<t>>>>
    <2>1. c \in TickCells(V3TickSlot(t), t) => c.slot.base = <<Root(5), <<t>>>>
      BY BaseOfCells DEF V3TickSlot
    <2> QED
      BY <1>2, <2>1 DEF V3TickCells, Cell
  <1>4. \A c \in fixed : c.slot.base = <<>>
    BY RootsApart DEF Cell, Whole
  <1>5. fixed \subseteq L /\ \A c \in L, n \in Int : c.slot = Root(n) => c \in fixed
    <2> HIDE DEF fixed, T, L
    <2> QED
      BY <1>1, <1>3, RootsApart
  <1>6. ASSUME NEW t \in Initialized
        PROVE  T(t) \subseteq L /\ \A c \in L : c.slot.base = <<Root(5), <<t>>>> => c \in T(t)
    <2> HIDE DEF fixed, T, L
    <2> QED
      BY <1>1, <1>3, <1>4
  <1>7. Stored("V3Pool", Root(0), 0, <<"u160", "sqrtPrice">>)
          /\ Stored("V3Pool", Root(0), 20, <<"i24", "tick">>)
    BY <1>5, RootsApart DEF Stored, Cell, Whole, Width
  <1>8. Stored("V3Pool", Root(1), 0, <<"whole">> \o <<"global", "fee0">>)
    BY <1>5, RootsApart DEF Stored, Cell, Whole, Width
  <1>9. Stored("V3Pool", Root(2), 0, <<"whole">> \o <<"global", "fee1">>)
    BY <1>5, RootsApart DEF Stored, Cell, Whole, Width
  <1>10. Stored("V3Pool", Root(4), 0, <<"u128", "liquidity">>)
    BY <1>5, RootsApart DEF Stored, Cell, Whole, Width
  <1>11. ASSUME NEW t \in Initialized PROVE V3TickStoredAt(t)
    <2> DEFINE s == V3TickSlot(t)
    <2>1. /\ Plus(s, 0) = s /\ s.base = <<Root(5), <<t>>>>
          /\ \A n \in Int : Plus(s, n).base = <<Root(5), <<t>>>>
          /\ \A m, n \in Int : Plus(s, m) = Plus(s, n) <=> m = n
      BY <1>2
    <2>2. V3TickCells(t) = {Cell(s, 0, <<"u128", "gross">>), Cell(s, 16, <<"u128", "net">>),
                            Whole(Plus(s, 1), <<"outside", "fee0", t>>),
                            Whole(Plus(s, 2), <<"outside", "fee1", t>>),
                            Cell(Plus(s, 3), 0, <<"b31", "seconds">>),
                            Cell(Plus(s, 3), 31, <<"bool", "initialized">>)}
      BY DEF V3TickCells, TickCells
    <2>3. T(t) \subseteq L
            /\ \A c \in L : \A n \in Int : c.slot = Plus(s, n) => c \in V3TickCells(t)
      BY <1>6, <2>1
    <2>0. s # Plus(s, 1) /\ s # Plus(s, 2) /\ s # Plus(s, 3)
      BY <1>2
    <2> HIDE DEF s, L
    <2>4. /\ Stored("V3Pool", Plus(s, 0), 0, <<"u128", "gross">>)
          /\ Stored("V3Pool", Plus(s, 0), 16, <<"u128", "net">>)
      <3>1. \A c \in L : c.slot = s => c \in {Cell(s, 0, <<"u128", "gross">>), Cell(s, 16, <<"u128", "net">>)}
        BY <2>0, <2>1, <2>2, <2>3 DEF Cell, Whole
      <3>2. {Cell(s, 0, <<"u128", "gross">>), Cell(s, 16, <<"u128", "net">>)} \subseteq L
        BY <2>2, <2>3
      <3> QED
        BY <2>1, <3>1, <3>2 DEF Stored, Cell, Width, L
    <2>5. Stored("V3Pool", Plus(s, 1), 0, <<"whole">> \o <<"outside", "fee0", t>>)
      BY <2>1, <2>2, <2>3 DEF Stored, Cell, Whole, Width, L
    <2>6. Stored("V3Pool", Plus(s, 2), 0, <<"whole">> \o <<"outside", "fee1", t>>)
      BY <2>1, <2>2, <2>3 DEF Stored, Cell, Whole, Width, L
    <2>7. Stored("V3Pool", Plus(s, 3), 31, <<"bool", "initialized">>)
      BY <2>1, <2>2, <2>3 DEF Stored, Cell, Whole, Width, L
    <2> QED
      BY <2>4, <2>5, <2>6, <2>7 DEF V3TickStoredAt, s
  <1> QED
    BY <1>7, <1>8, <1>9, <1>10, <1>11

\* Two ticks are less than the array of growth apart.
LEMMA Int24Spans ==
    ASSUME NEW t \in Int24, NEW u \in Int24
    PROVE  t \in Int /\ u \in Int /\ t - u < Span24 /\ u - t < Span24
    BY SMT DEF Int24, Span24

\* As 24 bits two ticks are different, and none is where global growth is.
LEMMA TicksApart ==
    ASSUME NEW t \in Initialized, NEW u \in Initialized
    PROVE  /\ TickIndex(t) \in Int /\ TickIndex(t) # Span24
           /\ TickIndex(t) = t % Span24
           /\ u % Span24 = t % Span24 => u = t
           /\ PoolRewardsGrowthArraySize = Span24 /\ Span24 \in Int
  <1>1. t \in Int /\ u \in Int /\ t - u < Span24 /\ u - t < Span24
    <2>1. t \in Int24 /\ u \in Int24
      BY TicksAssumption
    <2> QED
      BY <2>1, Int24Spans
  <1> QED
    BY <1>1, SMT DEF TickIndex, Span24, PoolRewardsGrowthArraySize

\* The array of growth outside, with global growth after its end.
LEMMA AngstromStored ==
    /\ Stored("Angstrom", AngstromGlobalSlot, 0, <<"whole">> \o <<"global", "reward">>)
    /\ \A t \in Initialized :
          Stored("Angstrom", AngstromOutsideSlot(t), 0, <<"whole">> \o <<"outside", "reward", t>>)
    /\ \A r \in Ranges :
          Stored("Angstrom", AngstromPositionSlot(r[1], r[2]), 0, <<"whole">> \o <<"last0">>)
  <1> DEFINE L == Layout["Angstrom"]
             G == AngstromGlobalSlot
             O(t) == AngstromOutsideSlot(t)
             P(r) == AngstromPositionSlot(r[1], r[2])
             wG == Whole(G, <<"global", "reward">>)
             wO(t) == Whole(O(t), <<"outside", "reward", t>>)
             wP(r) == Whole(P(r), <<"last0">>)
             rewards == AngstromPoolRewardsSlot
  <1>0. /\ Span24 \in Int /\ G = Plus(rewards, Span24)
        /\ \A t \in Initialized : O(t) = Plus(rewards, t % Span24) /\ t % Span24 \in Int
    <2>1. PoolRewardsGrowthArraySize = Span24 /\ Span24 \in Int
      BY DEF PoolRewardsGrowthArraySize, Span24
    <2>2. \A t \in Initialized : TickIndex(t) = t % Span24 /\ t % Span24 \in Int
      BY TicksApart
    <2> QED
      BY <2>1, <2>2 DEF AngstromGlobalSlot, AngstromOutsideSlot
  <1>1. L = {wG} \cup {wO(t) : t \in Initialized} \cup {wP(r) : r \in Ranges}
    <2> DEFINE aO(t) == Whole(Plus(rewards, t % Span24), <<"outside", "reward", t>>)
    <2>1. L = {wG} \cup {aO(t) : t \in Initialized} \cup {wP(r) : r \in Ranges}
      BY <1>0 DEF Layout, AngstromCells,
         AngstromPositionSlot, AngstromPoolRewardsSlot, EncodePositionKey, PositionKey
    <2>2. \A t \in Initialized : aO(t) = wO(t)
      BY <1>0
    <2> HIDE DEF aO, wO, wG, wP, L
    <2> QED
      BY <2>1, <2>2
  <1>2. /\ G = [base |-> <<Root(7), Pool>>, off |-> Span24] 
        /\ \A t \in Initialized : O(t) = [base |-> <<Root(7), Pool>>, off |-> t % Span24]
    BY <1>0, MapSlotIs DEF AngstromPoolRewardsSlot
  <1>3. \A r : P(r).base = <<MapSlot(Pool, Root(6)), <<Manager, r[1], r[2], Token>>>>
    BY DEF AngstromPositionSlot, EncodePositionKey, MapSlot
  <1>4. MapSlot(Pool, Root(6)) # Root(7)
    BY MapNotRoot
  <1>5. /\ \A t, u \in Initialized : O(t) # G /\ (O(t) = O(u) => t = u)
        /\ \A r : P(r) # G /\ \A t \in Initialized : P(r) # O(t)
    <2>1. ASSUME NEW t \in Initialized, NEW u \in Initialized
          PROVE  O(t) # G /\ (O(t) = O(u) => t = u)
      <3>1. t % Span24 # Span24 /\ (t % Span24 = u % Span24 => t = u)
        BY TicksApart
      <3> QED
        BY <1>2, <3>1
    <2> HIDE DEF P
    <2>2. ASSUME NEW r PROVE P(r).base # <<Root(7), Pool>>
      BY <1>3, <1>4
    <2> QED
      BY <1>2, <2>1, <2>2
  <1>6. \A r, q \in Ranges : P(r) = P(q) => r = q
    <2>1. \A r, q \in Ranges : r[1] = q[1] /\ r[2] = q[2] => r = q
      BY DEF Ranges
    <2>2. ASSUME NEW r \in Ranges, NEW q \in Ranges, P(r) = P(q)
          PROVE  r[1] = q[1] /\ r[2] = q[2]
      <3> HIDE DEF P
      <3>1. <<MapSlot(Pool, Root(6)), <<Manager, r[1], r[2], Token>>>>
              = <<MapSlot(Pool, Root(6)), <<Manager, q[1], q[2], Token>>>>
        BY <1>3, <2>2
      <3> QED
        BY <3>1
    <2> QED
      BY <2>1, <2>2
  <1> HIDE DEF G, O, P
  <1>7. wG.slot = G /\ (\A t : wO(t).slot = O(t)) /\ (\A r : wP(r).slot = P(r))
    BY DEF Whole, Cell
  <1> HIDE DEF wG, wO, wP
  <1>8. \A c \in L : c.slot = G => c = wG
    BY <1>1, <1>5, <1>7
  <1>9. \A t \in Initialized : \A c \in L : c.slot = O(t) => c = wO(t)
    BY <1>1, <1>5, <1>7
  <1>10. \A r \in Ranges : \A c \in L : c.slot = P(r) => c = wP(r)
    BY <1>1, <1>5, <1>6, <1>7
  <1>11. wG \in L /\ (\A t \in Initialized : wO(t) \in L) /\ (\A r \in Ranges : wP(r) \in L)
    BY <1>1
  <1> HIDE DEF L
  <1> QED
    BY <1>8, <1>9, <1>10, <1>11 DEF Stored, wG, wO, wP, Whole, L, G, O, P

PushedSlot(n, i) == Plus(ArraySlot(Root(n)), 3 * (i - 1))

\* The first slot of a key of the array.
LEMMA PushedSlots ==
    ASSUME NEW n, NEW i \in Int
    PROVE  IsSlot(PushedSlot(n, i)) /\ PushedSlot(n, i).base = <<Root(n)>>
             /\ PushedSlot(n, i).off = 3 * (i - 1)
    BY DEF IsSlot, PushedSlot, ArraySlot, Plus

\* The settings, growth outside as a mapping, positions and the array of keys.
LEMMA AngstromL2Stored ==
    /\ Stored("AngstromL2", AngstromL2FeeConfigSlot, 0, <<"bool", "isInitialized">>)
    /\ Stored("AngstromL2", AngstromL2FeeConfigSlot, 1, <<"u24", "creatorTax">>)
    /\ Stored("AngstromL2", AngstromL2FeeConfigSlot, 4, <<"u24", "protocolTax">>)
    /\ Stored("AngstromL2", AngstromL2FeeConfigSlot, 7, <<"u24", "creatorSwap">>)
    /\ Stored("AngstromL2", AngstromL2FeeConfigSlot, 10, <<"u24", "protocolSwap">>)
    /\ Stored("AngstromL2", Root(8), 0, <<"whole">> \o <<"mevFactor">>)
    /\ Stored("AngstromL2", Root(9), 0, <<"whole">> \o <<"taxFloor">>)
    /\ Stored("AngstromL2", Root(10), 0, <<"bool", "jitEnabled">>)
    /\ Stored("AngstromL2", AngstromL2GlobalSlot, 0, <<"whole">> \o <<"global", "reward">>)
    /\ \A t \in Initialized :
          Stored("AngstromL2", AngstromL2OutsideSlot(t), 0, <<"whole">> \o <<"outside", "reward", t>>)
    /\ \A r \in Ranges :
          Stored("AngstromL2", AngstromL2PositionSlot(r[1], r[2]), 0, <<"whole">> \o <<"last0">>)
    /\ \A n \in {5, 6, 7} : Stored("AngstromL2", Root(n), 0, <<"whole">> \o <<"keys", n>>)
    /\ \A n \in {5, 6, 7}, i \in DOMAIN PoolKeys :
          KeyStoredAt("AngstromL2", PushedSlot(n, i), <<"pushed", i, n>>)
  <1> DEFINE L == Layout["AngstromL2"]
             R == AngstromL2PoolRewardsSlot
             C == AngstromL2FeeConfigSlot
             G == AngstromL2GlobalSlot
             O(t) == AngstromL2OutsideSlot(t)
             P(r) == AngstromL2PositionSlot(r[1], r[2])
             fixed ==
               {Cell(C, 0, <<"bool", "isInitialized">>), Cell(C, 1, <<"u24", "creatorTax">>),
                Cell(C, 4, <<"u24", "protocolTax">>), Cell(C, 7, <<"u24", "creatorSwap">>),
                Cell(C, 10, <<"u24", "protocolSwap">>),
                Whole(Root(8), <<"mevFactor">>), Whole(Root(9), <<"taxFloor">>),
                Cell(Root(10), 0, <<"bool", "jitEnabled">>), Whole(G, <<"global", "reward">>)}
             wO(t) == Whole(O(t), <<"outside", "reward", t>>)
             wP(r) == Whole(P(r), <<"last0">>)
             wK(n) == Whole(Root(n), <<"keys", n>>)
             K(n, i) == KeyCells(PushedSlot(n, i), <<"pushed", i, n>>)
  <1>1. L = fixed \cup {wO(t) : t \in Initialized} \cup {wP(r) : r \in Ranges}
              \cup {wK(n) : n \in {5, 6, 7}}
              \cup (UNION {K(n, i) : n \in {5, 6, 7}, i \in DOMAIN PoolKeys})
    BY DEF Layout, AngstromL2Cells, AngstromL2FeeConfigSlot, AngstromL2GlobalSlot,
       AngstromL2OutsideSlot, AngstromL2PositionSlot, AngstromL2PoolRewardsSlot, EncodePositionKey,
       PositionKey, PushedSlot
  <1>2. /\ C.base = <<Root(3), Pool>>
        /\ G.base = <<Root(1), Pool>>
        /\ \A t : O(t).base = <<Plus(R, 1), <<t>>>>
        /\ \A r : P(r).base = <<R, <<Manager, r[1], r[2], Token>>>>
    <2>1. \A k, s : MapSlot(k, s).base = <<s, k>>
      BY DEF MapSlot
    <2>2. G.base = <<Root(1), Pool>>
      BY MapSlotIs DEF AngstromL2GlobalSlot, AngstromL2PoolRewardsSlot
    <2> HIDE DEF R
    <2> QED
      BY <2>1, <2>2 DEF AngstromL2FeeConfigSlot, AngstromL2OutsideSlot, R,
         AngstromL2PositionSlot, EncodePositionKey
  <1>3. /\ \A m \in Int : Root(m) # R /\ Root(m) # Plus(R, 1)
        /\ Plus(R, 1) # R
        /\ Root(1) # Root(3)
    <2>1. R = Plus(R, 0)
      BY MapSlotIs DEF AngstromL2PoolRewardsSlot
    <2> QED
      BY <2>1, MapNotRoot, SlotsApart, RootsApart DEF AngstromL2PoolRewardsSlot
  <1> HIDE DEF R, C, G, O, P
  <1>4. /\ \A n : C # Root(n) /\ G # Root(n) /\ C # G
        /\ \A n, t : O(t) # Root(n) /\ O(t) # C /\ O(t) # G
        /\ \A n, r : P(r) # Root(n) /\ P(r) # C /\ P(r) # G
        /\ \A t, r : P(r) # O(t)
    <2>1. /\ C.base # <<>> /\ G.base # <<>> /\ C.base # G.base
      BY <1>2, <1>3
    <2>0. /\ Root(3) # R /\ Root(1) # R /\ Root(3) # Plus(R, 1) /\ Root(1) # Plus(R, 1)
          /\ C.base = <<Root(3), Pool>> /\ G.base = <<Root(1), Pool>>
      BY <1>2, <1>3
    <2>2. ASSUME NEW t PROVE O(t).base # <<>> /\ O(t).base # C.base /\ O(t).base # G.base
      <3>1. O(t).base = <<Plus(R, 1), <<t>>>>
        BY <1>2
      <3> QED
        BY <2>0, <3>1
    <2>3. ASSUME NEW r PROVE P(r).base # <<>> /\ P(r).base # C.base /\ P(r).base # G.base
      <3>1. P(r).base = <<R, <<Manager, r[1], r[2], Token>>>>
        BY <1>2
      <3> QED
        BY <2>0, <3>1
    <2>4. ASSUME NEW t, NEW r PROVE P(r).base # O(t).base
      BY <1>2, <1>3
    <2> QED
      BY <2>1, <2>2, <2>3, <2>4, RootsApart
  <1>5. \A t, u : O(t) = O(u) => t = u
    <2> SUFFICES ASSUME NEW t, NEW u, O(t) = O(u) PROVE t = u
      OBVIOUS
    <2>1. <<Plus(R, 1), <<t>>>> = <<Plus(R, 1), <<u>>>>
      BY <1>2
    <2> QED
      BY <2>1
  <1>6. \A r, q \in Ranges : P(r) = P(q) => r = q
    <2> SUFFICES ASSUME NEW r \in Ranges, NEW q \in Ranges, P(r) = P(q) PROVE r = q
      OBVIOUS
    <2>1. <<R, <<Manager, r[1], r[2], Token>>>> = <<R, <<Manager, q[1], q[2], Token>>>>
      BY <1>2
    <2> QED
      BY <2>1 DEF Ranges
  <1>19. ASSUME NEW n
         PROVE  /\ \A m : Root(m).base # <<Root(n)>>
                /\ C.base # <<Root(n)>> /\ G.base # <<Root(n)>>
                /\ \A t : O(t).base # <<Root(n)>>
                /\ \A r : P(r).base # <<Root(n)>>
    <2>1. C.base = <<Root(3), Pool>> /\ G.base = <<Root(1), Pool>>
      BY <1>2
    <2>2. ASSUME NEW t PROVE O(t).base # <<Root(n)>>
      <3>1. O(t).base = <<Plus(R, 1), <<t>>>>
        BY <1>2
      <3> QED
        BY <3>1
    <2>3. ASSUME NEW r PROVE P(r).base # <<Root(n)>>
      <3>1. P(r).base = <<R, <<Manager, r[1], r[2], Token>>>>
        BY <1>2
      <3> QED
        BY <3>1
    <2> QED
      BY <2>1, <2>2, <2>3, RootsApart
  <1>7. ASSUME NEW n \in {5, 6, 7}, NEW i \in DOMAIN PoolKeys, NEW c \in K(n, i)
        PROVE  /\ c.slot.base = <<Root(n)>>
               /\ c.slot.off \in {3 * (i - 1), 3 * (i - 1) + 1, 3 * (i - 1) + 2}
               /\ i \in Int
               /\ \A m : c.slot # Root(m) /\ c.slot # C /\ c.slot # G
               /\ \A t : c.slot # O(t)
               /\ \A r : c.slot # P(r)
    <2>1. i \in Int
      <3>1. \E S : PoolKeys \in Seq(S)
        BY FieldsAssumption, Zenon
      <3> QED
        BY <3>1
    <2>2. /\ c.slot.base = <<Root(n)>>
          /\ c.slot.off \in {3 * (i - 1), 3 * (i - 1) + 1, 3 * (i - 1) + 2}
      <3>1. /\ IsSlot(PushedSlot(n, i)) /\ PushedSlot(n, i).base = <<Root(n)>>
            /\ PushedSlot(n, i).off = 3 * (i - 1)
        BY <2>1, PushedSlots
      <3>2. c \in KeyCells(PushedSlot(n, i), <<"pushed", i, n>>)
        BY <1>7
      <3> HIDE DEF K
      <3> QED
        BY <3>1, <3>2, KeySlots
    <2> QED
      BY <2>1, <2>2, <1>19
  <1>17. /\ \A t : wO(t).slot = O(t)
         /\ \A r : wP(r).slot = P(r)
         /\ \A n : wK(n).slot = Root(n)
    BY DEF Whole, Cell
  <1>18. \A c \in fixed : c.slot \in {C, G, Root(8), Root(9), Root(10)}
    BY DEF Cell, Whole
  <1> HIDE DEF wO, wP, wK, K
  <1>8. ASSUME NEW c \in L
        PROVE  /\ c.slot = C \/ c.slot = G \/ c.slot = Root(8) \/ c.slot = Root(9)
                    \/ c.slot = Root(10) => c \in fixed
               /\ \A t \in Initialized : c.slot = O(t) => c = wO(t)
               /\ \A r \in Ranges : c.slot = P(r) => c = wP(r)
               /\ \A n \in {5, 6, 7} : c.slot = Root(n) => c = wK(n)
    <2>0. \A m, n \in Int : Root(m) = Root(n) => m = n
      BY RootsApart
    <2>1. CASE c \in fixed
      <3> HIDE DEF fixed
      <3> QED
        BY <2>0, <2>1, <1>18, <1>4
    <2>2. CASE \E t \in Initialized : c = wO(t)
      BY <2>2, <1>4, <1>5, <1>17
    <2>3. CASE \E r \in Ranges : c = wP(r)
      BY <2>3, <1>4, <1>6, <1>17
    <2>4. CASE \E n \in {5, 6, 7} : c = wK(n)
      BY <2>0, <2>4, <1>4, <1>17
    <2>5. CASE \E n \in {5, 6, 7}, i \in DOMAIN PoolKeys : c \in K(n, i)
      BY <2>5, <1>7
    <2> HIDE DEF fixed, wO, wP, wK, K
    <2> QED
      BY <1>1, <2>1, <2>2, <2>3, <2>4, <2>5
  <1>9. ASSUME NEW n \in {5, 6, 7}, NEW i \in DOMAIN PoolKeys, NEW c \in L,
               c.slot.base = <<Root(n)>>,
               c.slot.off \in {3 * (i - 1), 3 * (i - 1) + 1, 3 * (i - 1) + 2}
        PROVE  c \in K(n, i)
    <2>0. /\ \A m : Root(m).base # <<Root(n)>>
          /\ C.base # <<Root(n)>> /\ G.base # <<Root(n)>>
          /\ \A t : O(t).base # <<Root(n)>>
          /\ \A r : P(r).base # <<Root(n)>>
      BY <1>19
    <2>1. CASE c \in fixed
      <3> HIDE DEF fixed
      <3> QED
        BY <2>1, <1>9, <1>18, <2>0
    <2>2. CASE \E t \in Initialized : c = wO(t)
      BY <2>2, <1>9, <1>17, <2>0
    <2>3. CASE \E r \in Ranges : c = wP(r)
      BY <2>3, <1>9, <1>17, <2>0
    <2>4. CASE \E m \in {5, 6, 7} : c = wK(m)
      BY <2>4, <1>9, <1>17, <2>0
    <2>5. CASE \E m \in {5, 6, 7}, j \in DOMAIN PoolKeys : c \in K(m, j)
      <3>1. PICK m \in {5, 6, 7}, j \in DOMAIN PoolKeys : c \in K(m, j)
        BY <2>5
      <3> HIDE DEF K
      <3>2. /\ c.slot.base = <<Root(m)>> /\ j \in Int
            /\ c.slot.off \in {3 * (j - 1), 3 * (j - 1) + 1, 3 * (j - 1) + 2}
        BY <3>1, <1>7
      <3>3. Root(m) = Root(n)
        BY <3>2, <1>9
      <3>4. m = n
        BY <3>3, RootsApart
      <3>5. i \in Int
        <4>1. \E S : PoolKeys \in Seq(S)
          BY FieldsAssumption, Zenon
        <4> QED
          BY <4>1
      <3>6. i = j
        BY <3>2, <3>5, <1>9
      <3> QED
        BY <3>1, <3>4, <3>6
    <2> HIDE DEF fixed, wO, wP, wK, K
    <2> QED
      BY <1>1, <2>1, <2>2, <2>3, <2>4, <2>5
  <1>10. /\ fixed \subseteq L
         /\ \A t \in Initialized : wO(t) \in L
         /\ \A r \in Ranges : wP(r) \in L
         /\ \A n \in {5, 6, 7} : wK(n) \in L
         /\ \A n \in {5, 6, 7}, i \in DOMAIN PoolKeys : K(n, i) \subseteq L
    <2> HIDE DEF fixed, wO, wP, wK, K
    <2> QED
      BY <1>1
  <1> HIDE DEF L
  <1>11. /\ Root(8) # Root(9) /\ Root(8) # Root(10) /\ Root(9) # Root(10)
    BY RootsApart
  <1>12. /\ Stored("AngstromL2", C, 0, <<"bool", "isInitialized">>)
         /\ Stored("AngstromL2", C, 1, <<"u24", "creatorTax">>)
         /\ Stored("AngstromL2", C, 4, <<"u24", "protocolTax">>)
         /\ Stored("AngstromL2", C, 7, <<"u24", "creatorSwap">>)
         /\ Stored("AngstromL2", C, 10, <<"u24", "protocolSwap">>)
    <2>1. \A c \in L : c.slot = C =>
              c \in {Cell(C, 0, <<"bool", "isInitialized">>), Cell(C, 1, <<"u24", "creatorTax">>),
                    Cell(C, 4, <<"u24", "protocolTax">>), Cell(C, 7, <<"u24", "creatorSwap">>),
                    Cell(C, 10, <<"u24", "protocolSwap">>)}
      BY <1>4, <1>8 DEF Cell, Whole
    <2>2. {Cell(C, 0, <<"bool", "isInitialized">>), Cell(C, 1, <<"u24", "creatorTax">>),
           Cell(C, 4, <<"u24", "protocolTax">>), Cell(C, 7, <<"u24", "creatorSwap">>),
           Cell(C, 10, <<"u24", "protocolSwap">>)} \subseteq L
      BY <1>10
    <2> QED
      BY <2>1, <2>2 DEF Stored, Cell, Width, L
  <1>13. /\ Stored("AngstromL2", Root(8), 0, <<"whole">> \o <<"mevFactor">>)
         /\ Stored("AngstromL2", Root(9), 0, <<"whole">> \o <<"taxFloor">>)
    BY <1>4, <1>8, <1>10, <1>11 DEF Stored, Cell, Whole, Width, L
  <1>14. /\ Stored("AngstromL2", Root(10), 0, <<"bool", "jitEnabled">>)
         /\ Stored("AngstromL2", G, 0, <<"whole">> \o <<"global", "reward">>)
    BY <1>4, <1>8, <1>10, <1>11 DEF Stored, Cell, Whole, Width, L
  <1>15. /\ \A t \in Initialized : Stored("AngstromL2", O(t), 0, <<"whole">> \o <<"outside", "reward", t>>)
         /\ \A r \in Ranges : Stored("AngstromL2", P(r), 0, <<"whole">> \o <<"last0">>)
         /\ \A n \in {5, 6, 7} : Stored("AngstromL2", Root(n), 0, <<"whole">> \o <<"keys", n>>)
    BY <1>8, <1>10 DEF Stored, Whole, L, wO, wP, wK
  <1>16. ASSUME NEW n \in {5, 6, 7}, NEW i \in DOMAIN PoolKeys
         PROVE  KeyStoredAt("AngstromL2", PushedSlot(n, i), <<"pushed", i, n>>)
    <2>1. i \in Int
      <3>1. \E S : PoolKeys \in Seq(S)
        BY FieldsAssumption, Zenon
      <3> QED
        BY <3>1
    <2>2. IsSlot(PushedSlot(n, i)) /\ PushedSlot(n, i).base = <<Root(n)>>
             /\ PushedSlot(n, i).off = 3 * (i - 1)
      <3> HIDE DEF L
      <3> QED
        BY <2>1, PushedSlots
    <2> QED
      BY <1>9, <1>10, <2>2, KeyStored DEF L, K
  <1> QED
    BY <1>12, <1>13, <1>14, <1>15, <1>16 DEF C, G, O, P

VerifiedSlot == MapSlot(Hook, Root(3))
HookOfPoolSlot == MapSlot(Pool, Root(5))

\* The variables of the factory.
LEMMA FactoryStored ==
    /\ Stored("Factory", Root(0), 0, <<"bool", "withdrawOnly">>)
    /\ Stored("Factory", Root(0), 1, <<"u24", "swapMultiple">>)
    /\ Stored("Factory", Root(0), 4, <<"u24", "protocolTax">>)
    /\ Stored("Factory", Root(0), 7, <<"bool", "jitDefault">>)
    /\ Stored("Factory", Root(1), 0, <<"whole">> \o <<"mevFactor">>)
    /\ Stored("Factory", Root(2), 0, <<"whole">> \o <<"taxFloor">>)
    /\ Stored("Factory", Root(4), 0, <<"whole">> \o <<"hooks">>)
    /\ Sole("Factory", VerifiedSlot, 0, <<"bool", "verified">>)
    /\ Sole("Factory", HookOfPoolSlot, 0, <<"u160", "hookOfPool">>)
    /\ \A i \in DOMAIN Hooks : Stored("Factory", AllHooksSlot(i - 1), 0, <<"u160", "hook", i>>)
  <1> DEFINE L == Layout["Factory"]
             V == VerifiedSlot
             H == HookOfPoolSlot
             A(i) == AllHooksSlot(i - 1)
             fixed ==
               {Cell(Root(0), 0, <<"bool", "withdrawOnly">>),
                Cell(Root(0), 1, <<"u24", "swapMultiple">>),
                Cell(Root(0), 4, <<"u24", "protocolTax">>),
                Cell(Root(0), 7, <<"bool", "jitDefault">>),
                Whole(Root(1), <<"mevFactor">>), Whole(Root(2), <<"taxFloor">>),
                Cell(V, 0, <<"bool", "verified">>), Whole(Root(4), <<"hooks">>),
                Cell(H, 0, <<"u160", "hookOfPool">>)}
             wA(i) == Cell(A(i), 0, <<"u160", "hook", i>>)
  <1>1. L = fixed \cup {wA(i) : i \in DOMAIN Hooks}
    BY DEF Layout, FactoryCells, VerifiedSlot, HookOfPoolSlot, AllHooksSlot
  <1>2. \A i \in DOMAIN Hooks : i \in Int
    <2>1. \E S : Hooks \in Seq(S)
      BY FieldsAssumption, Zenon
    <2> QED
      BY <2>1
  <1>3. /\ V.base = <<Root(3), Hook>> /\ H.base = <<Root(5), Pool>>
        /\ \A i \in DOMAIN Hooks : A(i) = [base |-> <<Root(4)>>, off |-> i - 1]
    BY <1>2 DEF VerifiedSlot, HookOfPoolSlot, AllHooksSlot, MapSlot, ArraySlot, Plus
  <1>4. Root(3) # Root(5) /\ Root(0) # Root(1) /\ Root(0) # Root(2) /\ Root(0) # Root(4)
          /\ Root(1) # Root(2) /\ Root(1) # Root(4) /\ Root(2) # Root(4)
    BY RootsApart
  <1>5. /\ V # H /\ \A n : V # Root(n) /\ H # Root(n)
        /\ \A i \in DOMAIN Hooks : A(i) # V /\ A(i) # H /\ \A n : A(i) # Root(n)
        /\ \A i, j \in DOMAIN Hooks : A(i) = A(j) => i = j
    <2> HIDE DEF V, H, A
    <2>1. V.base # H.base /\ V.base # <<>> /\ H.base # <<>>
      BY <1>3, <1>4
    <2>2. \A i \in DOMAIN Hooks : A(i).base = <<Root(4)>>
      BY <1>3
    <2>3. V.base # <<Root(4)>> /\ H.base # <<Root(4)>>
      BY <1>3
    <2>4. ASSUME NEW i \in DOMAIN Hooks, NEW j \in DOMAIN Hooks, A(i) = A(j) PROVE i = j
      <3>1. [base |-> <<Root(4)>>, off |-> i - 1] = [base |-> <<Root(4)>>, off |-> j - 1]
        BY <1>3, <2>4
      <3>2. i - 1 = j - 1 /\ i \in Int /\ j \in Int
        BY <1>2, <3>1
      <3> QED
        BY <3>2
    <2> QED
      BY <2>1, <2>2, <2>3, <2>4, RootsApart
  <1> HIDE DEF V, H, A
  <1>6. \A i : wA(i).slot = A(i)
    BY DEF Cell
  <1>7. \A c \in fixed : c.slot \in {Root(0), Root(1), Root(2), Root(4), V, H}
    BY DEF Cell, Whole
  <1>8. /\ \A c \in L : c.slot \in {Root(0), Root(1), Root(2), Root(4), V, H} => c \in fixed
        /\ \A c \in L : \A i \in DOMAIN Hooks : c.slot = A(i) => c = wA(i)
        /\ fixed \subseteq L /\ \A i \in DOMAIN Hooks : wA(i) \in L
    <2> HIDE DEF fixed, wA, L
    <2> QED
      BY <1>1, <1>5, <1>6, <1>7
  <1>9. /\ Stored("Factory", Root(0), 0, <<"bool", "withdrawOnly">>)
        /\ Stored("Factory", Root(0), 1, <<"u24", "swapMultiple">>)
        /\ Stored("Factory", Root(0), 4, <<"u24", "protocolTax">>)
        /\ Stored("Factory", Root(0), 7, <<"bool", "jitDefault">>)
    <2> DEFINE four == {Cell(Root(0), 0, <<"bool", "withdrawOnly">>),
                        Cell(Root(0), 1, <<"u24", "swapMultiple">>),
                        Cell(Root(0), 4, <<"u24", "protocolTax">>),
                        Cell(Root(0), 7, <<"bool", "jitDefault">>)}
    <2>1. \A c \in L : c.slot = Root(0) => c \in four
      BY <1>4, <1>5, <1>8 DEF Cell, Whole
    <2>2. four \subseteq L
      BY <1>8
    <2> QED
      BY <2>1, <2>2 DEF Stored, Cell, Width, L
  <1>10. Stored("Factory", Root(1), 0, <<"whole">> \o <<"mevFactor">>)
    BY <1>4, <1>5, <1>8 DEF Stored, Cell, Whole, Width, L
  <1>11. Stored("Factory", Root(2), 0, <<"whole">> \o <<"taxFloor">>)
    BY <1>4, <1>5, <1>8 DEF Stored, Cell, Whole, Width, L
  <1>12. Stored("Factory", Root(4), 0, <<"whole">> \o <<"hooks">>)
    BY <1>4, <1>5, <1>8 DEF Stored, Cell, Whole, Width, L
  <1>13. Sole("Factory", V, 0, <<"bool", "verified">>)
    BY <1>5, <1>8 DEF Sole, Cell, Whole, Width, L
  <1>14. Sole("Factory", H, 0, <<"u160", "hookOfPool">>)
    BY <1>5, <1>8 DEF Sole, Cell, Whole, Width, L
  <1>15. \A i \in DOMAIN Hooks : Stored("Factory", A(i), 0, <<"u160", "hook", i>>)
    BY <1>8 DEF Stored, L
  <1> QED
    BY <1>9, <1>10, <1>11, <1>12, <1>13, <1>14, <1>15 DEF V, H, A

-------------------------------------------------------------------------------
(* Words: what is decoded from one is the variable.                        *)

\* The bytes of a variable that does not fill its word.
RawOf(w, var) ==
    IF var[1] \in {"u24", "i24", "bool"} THEN Encode(var[1], Value(w, var)) ELSE Value(w, var)

\* A variable that fills its word is the word.
LEMMA WordOfWhole ==
    ASSUME NEW w, NEW contract, NEW slot, NEW var, var[1] = "whole", Stored(contract, slot, 0, var)
    PROVE  Word(w, contract, slot) = Value(w, var)
  <1> DEFINE cells == {c \in Layout[contract] : c.slot = slot}
             cell == Cell(slot, 0, var)
  <1>0. cell.slot = slot /\ cell.var = var
    BY DEF Cell
  <1>1. cells = {cell}
    BY <1>0 DEF Stored
  <1>2. (CHOOSE c \in cells : TRUE) = cell
    BY <1>1
  <1>3. \E c \in cells : c.var[1] = "whole"
    BY <1>0, <1>1
  <1> HIDE DEF cells, cell
  <1> QED
    BY <1>0, <1>2, <1>3 DEF Word, cells

\* A byte of a packed variable, in the word of its slot.
LEMMA ByteOfWord ==
    ASSUME NEW w, NEW contract, NEW slot, NEW at \in Nat, NEW var, Stored(contract, slot, at, var),
           var[1] # "whole", Width[var[1]] \in Nat,
           NEW i \in 0 .. 31, at <= i, i < at + Width[var[1]]
    PROVE  Word(w, contract, slot)[i] = RawOf(w, var)[i - at]
  <1> DEFINE cells == {c \in Layout[contract] : c.slot = slot}
             cell == Cell(slot, at, var)
             here(c, j) == c.at <= j /\ j < c.at + Width[c.var[1]]
             raw(c) == IF c.var[1] = "whole" THEN Value(w, c.var)
                       ELSE IF c.var[1] \in {"u24", "i24", "bool"}
                            THEN Encode(c.var[1], Value(w, c.var)) ELSE Value(w, c.var)
  <1>1. cell.slot = slot /\ cell.at = at /\ cell.var = var
    BY DEF Cell
  <1>2. cell \in cells
    BY <1>1 DEF Stored
  <1>3. ASSUME NEW c \in cells, c # cell PROVE c.var[1] # "whole" /\ ~here(c, i)
    BY <1>3 DEF Stored
  <1>4. here(cell, i) /\ raw(cell) = RawOf(w, var)
    BY <1>1 DEF RawOf
  <1> HIDE DEF here, raw, cell, cells
  <1>5. (CHOOSE c \in cells : here(c, i)) = cell
    BY <1>2, <1>3, <1>4
  <1>6. ~ \E c \in cells : c.var[1] = "whole"
    BY <1>1, <1>3
  <1>7. Word(w, contract, slot) = [j \in 0 .. 31 |->
            IF \E c \in cells : here(c, j)
            THEN LET c == CHOOSE c \in cells : here(c, j) IN raw(c)[j - c.at]
            ELSE 0]
    BY <1>6 DEF Word, here, raw, cells
  <1> QED
    BY <1>1, <1>2, <1>4, <1>5, <1>7

-------------------------------------------------------------------------------
(* Decoding: from bytes back to numbers, flags and strings of bytes.       *)

\* Three bytes make the number again, of either type.
LEMMA BytesOfNumber ==
    ASSUME NEW v \in Int
    PROVE  LET raw == (v % 256) + 256 * ((v \div 256) % 256) + 65536 * ((v \div 65536) % 256) IN
           /\ v \in UInt24 => raw = v
           /\ v \in Int24 => raw = IF v < 0 THEN v + 16777216 ELSE v
  <1> DEFINE a == v % 256
             p == v \div 256
             b == p % 256
             q == p \div 256
             c == q % 256
             r == q \div 256
  <1>1. /\ v = 256 * p + a /\ p = 256 * q + b /\ q = 256 * r + c
        /\ p \in Int /\ q \in Int /\ r \in Int
        /\ a \in 0 .. 255 /\ b \in 0 .. 255 /\ c \in 0 .. 255
    OBVIOUS
  <1>2. v \div 65536 = q
    BY SMT
  <1> HIDE DEF a, b, c, p, q, r
  <1>3. v \in UInt24 => r = 0
    BY <1>1, SMT DEF UInt24, Span24
  <1>4. v \in Int24 => r = IF v < 0 THEN -1 ELSE 0
    BY <1>1, SMT DEF Int24
  <1>5. /\ v \in UInt24 => a + 256 * b + 65536 * c = v
        /\ v \in Int24 => a + 256 * b + 65536 * c = IF v < 0 THEN v + 16777216 ELSE v
    BY <1>1, <1>3, <1>4, SMT
  <1> QED
    BY <1>2, <1>5, SMT DEF a, b, c, p

\* The bytes of a variable, counted from its first.
LEMMA BytesOfWord ==
    ASSUME NEW w, NEW contract, NEW slot, NEW at \in Nat, NEW var, Stored(contract, slot, at, var),
           var[1] # "whole", NEW n \in Nat, Width[var[1]] = n, at + n <= 32
    PROVE  \A i \in 0 .. n - 1 : Word(w, contract, slot)[at + i] = RawOf(w, var)[i]
  <1> SUFFICES ASSUME NEW i \in 0 .. n - 1
               PROVE  Word(w, contract, slot)[at + i] = RawOf(w, var)[i]
    OBVIOUS
  <1>1. at + i \in 0 .. 31 /\ at <= at + i /\ at + i < at + n /\ at + i - at = i
    OBVIOUS
  <1>2. Word(w, contract, slot)[at + i] = RawOf(w, var)[at + i - at]
    BY <1>1, ByteOfWord
  <1> QED
    BY <1>1, <1>2

\* The three bytes of a number, wherever they are in the word.
LEMMA NumberBytes ==
    ASSUME NEW w, NEW contract, NEW slot, NEW at \in 0 .. 29, NEW var,
           Stored(contract, slot, at, var), var[1] \in {"u24", "i24"}, Value(w, var) \in Int
    PROVE  LET word == Word(w, contract, slot)
               v == Value(w, var) IN
           /\ word[at] = v % 256 /\ word[at + 1] = (v \div 256) % 256
           /\ word[at + 2] = (v \div 65536) % 256
  <1> DEFINE word == Word(w, contract, slot)
             v == Value(w, var)
  <1>1. Width[var[1]] = 3 /\ var[1] # "whole" /\ at + 3 <= 32 /\ at \in Nat
    BY DEF Width
  <1>2. \A i \in 0 .. 3 - 1 : word[at + i] = RawOf(w, var)[i]
    BY <1>1, BytesOfWord
  <1>3. RawOf(w, var) = [i \in 0 .. 2 |-> (v \div Power[i + 1]) % 256]
    BY DEF RawOf, Encode
  <1>4. Power[1] = 1 /\ Power[2] = 256 /\ Power[3] = 65536
    BY SMT DEF Power
  <1> HIDE DEF word, v
  <1>5. v \div 1 = v
    BY DEF v
  <1>6. RawOf(w, var)[0] = v % 256 /\ RawOf(w, var)[1] = (v \div 256) % 256
          /\ RawOf(w, var)[2] = (v \div 65536) % 256
    BY <1>3, <1>4, <1>5, SMT
  <1>7. word[at + 0] = v % 256 /\ word[at + 1] = (v \div 256) % 256
          /\ word[at + 2] = (v \div 65536) % 256
    BY <1>2, <1>6, SMT
  <1> QED
    BY <1>7, SMT DEF word, v

\* An unsigned number, wherever it is in the word.
LEMMA DecodeU24 ==
    ASSUME NEW w, NEW contract, NEW slot, NEW at \in 0 .. 29, NEW var,
           Stored(contract, slot, at, var), var[1] = "u24", Value(w, var) \in UInt24
    PROVE  U24At(Word(w, contract, slot), at) = Value(w, var)
  <1> DEFINE v == Value(w, var)
             word == Word(w, contract, slot)
  <1>1. v \in Int
    BY SMT DEF UInt24
  <1>2. word[at] = v % 256 /\ word[at + 1] = (v \div 256) % 256
          /\ word[at + 2] = (v \div 65536) % 256
    BY <1>1, NumberBytes
  <1> HIDE DEF v, word
  <1>3. U24At(word, at) = (v % 256) + 256 * ((v \div 256) % 256) + 65536 * ((v \div 65536) % 256)
    BY <1>2, SMT DEF U24At
  <1>4. (v % 256) + 256 * ((v \div 256) % 256) + 65536 * ((v \div 65536) % 256) = v
    BY <1>1, BytesOfNumber DEF v
  <1> QED
    BY <1>3, <1>4 DEF v, word

\* Signed numbers, whether the sign is shifted in or masked in.
LEMMA DecodeI24 ==
    ASSUME NEW w, NEW contract, NEW slot, NEW at \in 0 .. 29, NEW var,
           Stored(contract, slot, at, var), var[1] = "i24", Value(w, var) \in Int24
    PROVE  /\ I24At(Word(w, contract, slot), at) = Value(w, var)
           /\ at = 20 => V3Tick(Word(w, contract, slot)) = Value(w, var)
  <1> DEFINE v == Value(w, var)
             word == Word(w, contract, slot)
  <1>1. v \in Int
    BY SMT DEF Int24
  <1>2. word[at] = v % 256 /\ word[at + 1] = (v \div 256) % 256
          /\ word[at + 2] = (v \div 65536) % 256
    BY <1>1, NumberBytes
  <1> HIDE DEF word
  <1>3. U24At(word, at) = (v % 256) + 256 * ((v \div 256) % 256) + 65536 * ((v \div 65536) % 256)
    BY <1>2, SMT DEF U24At
  <1> HIDE DEF v
  <1>4. U24At(word, at) = IF v < 0 THEN v + 16777216 ELSE v
    BY <1>1, <1>3, BytesOfNumber, SMT DEF v
  <1>5. -8388608 <= v /\ v <= 8388607
    BY SMT DEF Int24, v
  <1>6. I24At(word, at) = v
    BY <1>1, <1>4, <1>5, SMT DEF I24At
  <1>7. at = 20 => V3Tick(word) = v
    BY <1>1, <1>4, <1>5, SMT DEF V3Tick
  <1> QED
    BY <1>6, <1>7 DEF v, word

\* A flag, wherever it is in the word.
LEMMA DecodeBool ==
    ASSUME NEW w, NEW contract, NEW slot, NEW at \in 0 .. 31, NEW var,
           Stored(contract, slot, at, var), var[1] = "bool", Value(w, var) \in BOOLEAN
    PROVE  /\ Word(w, contract, slot)[at] = IF Value(w, var) THEN 1 ELSE 0
           /\ BoolAt(Word(w, contract, slot), at) = Value(w, var)
  <1> DEFINE v == Value(w, var)
             word == Word(w, contract, slot)
  <1>1. Width[var[1]] = 1 /\ var[1] # "whole" /\ at + 1 <= 32 /\ at \in Nat
    BY DEF Width
  <1>2. \A i \in 0 .. 1 - 1 : word[at + i] = RawOf(w, var)[i]
    BY <1>1, BytesOfWord
  <1>3. word[at] = RawOf(w, var)[0]
    BY <1>1, <1>2
  <1>4. RawOf(w, var)[0] = IF v THEN 1 ELSE 0
    BY DEF RawOf, Encode
  <1> HIDE DEF v, word
  <1>5. word[at] = IF v THEN 1 ELSE 0
    BY <1>3, <1>4
  <1>6. BoolAt(word, at) = (word[at] # 0)
    BY DEF BoolAt
  <1>7. CASE v = TRUE
    <2>1. word[at] # 0
      BY <1>5, <1>7
    <2>2. BoolAt(word, at) = TRUE
      BY <1>6, <2>1
    <2> QED
      BY <1>5, <1>7, <2>2 DEF v, word
  <1>8. CASE v = FALSE
    <2>1. word[at] = 0
      BY <1>5, <1>8
    <2>2. BoolAt(word, at) = FALSE
      BY <1>6, <2>1
    <2> QED
      BY <1>5, <1>8, <2>2 DEF v, word
  <1> QED
    BY <1>7, <1>8 DEF v

\* The bytes of an opaque value.
LEMMA DecodeBytes ==
    ASSUME NEW w, NEW contract, NEW slot, NEW at \in Nat, NEW var,
           Stored(contract, slot, at, var), var[1] \in {"u128", "u160", "b25"},
           at + Width[var[1]] <= 32
    PROVE  Bytes(Word(w, contract, slot), at, Width[var[1]]) = Value(w, var)
  <1> DEFINE v == Value(w, var)
             word == Word(w, contract, slot)
             n == Width[var[1]]
  <1>1. n \in Nat /\ var[1] # "whole" /\ Width[var[1]] = n /\ at + n <= 32
    BY DEF Width
  <1>2. \A i \in 0 .. n - 1 : word[at + i] = RawOf(w, var)[i]
    <2> HIDE DEF n
    <2>1. \A i \in 0 .. n - 1 : Word(w, contract, slot)[at + i] = RawOf(w, var)[i]
      BY <1>1, BytesOfWord
    <2> QED
      BY <2>1
  <1>3. RawOf(w, var) = v
    BY DEF RawOf
  <1>4. \E x : v = Fill(x, n)
    BY DEF Value, Shown
  <1> HIDE DEF v, word, n
  <1>5. v = [i \in 0 .. n - 1 |-> v[i]]
    BY <1>4 DEF Fill
  <1>6. Bytes(word, at, n) = [i \in 0 .. n - 1 |-> v[i]]
    BY <1>2, <1>3 DEF Bytes
  <1> QED
    BY <1>5, <1>6 DEF v, word, n

\* The whole word of a variable that has it for itself: zero after its bytes.
LEMMA SoleWord ==
    ASSUME NEW w, NEW contract, NEW slot, NEW var, Sole(contract, slot, 0, var),
           var[1] # "whole", NEW n \in Nat, Width[var[1]] = n
    PROVE  /\ Word(w, contract, slot)
                = [i \in 0 .. 31 |-> IF i < n THEN RawOf(w, var)[i] ELSE 0]
           /\ Stored(contract, slot, 0, var)
  <1> DEFINE cells == {c \in Layout[contract] : c.slot = slot}
             cell == Cell(slot, 0, var)
             here(c, j) == c.at <= j /\ j < c.at + Width[c.var[1]]
             raw(c) == IF c.var[1] = "whole" THEN Value(w, c.var)
                       ELSE IF c.var[1] \in {"u24", "i24", "bool"}
                            THEN Encode(c.var[1], Value(w, c.var)) ELSE Value(w, c.var)
  <1>1. cell.slot = slot /\ cell.at = 0 /\ cell.var = var
    BY DEF Cell
  <1>2. cells = {cell}
    BY <1>1 DEF Sole
  <1>3. raw(cell) = RawOf(w, var)
    BY <1>1 DEF RawOf
  <1>4. \A i \in 0 .. 31 : here(cell, i) <=> i < n
    BY <1>1
  <1> HIDE DEF here, raw, cell, cells
  <1>5. ~ \E c \in cells : c.var[1] = "whole"
    BY <1>1, <1>2
  <1>6. Word(w, contract, slot) = [j \in 0 .. 31 |->
            IF \E c \in cells : here(c, j)
            THEN LET c == CHOOSE c \in cells : here(c, j) IN raw(c)[j - c.at]
            ELSE 0]
    BY <1>5 DEF Word, here, raw, cells
  <1>7. ASSUME NEW i \in 0 .. 31
        PROVE  (IF \E c \in cells : here(c, i)
                THEN LET c == CHOOSE c \in cells : here(c, i) IN raw(c)[i - c.at]
                ELSE 0) = IF i < n THEN RawOf(w, var)[i] ELSE 0
    <2>1. CASE i < n
      <3>1. \E c \in cells : here(c, i)
        BY <1>2, <1>4, <2>1
      <3>2. (CHOOSE c \in cells : here(c, i)) = cell
        BY <1>2, <1>4, <2>1
      <3>3. i - cell.at = i
        BY <1>1
      <3> QED
        BY <1>3, <2>1, <3>1, <3>2, <3>3
    <2>2. CASE ~(i < n)
      <3>1. ~ \E c \in cells : here(c, i)
        BY <1>2, <1>4, <2>2
      <3> QED
        BY <2>2, <3>1
    <2> QED
      BY <2>1, <2>2
  <1>8. Stored(contract, slot, 0, var)
    BY DEF Stored, Sole
  <1> QED
    BY <1>6, <1>7, <1>8

\* A flag alone in its word: is_verified_hook compares the word with zero.
LEMMA DecodeNonzero ==
    ASSUME NEW w, NEW contract, NEW slot, NEW var, Sole(contract, slot, 0, var),
           var[1] = "bool", Value(w, var) \in BOOLEAN
    PROVE  (Word(w, contract, slot) # ZeroWord) = Value(w, var)
  <1> DEFINE v == Value(w, var)
             word == Word(w, contract, slot)
  <1>1. /\ word = [i \in 0 .. 31 |-> IF i < 1 THEN RawOf(w, var)[i] ELSE 0]
        /\ RawOf(w, var)[0] = IF v THEN 1 ELSE 0
    <2>1. Width[var[1]] = 1 /\ var[1] # "whole"
      BY DEF Width
    <2>2. word = [i \in 0 .. 31 |-> IF i < 1 THEN RawOf(w, var)[i] ELSE 0]
      BY <2>1, SoleWord
    <2>3. RawOf(w, var) = [i \in 0 .. 0 |-> IF v THEN 1 ELSE 0]
      BY DEF RawOf, Encode
    <2> QED
      BY <2>2, <2>3
  <1>2. v = TRUE \/ v = FALSE
    OBVIOUS
  <1> HIDE DEF v, word
  <1>3. CASE v = TRUE
    <2>1. word[0] = 1 /\ ZeroWord[0] = 0
      BY <1>1, <1>3 DEF ZeroWord
    <2>2. (word # ZeroWord) = TRUE
      BY <2>1
    <2> QED
      BY <1>3, <2>2 DEF v, word
  <1>4. CASE v = FALSE
    <2>1. \A i \in 0 .. 31 : (IF i < 1 THEN RawOf(w, var)[i] ELSE 0) = 0
      BY <1>1, <1>4
    <2>2. word = ZeroWord
      BY <1>1, <2>1 DEF ZeroWord
    <2>3. (word # ZeroWord) = FALSE
      BY <2>2
    <2> QED
      BY <1>4, <2>3 DEF v, word
  <1> QED
    BY <1>2, <1>3, <1>4

\* An address alone in its word: none when the word is zero, and only then.
LEMMA DecodeOption ==
    ASSUME NEW w, NEW contract, NEW slot, Sole(contract, slot, 0, <<"u160", "hookOfPool">>),
           Field.hookOfPool[w.n] \in Nat
    PROVE  LET word == Word(w, contract, slot) IN
           (IF word = ZeroWord THEN <<>> ELSE <<Bytes(word, 0, 20)>>)
              = Value(w, <<"option", "hookOfPool">>)
  <1> DEFINE word == Word(w, contract, slot)
             var == <<"u160", "hookOfPool">>
             v == Field.hookOfPool[w.n]
  <1>1. /\ word = [i \in 0 .. 31 |-> IF i < 20 THEN RawOf(w, var)[i] ELSE 0]
        /\ Stored(contract, slot, 0, var)
    <2>1. Width[var[1]] = 20 /\ var[1] # "whole"
      BY DEF Width
    <2> HIDE DEF var, word
    <2>2. Sole(contract, slot, 0, var)
      BY DEF var
    <2> QED
      BY <2>1, <2>2, SoleWord DEF word
  <1>2. RawOf(w, var) = Fill(v, 20) /\ Value(w, var) = Fill(v, 20)
    BY DEF RawOf, Value, Shown, Width
  <1>3. Value(w, <<"option", "hookOfPool">>) = IF v = 0 THEN <<>> ELSE <<Fill(v, 20)>>
    BY DEF Value, Shown
  <1>4. Bytes(word, 0, 20) = Fill(v, 20)
    <2>1. Width[var[1]] = 20 /\ 0 + Width[var[1]] <= 32 /\ var[1] \in {"u128", "u160", "b25"}
      BY DEF Width
    <2> HIDE DEF word, var, v
    <2>2. Bytes(word, 0, Width[var[1]]) = Value(w, var)
      BY <1>1, <2>1, DecodeBytes DEF word
    <2> QED
      BY <1>2, <2>1, <2>2
  <1> HIDE DEF word
  <1>5. CASE v = 0
    <2>1. \A i \in 0 .. 31 : (IF i < 20 THEN RawOf(w, var)[i] ELSE 0) = 0
      BY <1>2, <1>5 DEF Fill
    <2>2. word = ZeroWord
      BY <1>1, <2>1 DEF ZeroWord
    <2> QED
      BY <1>3, <1>5, <2>2 DEF word
  <1>6. CASE v # 0
    <2> HIDE DEF v, var
    <2>1. word[0] = (v + 0) % 256 /\ word[1] = (v + 1) % 256
      BY <1>1, <1>2, <1>6 DEF Fill
    <2>2. ~((v + 0) % 256 = 0 /\ (v + 1) % 256 = 0)
      <3>1. v \in Int
        BY DEF v
      <3> QED
        BY <3>1
    <2>3. ZeroWord[0] = 0 /\ ZeroWord[1] = 0
      BY DEF ZeroWord
    <2>4. word # ZeroWord
      BY <2>1, <2>2, <2>3
    <2> QED
      BY <1>3, <1>4, <1>6, <2>4 DEF word
  <1> QED
    BY <1>5, <1>6

-------------------------------------------------------------------------------
(* The values there are, and the readers of one word, of several, and of the *)
(* two parts of pool_key_and_info.                                         *)

KeyRecords == [currency0 : Nat, currency1 : Nat, fee : UInt24, tickSpacing : Int24, hooks : Nat]

\* The variables of a world fit their types at every block of a chain.
LEMMA FieldsFit ==
    ASSUME WorldsInv, BlocksInv, NEW b \in DOMAIN chain
    PROVE  LET V(var) == Value(chain[b], var) IN
           /\ V(<<"i24", "tick">>) \in Int24
           /\ V(<<"i24", "lower">>) \in Int24 /\ V(<<"i24", "upper">>) \in Int24
           /\ V(<<"u24", "protocolFee">>) \in UInt24 /\ V(<<"u24", "lpFee">>) \in UInt24
           /\ V(<<"u24", "creatorTax">>) \in UInt24 /\ V(<<"u24", "protocolTax">>) \in UInt24
           /\ V(<<"u24", "creatorSwap">>) \in UInt24 /\ V(<<"u24", "protocolSwap">>) \in UInt24
           /\ V(<<"u24", "swapMultiple">>) \in UInt24
           /\ V(<<"bool", "initialized">>) \in BOOLEAN /\ V(<<"bool", "isInitialized">>) \in BOOLEAN
           /\ V(<<"bool", "jitEnabled">>) \in BOOLEAN /\ V(<<"bool", "jitDefault">>) \in BOOLEAN
           /\ V(<<"bool", "withdrawOnly">>) \in BOOLEAN /\ V(<<"bool", "verified">>) \in BOOLEAN
           /\ V(<<"whole", "totalTax">>)
                = V(<<"u24", "creatorTax">>) + V(<<"u24", "protocolTax">>)
           /\ V(<<"whole", "totalSwap">>)
                = V(<<"u24", "creatorSwap">>) + V(<<"u24", "protocolSwap">>)
           /\ V(<<"b25", "poolId">>) = Fill(Field.poolId[1], 25)
           /\ Field.hookOfPool[chain[b].n] \in Nat
  <1> DEFINE w == chain[b]
             V(var) == Value(w, var)
             F(f) == Field[f][w.n]
  <1>1. w.n \in 1 .. MaxBlocks /\ w.tick \in Int24
    <2>1. /\ w.n = b /\ w.tick \in PoolTicks /\ Len(chain) <= MaxBlocks
      BY DEF BlocksInv
    <2>2. b \in 1 .. Len(chain) /\ Len(chain) \in Nat
      <3> HIDE DEF World
      <3> QED
        BY DEF WorldsInv
    <2>3. w.n \in 1 .. MaxBlocks
      BY <2>1, <2>2, ContractsAssumption
    <2>4. w.tick \in Int24
      BY <2>1, TicksAssumption, Zenon
    <2> QED
      BY <2>3, <2>4
  <1>2. /\ \A f \in {"protocolFee", "lpFee", "creatorTax", "protocolTax", "creatorSwap",
                     "protocolSwap", "swapMultiple"} : F(f) \in UInt24
        /\ F("lower") \in Int24 /\ F("upper") \in Int24
        /\ \A f \in {"initialized", "isInitialized", "jitEnabled", "jitDefault",
                     "withdrawOnly", "verified"} : F(f) \in BOOLEAN
        /\ F("hookOfPool") \in Nat /\ F("poolId") = Field.poolId[1]
    BY <1>1, FieldsAssumption
  <1>3. /\ V(<<"i24", "tick">>) = w.tick
        /\ V(<<"i24", "lower">>) = F("lower") /\ V(<<"i24", "upper">>) = F("upper")
        /\ V(<<"u24", "protocolFee">>) = F("protocolFee") /\ V(<<"u24", "lpFee">>) = F("lpFee")
        /\ V(<<"u24", "creatorTax">>) = F("creatorTax")
        /\ V(<<"u24", "protocolTax">>) = F("protocolTax")
        /\ V(<<"u24", "creatorSwap">>) = F("creatorSwap")
        /\ V(<<"u24", "protocolSwap">>) = F("protocolSwap")
        /\ V(<<"u24", "swapMultiple">>) = F("swapMultiple")
    BY DEF Value, Shown
  <1>4. /\ V(<<"bool", "initialized">>) = F("initialized")
        /\ V(<<"bool", "isInitialized">>) = F("isInitialized")
        /\ V(<<"bool", "jitEnabled">>) = F("jitEnabled")
        /\ V(<<"bool", "jitDefault">>) = F("jitDefault")
        /\ V(<<"bool", "withdrawOnly">>) = F("withdrawOnly")
        /\ V(<<"bool", "verified">>) = F("verified")
    BY DEF Value, Shown
  <1>5. /\ V(<<"whole", "totalTax">>) = F("creatorTax") + F("protocolTax")
        /\ V(<<"whole", "totalSwap">>) = F("creatorSwap") + F("protocolSwap")
        /\ V(<<"b25", "poolId">>) = Fill(F("poolId"), 25)
    BY DEF Value, Shown, Width
  <1> HIDE DEF V, F
  <1>6. /\ V(<<"i24", "tick">>) \in Int24
        /\ V(<<"i24", "lower">>) \in Int24 /\ V(<<"i24", "upper">>) \in Int24
        /\ V(<<"u24", "protocolFee">>) \in UInt24 /\ V(<<"u24", "lpFee">>) \in UInt24
        /\ V(<<"u24", "creatorTax">>) \in UInt24 /\ V(<<"u24", "protocolTax">>) \in UInt24
        /\ V(<<"u24", "creatorSwap">>) \in UInt24 /\ V(<<"u24", "protocolSwap">>) \in UInt24
        /\ V(<<"u24", "swapMultiple">>) \in UInt24
    BY <1>1, <1>2, <1>3
  <1>7. /\ V(<<"bool", "initialized">>) \in BOOLEAN /\ V(<<"bool", "isInitialized">>) \in BOOLEAN
        /\ V(<<"bool", "jitEnabled">>) \in BOOLEAN /\ V(<<"bool", "jitDefault">>) \in BOOLEAN
        /\ V(<<"bool", "withdrawOnly">>) \in BOOLEAN /\ V(<<"bool", "verified">>) \in BOOLEAN
    BY <1>2, <1>4, Zenon
  <1>8. /\ V(<<"whole", "totalTax">>) = V(<<"u24", "creatorTax">>) + V(<<"u24", "protocolTax">>)
        /\ V(<<"whole", "totalSwap">>)
             = V(<<"u24", "creatorSwap">>) + V(<<"u24", "protocolSwap">>)
        /\ V(<<"b25", "poolId">>) = Fill(Field.poolId[1], 25)
    BY <1>2, <1>3, <1>5
  <1>9. Field.hookOfPool[w.n] \in Nat
    BY <1>2 DEF F
  <1> QED
    BY <1>6, <1>7, <1>8, <1>9 DEF V

\* The fields of a key, under the name the reader gives them and under that of
\* the cell.
LEMMA KeyValues ==
    ASSUME NEW w, NEW f
    PROVE  /\ Value(w, KeyVar(f, <<"key", 1>>)) = Shown(KeyTypes[f], PoolKeys[1][f])
           /\ Value(w, <<KeyTypes[f], "key", 1, f>>) = Shown(KeyTypes[f], PoolKeys[1][f])
           /\ KeyVar(f, <<"key", 1>>)[1] = KeyTypes[f]
  <1>1. /\ KeyVar(f, <<"key", 1>>)[1] = KeyTypes[f] /\ KeyVar(f, <<"key", 1>>)[2] = "key"
        /\ KeyVar(f, <<"key", 1>>)[3] = 1 /\ KeyVar(f, <<"key", 1>>)[4] = f
    BY DEF KeyVar
  <1>2. Value(w, KeyVar(f, <<"key", 1>>)) = Shown(KeyTypes[f], PoolKeys[1][f])
    <2> HIDE DEF KeyVar
    <2> QED
      BY <1>1 DEF Value
  <1>3. Value(w, <<KeyTypes[f], "key", 1, f>>) = Shown(KeyTypes[f], PoolKeys[1][f])
    BY DEF Value
  <1> QED
    BY <1>1, <1>2, <1>3

\* Those of a key that is in the array.
LEMMA PushedValues ==
    ASSUME NEW w, NEW f, NEW i, NEW n
    PROVE  LET var == KeyVar(f, <<"pushed", i, n>>) IN
           /\ var[1] = KeyTypes[f]
           /\ n = w.keysSlot /\ i <= w.keys => Value(w, var) = Shown(KeyTypes[f], PoolKeys[i][f])
  <1> DEFINE var == KeyVar(f, <<"pushed", i, n>>)
  <1>1. var[1] = KeyTypes[f] /\ var[2] = "pushed" /\ var[3] = i /\ var[4] = f /\ var[5] = n
    BY DEF KeyVar
  <1> HIDE DEF var
  <1>2. ASSUME n = w.keysSlot, i <= w.keys
        PROVE  Value(w, var) = Shown(KeyTypes[f], PoolKeys[i][f])
    BY <1>1, <1>2 DEF Value
  <1> QED
    BY <1>1, <1>2 DEF var

\* The three words of a key, each read at a block of its own.
LEMMA DecodeKey ==
    ASSUME NEW contract, NEW slot, NEW which, NEW key \in KeyRecords, NEW words,
           NEW w1, NEW w2, NEW w3, KeyStoredAt(contract, slot, which),
           words[1] = Word(w1, contract, slot), words[2] = Word(w2, contract, Plus(slot, 1)),
           words[3] = Word(w3, contract, Plus(slot, 2)),
           \A f : KeyVar(f, which)[1] = KeyTypes[f],
           \A w \in {w1, w2, w3} : \A f :
               Value(w, KeyVar(f, which)) = Shown(KeyTypes[f], key[f])
    PROVE  DecodePoolKey(words) = KeyTuple(key)
  <1> DEFINE var(f) == KeyVar(f, which)
  <1>1. /\ key.fee \in UInt24 /\ key.tickSpacing \in Int24
    BY DEF KeyRecords
  <1>2. /\ KeyTypes["currency0"] = "u160" /\ KeyTypes["currency1"] = "u160"
        /\ KeyTypes["fee"] = "u24" /\ KeyTypes["tickSpacing"] = "i24" /\ KeyTypes["hooks"] = "u160"
    BY DEF KeyTypes
  <1>3. Width["u160"] = 20
    BY DEF Width
  <1>4. Shown("u24", key.fee) = key.fee /\ Shown("i24", key.tickSpacing) = key.tickSpacing
    BY DEF Shown
  <1>5. /\ Stored(contract, slot, 0, var("currency0"))
        /\ Stored(contract, Plus(slot, 1), 0, var("currency1"))
        /\ Stored(contract, Plus(slot, 1), 20, var("fee"))
        /\ Stored(contract, Plus(slot, 1), 23, var("tickSpacing"))
        /\ Stored(contract, Plus(slot, 2), 0, var("hooks"))
    BY DEF KeyStoredAt
  <1>6. \A f : var(f)[1] = KeyTypes[f]
    OBVIOUS
  <1>7. \A w \in {w1, w2, w3} : \A f : Value(w, var(f)) = Shown(KeyTypes[f], key[f])
    OBVIOUS
  <1> HIDE DEF var
  <1>8. Bytes(words[1], 0, 20) = Shown("u160", key.currency0)
    BY <1>2, <1>3, <1>5, <1>6, <1>7, DecodeBytes
  <1>9. Bytes(words[2], 0, 20) = Shown("u160", key.currency1)
    BY <1>2, <1>3, <1>5, <1>6, <1>7, DecodeBytes
  <1>10. Bytes(words[3], 0, 20) = Shown("u160", key.hooks)
    BY <1>2, <1>3, <1>5, <1>6, <1>7, DecodeBytes
  <1>11. U24At(words[2], 20) = key.fee
    <2>1. Value(w2, var("fee")) = key.fee /\ 20 \in 0 .. 29
      BY <1>2, <1>4, <1>7
    <2> QED
      BY <1>1, <1>2, <1>5, <1>6, <2>1, DecodeU24
  <1>12. I24At(words[2], 23) = key.tickSpacing
    <2>1. Value(w2, var("tickSpacing")) = key.tickSpacing /\ 23 \in 0 .. 29
      BY <1>2, <1>4, <1>7
    <2> QED
      BY <1>1, <1>2, <1>5, <1>6, <2>1, DecodeI24
  <1>13. KeyTuple(key) = <<Shown("u160", key.currency0), Shown("u160", key.currency1),
                           Shown("u24", key.fee), Shown("i24", key.tickSpacing),
                           Shown("u160", key.hooks)>>
    BY <1>2 DEF KeyTuple, KeyFields
  <1> QED
    BY <1>4, <1>8, <1>9, <1>10, <1>11, <1>12, <1>13 DEF DecodePoolKey

\* A variable that fills its word, under the name the readers give it.
LEMMA WholeNames ==
    /\ \A x : <<"whole">> \o <<x>> = <<"whole", x>>
    /\ \A x, y : <<"whole">> \o <<x, y>> = <<"whole", x, y>>
    /\ \A x, y, z : <<"whole">> \o <<x, y, z>> = <<"whole", x, y, z>>
  <1>1. ASSUME NEW x PROVE <<"whole">> \o <<x>> = <<"whole", x>>
    <2> DEFINE r == <<"whole">> \o <<x>>
    <2>1. r \in Seq({"whole", x}) /\ Len(r) = 2 /\ r[1] = "whole" /\ r[2] = x
      OBVIOUS
    <2> HIDE DEF r
    <2>2. r = <<r[1], r[2]>>
      BY <2>1
    <2> QED
      BY <2>1, <2>2 DEF r
  <1>2. ASSUME NEW x, NEW y PROVE <<"whole">> \o <<x, y>> = <<"whole", x, y>>
    <2> DEFINE r == <<"whole">> \o <<x, y>>
    <2>1. r \in Seq({"whole", x, y}) /\ Len(r) = 3 /\ r[1] = "whole" /\ r[2] = x /\ r[3] = y
      OBVIOUS
    <2> HIDE DEF r
    <2>2. r = <<r[1], r[2], r[3]>>
      BY <2>1
    <2> QED
      BY <2>1, <2>2 DEF r
  <1>3. ASSUME NEW x, NEW y, NEW z PROVE <<"whole">> \o <<x, y, z>> = <<"whole", x, y, z>>
    <2> DEFINE r == <<"whole">> \o <<x, y, z>>
    <2>1. r \in Seq({"whole", x, y, z}) /\ Len(r) = 4
            /\ r[1] = "whole" /\ r[2] = x /\ r[3] = y /\ r[4] = z
      OBVIOUS
    <2> HIDE DEF r
    <2>2. r = <<r[1], r[2], r[3], r[4]>>
      BY <2>1
    <2> QED
      BY <2>1, <2>2 DEF r
  <1> QED
    BY <1>1, <1>2, <1>3

\* A reader is told the truth of a world when each component of what it decodes
\* is what its variable holds there.
TrueAt(c, w) ==
    /\ Len(Decode(c)) = Len(c.of)
    /\ \A i \in DOMAIN c.of : Decode(c)[i] = Value(w, c.of[i])

\* The readers of one word that is a variable.
LEMMA OneWord ==
    ASSUME NEW w, NEW on, NEW slot, NEW var, var[1] = "whole", Stored(on, slot, 0, var),
           got[1] = Word(w, on, slot)
    PROVE  TrueAt(Single(on, slot, "words", var), w)
  <1> DEFINE c == Single(on, slot, "words", var)
  <1>1. c.as = "words" /\ c.slots = <<slot>> /\ c.of = <<var>>
    BY DEF Single, Reader
  <1>2. Decode(c) = [i \in DOMAIN c.slots |-> got[i]]
    BY <1>1 DEF Decode
  <1>3. got[1] = Value(w, var)
    BY WordOfWhole
  <1> HIDE DEF c
  <1>4. Decode(c) = <<got[1]>>
    BY <1>1, <1>2
  <1> QED
    BY <1>1, <1>3, <1>4 DEF TrueAt, c

\* The readers of several words that are variables, each of a block of its own.
LEMMA SomeWords ==
    ASSUME NEW c, c.as = "words", NEW n \in Nat, DOMAIN c.slots = 1 .. n, DOMAIN c.of = 1 .. n,
           Len(c.of) = n,
           \A i \in 1 .. n : c.of[i][1] = "whole" /\ Stored(c.on, c.slots[i], 0, c.of[i])
    PROVE  /\ Len(Decode(c)) = Len(c.of)
           /\ \A i \in DOMAIN c.of : \A w :
                got[i] = Word(w, c.on, c.slots[i]) => Decode(c)[i] = Value(w, c.of[i])
  <1>1. Decode(c) = [i \in 1 .. n |-> got[i]]
    BY DEF Decode
  <1>2. ASSUME NEW i \in DOMAIN c.of, NEW w, got[i] = Word(w, c.on, c.slots[i])
        PROVE  Decode(c)[i] = Value(w, c.of[i])
    BY <1>1, <1>2, WordOfWhole
  <1> QED
    BY <1>1, <1>2

\* The low bytes of a word.
LEMMA LowBytes ==
    ASSUME NEW w, NEW on, NEW slot, NEW as, NEW type, NEW var, var[1] = type,
           \/ as = "low128" /\ type = "u128"
           \/ as = "low160" /\ type = "u160",
           Stored(on, slot, 0, var), got[1] = Word(w, on, slot)
    PROVE  TrueAt(Single(on, slot, as, var), w)
  <1> DEFINE c == Single(on, slot, as, var)
             n == Width[type]
  <1>1. c.as = as /\ c.slots = <<slot>> /\ c.of = <<var>>
    BY DEF Single, Reader
  <1>2. /\ \/ as = "low128" /\ type = "u128" /\ n = 16
           \/ as = "low160" /\ type = "u160" /\ n = 20
        /\ 0 + n <= 32
    <2>1. CASE as = "low128" /\ type = "u128"
      BY <2>1 DEF Width
    <2>2. CASE as = "low160" /\ type = "u160"
      BY <2>2 DEF Width
    <2> QED
      BY <2>1, <2>2
  <1> HIDE DEF c
  <1>3. Bytes(got[1], 0, n) = Value(w, var)
    <2>1. var[1] \in {"u128", "u160", "b25"} /\ Width[var[1]] = n /\ 0 + Width[var[1]] <= 32
      BY <1>2
    <2>2. Bytes(Word(w, on, slot), 0, Width[var[1]]) = Value(w, var)
      BY <2>1, DecodeBytes
    <2> QED
      BY <2>1, <2>2
  <1>4. Decode(c) = <<Bytes(got[1], 0, n)>>
    <2>1. CASE as = "low128" /\ n = 16
      <3>1. Decode(c) = <<Bytes(got[1], 0, 16)>>
        BY <1>1, <2>1 DEF Decode
      <3> QED
        BY <2>1, <3>1
    <2>2. CASE as = "low160" /\ n = 20
      <3>1. Decode(c) = <<Bytes(got[1], 0, 20)>>
        BY <1>1, <2>2 DEF Decode
      <3> QED
        BY <2>2, <3>1
    <2> QED
      BY <1>2, <2>1, <2>2
  <1> HIDE DEF n
  <1> QED
    BY <1>1, <1>3, <1>4 DEF TrueAt, c

\* The liquidity of a pool, whose word is returned as it is.
LEMMA LiquidityWord ==
    ASSUME NEW w, got[1] = Word(w, "PoolManager", Plus(PoolStateSlot, 3))
    PROVE  TrueAt(PoolLiquidity, w)
  <1> DEFINE slot == Plus(PoolStateSlot, 3)
             var == <<"u128", "liquidity">>
             v == Field["liquidity"][w.n]
             c == PoolLiquidity
  <1>1. /\ c.as = "words" /\ c.slots = <<slot>>
        /\ c.of = <<<<"word128", "liquidity">>>>
    BY DEF PoolLiquidity, Single, Reader
  <1>2. Decode(c) = [i \in DOMAIN c.slots |-> got[i]]
    BY <1>1 DEF Decode
  <1>3. Value(w, <<"word128", "liquidity">>)
          = [i \in 0 .. 31 |-> IF i < 16 THEN Fill(v, 16)[i] ELSE 0]
    BY DEF Value, Shown
  <1>4. RawOf(w, var) = Fill(v, 16)
    BY DEF RawOf, Value, Shown, Width
  <1>5. Word(w, "PoolManager", slot)
          = [i \in 0 .. 31 |-> IF i < 16 THEN RawOf(w, var)[i] ELSE 0]
    <2>1. Sole("PoolManager", slot, 0, var)
      BY PoolManagerStored
    <2>2. Width[var[1]] = 16 /\ var[1] # "whole"
      BY DEF Width
    <2> HIDE DEF slot, var
    <2> QED
      BY <2>1, <2>2, SoleWord
  <1> HIDE DEF c, v, var, slot
  <1>6. Decode(c) = <<got[1]>>
    BY <1>1, <1>2
  <1>7. got[1] = Value(w, <<"word128", "liquidity">>)
    BY <1>3, <1>4, <1>5 DEF slot
  <1> QED
    BY <1>1, <1>6, <1>7 DEF TrueAt, c

\* The fee configuration of a pool, decoded as a whole and for the total rates.
LEMMA FeeConfigDecodes ==
    ASSUME WorldsInv, BlocksInv, NEW b \in DOMAIN chain, NEW x,
           x = Word(chain[b], "AngstromL2", AngstromL2FeeConfigSlot)
    PROVE  LET V(var) == Value(chain[b], var) IN
           FeeConfiguration(x) = <<V(<<"bool", "isInitialized">>), V(<<"u24", "creatorTax">>),
                                   V(<<"u24", "protocolTax">>), V(<<"u24", "creatorSwap">>),
                                   V(<<"u24", "protocolSwap">>)>>
  <1> DEFINE w == chain[b]
             V(var) == Value(w, var)
             flag == V(<<"bool", "isInitialized">>)
  <1> HIDE DEF w
  <1>1. (x[0] % 2 = 1) = flag
    <2>1. x[0] = (IF flag THEN 1 ELSE 0) /\ flag \in BOOLEAN
      BY AngstromL2Stored, DecodeBool, FieldsFit DEF w
    <2> HIDE DEF flag
    <2>2. CASE flag = TRUE
      <3>1. (x[0] % 2 = 1) = TRUE
        BY <2>1, <2>2
      <3> QED
        BY <2>2, <3>1
    <2>3. CASE flag = FALSE
      <3>1. (x[0] % 2 = 1) = FALSE
        BY <2>1, <2>3
      <3> QED
        BY <2>3, <3>1
    <2> QED
      BY <2>1, <2>2, <2>3
  <1>2. U24At(x, 1) = V(<<"u24", "creatorTax">>)
    BY AngstromL2Stored, DecodeU24, FieldsFit DEF w
  <1>3. U24At(x, 4) = V(<<"u24", "protocolTax">>)
    BY AngstromL2Stored, DecodeU24, FieldsFit DEF w
  <1>4. U24At(x, 7) = V(<<"u24", "creatorSwap">>)
    BY AngstromL2Stored, DecodeU24, FieldsFit DEF w
  <1>5. U24At(x, 10) = V(<<"u24", "protocolSwap">>)
    BY AngstromL2Stored, DecodeU24, FieldsFit DEF w
  <1>6. FeeConfiguration(x)
          = <<x[0] % 2 = 1, U24At(x, 1), U24At(x, 4), U24At(x, 7), U24At(x, 10)>>
    BY DEF FeeConfiguration
  <1> HIDE DEF V
  <1>7. FeeConfiguration(x) = <<flag, V(<<"u24", "creatorTax">>),
                                V(<<"u24", "protocolTax">>), V(<<"u24", "creatorSwap">>),
                                V(<<"u24", "protocolSwap">>)>>
    BY <1>1, <1>2, <1>3, <1>4, <1>5, <1>6
  <1> QED
    BY <1>7 DEF V, w

\* The readers of several variables in one word.
LEMMA PackedWords ==
    ASSUME WorldsInv, BlocksInv, NEW b \in DOMAIN chain
    PROVE  LET w == chain[b] IN
           /\ got[1] = Word(w, "PoolManager", PoolStateSlot) => TrueAt(PoolSlot0, w)
           /\ got[1] = Word(w, "AngstromL2", AngstromL2FeeConfigSlot)
                => TrueAt(AngstromL2PoolFeeConfig, w)
           /\ got[1] = Word(w, "Factory", Root(0)) => TrueAt(GetFactorySlot0, w)
  <1> DEFINE w == chain[b]
             V(var) == Value(w, var)
             x == got[1]
  <1>1. ASSUME x = Word(w, "PoolManager", PoolStateSlot) PROVE TrueAt(PoolSlot0, w)
    <2>1. /\ PoolSlot0.as = "slot0"
          /\ PoolSlot0.of = <<<<"u160", "sqrtPrice">>, <<"i24", "tick">>,
                              <<"u24", "protocolFee">>, <<"u24", "lpFee">>>>
      BY DEF PoolSlot0, Reader
    <2>2. Decode(PoolSlot0) = <<Bytes(x, 0, 20), I24At(x, 20), U24At(x, 23), U24At(x, 26)>>
      BY <2>1 DEF Decode, UnpackSlot0
    <2> HIDE DEF x, w
    <2>3. Bytes(x, 0, 20) = V(<<"u160", "sqrtPrice">>)
      BY <1>1, PoolManagerStored, DecodeBytes DEF Width
    <2>4. I24At(x, 20) = V(<<"i24", "tick">>)
      BY <1>1, PoolManagerStored, DecodeI24, FieldsFit DEF w
    <2>5. U24At(x, 23) = V(<<"u24", "protocolFee">>)
      BY <1>1, PoolManagerStored, DecodeU24, FieldsFit DEF w
    <2>6. U24At(x, 26) = V(<<"u24", "lpFee">>)
      BY <1>1, PoolManagerStored, DecodeU24, FieldsFit DEF w
    <2> HIDE DEF V
    <2>7. Decode(PoolSlot0) = <<V(<<"u160", "sqrtPrice">>), V(<<"i24", "tick">>),
                                V(<<"u24", "protocolFee">>), V(<<"u24", "lpFee">>)>>
      BY <2>2, <2>3, <2>4, <2>5, <2>6
    <2> QED
      BY <2>1, <2>7 DEF TrueAt, V
  <1>2. ASSUME x = Word(w, "AngstromL2", AngstromL2FeeConfigSlot)
        PROVE  TrueAt(AngstromL2PoolFeeConfig, w)
    <2> DEFINE c == AngstromL2PoolFeeConfig
    <2>1. /\ c.as = "feeConfig"
          /\ c.of = <<<<"bool", "isInitialized">>, <<"u24", "creatorTax">>,
                      <<"u24", "protocolTax">>, <<"u24", "creatorSwap">>,
                      <<"u24", "protocolSwap">>>>
      BY DEF AngstromL2PoolFeeConfig, Reader
    <2>2. Decode(c) = FeeConfiguration(x)
      BY <2>1 DEF Decode
    <2>3. FeeConfiguration(x) = <<V(<<"bool", "isInitialized">>), V(<<"u24", "creatorTax">>),
                                  V(<<"u24", "protocolTax">>), V(<<"u24", "creatorSwap">>),
                                  V(<<"u24", "protocolSwap">>)>>
      BY <1>2, FeeConfigDecodes
    <2> HIDE DEF V, c
    <2> QED
      BY <2>1, <2>2, <2>3 DEF TrueAt, V, c
  <1>3. ASSUME x = Word(w, "Factory", Root(0)) PROVE TrueAt(GetFactorySlot0, w)
    <2> DEFINE c == GetFactorySlot0
    <2>1. /\ c.as = "factorySlot0"
          /\ c.of = <<<<"bool", "withdrawOnly">>, <<"u24", "swapMultiple">>,
                      <<"u24", "protocolTax">>, <<"bool", "jitDefault">>>>
      BY DEF GetFactorySlot0, Reader
    <2>2. Decode(c) = <<BoolAt(x, 0), U24At(x, 1), U24At(x, 4), BoolAt(x, 7)>>
      BY <2>1 DEF Decode, FactorySlot0
    <2> HIDE DEF x, w, c
    <2>3. BoolAt(x, 0) = V(<<"bool", "withdrawOnly">>)
      BY <1>3, FactoryStored, DecodeBool, FieldsFit DEF w
    <2>4. U24At(x, 1) = V(<<"u24", "swapMultiple">>)
      BY <1>3, FactoryStored, DecodeU24, FieldsFit DEF w
    <2>5. U24At(x, 4) = V(<<"u24", "protocolTax">>)
      BY <1>3, FactoryStored, DecodeU24, FieldsFit DEF w
    <2>6. BoolAt(x, 7) = V(<<"bool", "jitDefault">>)
      BY <1>3, FactoryStored, DecodeBool, FieldsFit DEF w
    <2> HIDE DEF V
    <2>7. Decode(c) = <<V(<<"bool", "withdrawOnly">>), V(<<"u24", "swapMultiple">>),
                        V(<<"u24", "protocolTax">>), V(<<"bool", "jitDefault">>)>>
      BY <2>2, <2>3, <2>4, <2>5, <2>6
    <2> QED
      BY <2>1, <2>7 DEF TrueAt, V, c
  <1> QED
    BY <1>1, <1>2, <1>3

\* The words of a reader are there, each of a block of W; what it decodes them
\* to is what the variables held at blocks of W.
ReadIn(c, W) ==
    \A j \in DOMAIN c.slots : \E b \in W : got[j] = Word(chain[b], c.on, c.slots[j])
Told(c, W) ==
    /\ Len(Decode(c)) = Len(c.of)
    /\ \A i \in DOMAIN c.of : \E b \in W : Decode(c)[i] = Value(chain[b], c.of[i])

\* A reader of one word.
LEMMA OneSlot ==
    ASSUME NEW c, NEW W, ReadIn(c, W), 1 \in DOMAIN c.slots,
           \A b \in W : got[1] = Word(chain[b], c.on, c.slots[1]) => TrueAt(c, chain[b])
    PROVE  Told(c, W)
  <1>1. PICK b \in W : got[1] = Word(chain[b], c.on, c.slots[1])
    BY DEF ReadIn
  <1>2. TrueAt(c, chain[b])
    BY <1>1
  <1> QED
    BY <1>2 DEF Told, TrueAt

\* What Single makes.
LEMMA SingleIs ==
    ASSUME NEW on, NEW slot, NEW as, NEW of
    PROVE  LET c == Single(on, slot, as, of) IN
           /\ c.on = on /\ c.slots = <<slot>> /\ c.as = as /\ c.of = <<of>>
           /\ 1 \in DOMAIN c.slots /\ c.slots[1] = slot
    BY DEF Single, Reader

\* A reader of one word that is a variable.
LEMMA OneWordTold ==
    ASSUME NEW on, NEW slot, NEW var, var[1] = "whole", Stored(on, slot, 0, var),
           NEW W, ReadIn(Single(on, slot, "words", var), W)
    PROVE  Told(Single(on, slot, "words", var), W)
  <1> DEFINE c == Single(on, slot, "words", var)
  <1>1. c.on = on /\ 1 \in DOMAIN c.slots /\ c.slots[1] = slot
    BY SingleIs
  <1>2. \A b \in W : got[1] = Word(chain[b], c.on, c.slots[1]) => TrueAt(c, chain[b])
    BY <1>1, OneWord
  <1> HIDE DEF c
  <1>3. ReadIn(c, W)
    BY DEF c
  <1> QED
    BY <1>1, <1>2, <1>3, OneSlot DEF c

\* A reader of the low bytes of a word.
LEMMA LowBytesTold ==
    ASSUME NEW on, NEW slot, NEW as, NEW type, NEW var, var[1] = type,
           \/ as = "low128" /\ type = "u128"
           \/ as = "low160" /\ type = "u160",
           Stored(on, slot, 0, var), NEW W, ReadIn(Single(on, slot, as, var), W)
    PROVE  Told(Single(on, slot, as, var), W)
  <1> DEFINE c == Single(on, slot, as, var)
  <1>1. c.on = on /\ 1 \in DOMAIN c.slots /\ c.slots[1] = slot
    BY DEF Single, Reader
  <1>2. \A b \in W : got[1] = Word(chain[b], c.on, c.slots[1]) => TrueAt(c, chain[b])
    BY <1>1, LowBytes
  <1> HIDE DEF c
  <1>3. ReadIn(c, W)
    BY DEF c
  <1> QED
    BY <1>1, <1>2, <1>3, OneSlot DEF c

\* A reader of a word that is returned as it is.
LEMMA LiquidityTold ==
    ASSUME NEW W, ReadIn(PoolLiquidity, W)
    PROVE  Told(PoolLiquidity, W)
  <1>1. /\ PoolLiquidity.on = "PoolManager" /\ 1 \in DOMAIN PoolLiquidity.slots
        /\ PoolLiquidity.slots[1] = Plus(PoolStateSlot, 3)
    BY SingleIs DEF PoolLiquidity
  <1>2. \A b \in W : got[1] = Word(chain[b], "PoolManager", Plus(PoolStateSlot, 3))
                      => TrueAt(PoolLiquidity, chain[b])
    BY LiquidityWord
  <1> QED
    BY <1>1, <1>2, OneSlot

\* The readers of one variable whose decoder is more than a cut.
LEMMA DecodedWords ==
    ASSUME WorldsInv, BlocksInv, NEW b \in DOMAIN chain
    PROVE  LET w == chain[b]
               isInitialized == AngstromL2IsPoolInitialized
               totalSwap == Single("AngstromL2", AngstromL2FeeConfigSlot, "totalSwap",
                                   <<"whole", "totalSwap">>)
               totalTax  == Single("AngstromL2", AngstromL2FeeConfigSlot, "totalTax",
                                   <<"whole", "totalTax">>)
               jit == Single("AngstromL2", Root(10), "bool", <<"bool", "jitEnabled">>)
           IN
           /\ got[1] = Word(w, "AngstromL2", AngstromL2FeeConfigSlot) =>
                TrueAt(isInitialized, w) /\ TrueAt(totalSwap, w) /\ TrueAt(totalTax, w)
           /\ got[1] = Word(w, "AngstromL2", Root(10)) => TrueAt(jit, w)
           /\ got[1] = Word(w, "V3Pool", Root(0)) => TrueAt(V3CurrentTick, w)
           /\ got[1] = Word(w, "Factory", VerifiedSlot) => TrueAt(IsVerifiedHook, w)
           /\ got[1] = Word(w, "Factory", HookOfPoolSlot) => TrueAt(HookAddressForPoolId, w)
  <1> DEFINE w == chain[b]
             V(var) == Value(w, var)
             x == got[1]
             isInitialized == AngstromL2IsPoolInitialized
             totalSwap == Single("AngstromL2", AngstromL2FeeConfigSlot, "totalSwap",
                                 <<"whole", "totalSwap">>)
             totalTax  == Single("AngstromL2", AngstromL2FeeConfigSlot, "totalTax",
                                 <<"whole", "totalTax">>)
             jit == Single("AngstromL2", Root(10), "bool", <<"bool", "jitEnabled">>)
  <1>1. ASSUME NEW c, NEW of, c.of = <<of>>, Decode(c) = <<V(of)>>
        PROVE  TrueAt(c, w)
    BY <1>1 DEF TrueAt
  <1>2. ASSUME x = Word(w, "AngstromL2", AngstromL2FeeConfigSlot)
        PROVE  TrueAt(isInitialized, w) /\ TrueAt(totalSwap, w) /\ TrueAt(totalTax, w)
    <2>1. FeeConfiguration(x) = <<V(<<"bool", "isInitialized">>), V(<<"u24", "creatorTax">>),
                                  V(<<"u24", "protocolTax">>), V(<<"u24", "creatorSwap">>),
                                  V(<<"u24", "protocolSwap">>)>>
      BY <1>2, FeeConfigDecodes
    <2> HIDE DEF V, x, w
    <2>2. /\ FeeConfiguration(x)[1] = V(<<"bool", "isInitialized">>)
          /\ FeeConfiguration(x)[2] = V(<<"u24", "creatorTax">>)
          /\ FeeConfiguration(x)[3] = V(<<"u24", "protocolTax">>)
          /\ FeeConfiguration(x)[4] = V(<<"u24", "creatorSwap">>)
          /\ FeeConfiguration(x)[5] = V(<<"u24", "protocolSwap">>)
      BY <2>1
    <2>3. V(<<"whole", "totalTax">>) = FeeConfiguration(x)[2] + FeeConfiguration(x)[3]
            /\ V(<<"whole", "totalSwap">>) = FeeConfiguration(x)[4] + FeeConfiguration(x)[5]
      BY <2>2, FieldsFit DEF V, w
    <2>4. isInitialized.as = "isInitialized" /\ isInitialized.of = <<<<"bool", "isInitialized">>>>
      BY SingleIs DEF AngstromL2IsPoolInitialized
    <2>5. totalSwap.as = "totalSwap" /\ totalSwap.of = <<<<"whole", "totalSwap">>>>
      BY SingleIs
    <2>6. totalTax.as = "totalTax" /\ totalTax.of = <<<<"whole", "totalTax">>>>
      BY SingleIs
    <2> HIDE DEF isInitialized, totalSwap, totalTax
    <2>7. Decode(isInitialized) = <<V(<<"bool", "isInitialized">>)>>
      BY <2>2, <2>4 DEF Decode, x
    <2>8. Decode(totalSwap) = <<V(<<"whole", "totalSwap">>)>>
      BY <2>3, <2>5 DEF Decode, x
    <2>9. Decode(totalTax) = <<V(<<"whole", "totalTax">>)>>
      BY <2>3, <2>6 DEF Decode, x
    <2> QED
      BY <1>1, <2>4, <2>5, <2>6, <2>7, <2>8, <2>9
  <1>3. ASSUME x = Word(w, "AngstromL2", Root(10)) PROVE TrueAt(jit, w)
    <2>1. jit.as = "bool" /\ jit.of = <<<<"bool", "jitEnabled">>>>
      BY SingleIs
    <2> HIDE DEF jit, w
    <2>2. BoolAt(x, 0) = V(<<"bool", "jitEnabled">>)
      BY <1>3, AngstromL2Stored, DecodeBool, FieldsFit DEF w
    <2> HIDE DEF V
    <2>3. Decode(jit) = <<V(<<"bool", "jitEnabled">>)>>
      BY <2>1, <2>2 DEF Decode
    <2> QED
      BY <1>1, <2>1, <2>3
  <1>4. ASSUME x = Word(w, "V3Pool", Root(0)) PROVE TrueAt(V3CurrentTick, w)
    <2>1. V3CurrentTick.as = "v3Tick" /\ V3CurrentTick.of = <<<<"i24", "tick">>>>
      BY SingleIs DEF V3CurrentTick
    <2> HIDE DEF w
    <2>2. V3Tick(x) = V(<<"i24", "tick">>)
      BY <1>4, V3PoolStored, DecodeI24, FieldsFit DEF w
    <2> HIDE DEF V
    <2>3. Decode(V3CurrentTick) = <<V(<<"i24", "tick">>)>>
      BY <2>1, <2>2 DEF Decode
    <2> QED
      BY <1>1, <2>1, <2>3
  <1>5. ASSUME x = Word(w, "Factory", VerifiedSlot) PROVE TrueAt(IsVerifiedHook, w)
    <2>1. IsVerifiedHook.as = "nonzero" /\ IsVerifiedHook.of = <<<<"bool", "verified">>>>
      BY SingleIs DEF IsVerifiedHook
    <2> HIDE DEF w
    <2>2. (x # ZeroWord) = V(<<"bool", "verified">>)
      BY <1>5, FactoryStored, DecodeNonzero, FieldsFit DEF w
    <2> HIDE DEF V
    <2>3. Decode(IsVerifiedHook) = <<x # ZeroWord>>
      BY <2>1 DEF Decode
    <2>4. Decode(IsVerifiedHook) = <<V(<<"bool", "verified">>)>>
      BY <2>2, <2>3
    <2> QED
      BY <1>1, <2>1, <2>4
  <1>6. ASSUME x = Word(w, "Factory", HookOfPoolSlot) PROVE TrueAt(HookAddressForPoolId, w)
    <2>1. HookAddressForPoolId.as = "option"
            /\ HookAddressForPoolId.of = <<<<"option", "hookOfPool">>>>
      BY SingleIs DEF HookAddressForPoolId
    <2> HIDE DEF w
    <2>2. (IF x = ZeroWord THEN <<>> ELSE <<Bytes(x, 0, 20)>>) = V(<<"option", "hookOfPool">>)
      <3>1. Field.hookOfPool[w.n] \in Nat
        BY FieldsFit DEF w
      <3> QED
        BY <1>6, <3>1, FactoryStored, DecodeOption
    <2> HIDE DEF V
    <2>3. Decode(HookAddressForPoolId)
            = <<IF x = ZeroWord THEN <<>> ELSE <<Bytes(x, 0, 20)>>>>
      BY <2>1 DEF Decode
    <2>4. Decode(HookAddressForPoolId) = <<V(<<"option", "hookOfPool">>)>>
      BY <2>2, <2>3
    <2> QED
      BY <1>1, <2>1, <2>4
  <1> QED
    BY <1>2, <1>3, <1>4, <1>5, <1>6

\* The names of two variables that fill their words.
LEMMA WordsOfTwo ==
    ASSUME NEW x, NEW y
    PROVE  Words(<<x, y>>) = <<<<"whole">> \o x, <<"whole">> \o y>>
  BY DEF Words

\* The readers of two words that are variables.
LEMMA TwoWords ==
    ASSUME NEW c, c.as = "words", NEW u, NEW v, NEW x, NEW y,
           c.slots = <<u, v>>, c.of = <<x, y>>, x[1] = "whole", y[1] = "whole",
           Stored(c.on, u, 0, x), Stored(c.on, v, 0, y), NEW W, ReadIn(c, W)
    PROVE  Told(c, W)
  <1>1. /\ DOMAIN c.slots = 1 .. 2 /\ DOMAIN c.of = 1 .. 2 /\ Len(c.of) = 2
        /\ c.slots[1] = u /\ c.slots[2] = v /\ c.of[1] = x /\ c.of[2] = y
    OBVIOUS
  <1>2. \A i \in 1 .. 2 : c.of[i][1] = "whole" /\ Stored(c.on, c.slots[i], 0, c.of[i])
    BY <1>1
  <1>3. /\ Len(Decode(c)) = Len(c.of)
        /\ \A i \in DOMAIN c.of : \A w :
             got[i] = Word(w, c.on, c.slots[i]) => Decode(c)[i] = Value(w, c.of[i])
    BY <1>1, <1>2, SomeWords
  <1>4. \A i \in DOMAIN c.of : \E b \in W : got[i] = Word(chain[b], c.on, c.slots[i])
    BY <1>1 DEF ReadIn
  <1> QED
    BY <1>3, <1>4 DEF Told

\* The type of a variable that fills its word.
LEMMA WholeFirst ==
    /\ \A x : (<<"whole">> \o <<x>>)[1] = "whole"
    /\ \A x, y : (<<"whole">> \o <<x, y>>)[1] = "whole"
    /\ \A x, y, z : (<<"whole">> \o <<x, y, z>>)[1] = "whole"
  OBVIOUS

\* The readers of a tick.
LEMMA TickTold ==
    ASSUME WorldsInv, BlocksInv, NEW t \in Initialized, NEW c \in ReadersOfTick(t),
           NEW W \in SUBSET DOMAIN chain, ReadIn(c, W)
    PROVE  Told(c, W)
  <1>1. CASE c = TickFeeGrowthOutside(t)
    <2> DEFINE u == Plus(PoolTickSlot(t), 1)
               v == Plus(PoolTickSlot(t), 2)
               x == <<"outside", "fee0", t>>
               y == <<"outside", "fee1", t>>
               p == <<"whole">> \o x
               q == <<"whole">> \o y
    <2>1. c = Reader("PoolManager", <<u, v>>, "words", Words(<<x, y>>))
      BY <1>1 DEF TickFeeGrowthOutside, TickFeeGrowthOutsideSlots
    <2>2. Stored("PoolManager", u, 0, p) /\ Stored("PoolManager", v, 0, q)
      BY TickStored
    <2>3. p[1] = "whole" /\ q[1] = "whole"
      BY WholeFirst
    <2>4. c.on = "PoolManager" /\ c.as = "words" /\ c.slots = <<u, v>> /\ c.of = <<p, q>>
      <3> HIDE DEF x, y, u, v
      <3>1. Words(<<x, y>>) = <<p, q>>
        BY WordsOfTwo, Zenon
      <3> QED
        BY <2>1, <3>1 DEF Reader
    <2> HIDE DEF u, v, p, q
    <2> QED
      BY <2>2, <2>3, <2>4, TwoWords
  <1>2. CASE c = ReadV3TickData(t)
    <2> DEFINE slot == V3TickSlot(t)
               p == <<"whole">> \o <<"outside", "fee0", t>>
               q == <<"whole">> \o <<"outside", "fee1", t>>
    <2>1. /\ c.as = "v3TickData" /\ c.on = "V3Pool"
          /\ c.slots = [i \in 1 .. 4 |-> Plus(slot, i - 1)]
          /\ c.of = <<<<"bool", "initialized">>, <<"u128", "net">>, <<"u128", "gross">>,
                      <<"whole", "outside", "fee0", t>>, <<"whole", "outside", "fee1", t>>>>
      BY <1>2 DEF ReadV3TickData, Reader
    <2>2. p = <<"whole", "outside", "fee0", t>> /\ q = <<"whole", "outside", "fee1", t>>
      BY WholeNames
    <2>3. Decode(c) = V3TickData(got)
      BY <2>1 DEF Decode
    <2>4. /\ Stored("V3Pool", Plus(slot, 0), 0, <<"u128", "gross">>)
          /\ Stored("V3Pool", Plus(slot, 0), 16, <<"u128", "net">>)
          /\ Stored("V3Pool", Plus(slot, 1), 0, p) /\ Stored("V3Pool", Plus(slot, 2), 0, q)
          /\ Stored("V3Pool", Plus(slot, 3), 31, <<"bool", "initialized">>)
      BY V3PoolStored DEF V3TickStoredAt
    <2> HIDE DEF slot, p, q
    <2>5. /\ c.slots[1] = Plus(slot, 0) /\ c.slots[2] = Plus(slot, 1)
          /\ c.slots[3] = Plus(slot, 2) /\ c.slots[4] = Plus(slot, 3)
          /\ DOMAIN c.slots = 1 .. 4
      BY <2>1
    <2>6. PICK b1 \in W : got[1] = Word(chain[b1], "V3Pool", Plus(slot, 0))
      BY <2>1, <2>5 DEF ReadIn
    <2>7. PICK b2 \in W : got[2] = Word(chain[b2], "V3Pool", Plus(slot, 1))
      BY <2>1, <2>5 DEF ReadIn
    <2>8. PICK b3 \in W : got[3] = Word(chain[b3], "V3Pool", Plus(slot, 2))
      BY <2>1, <2>5 DEF ReadIn
    <2>9. PICK b4 \in W : got[4] = Word(chain[b4], "V3Pool", Plus(slot, 3))
      BY <2>1, <2>5 DEF ReadIn
    <2>10. BoolAt(got[4], 31) = Value(chain[b4], <<"bool", "initialized">>)
      <3>1. Value(chain[b4], <<"bool", "initialized">>) \in BOOLEAN
        BY FieldsFit
      <3> QED
        BY <2>4, <2>9, <3>1, DecodeBool
    <2>11. Bytes(got[1], 16, 16) = Value(chain[b1], <<"u128", "net">>)
      <3>1. Width["u128"] = 16
        BY DEF Width
      <3> QED
        BY <2>4, <2>6, <3>1, DecodeBytes
    <2>12. Bytes(got[1], 0, 16) = Value(chain[b1], <<"u128", "gross">>)
      <3>1. Width["u128"] = 16
        BY DEF Width
      <3> QED
        BY <2>4, <2>6, <3>1, DecodeBytes
    <2>13. got[2] = Value(chain[b2], p) /\ got[3] = Value(chain[b3], q)
      <3>1. p[1] = "whole" /\ q[1] = "whole"
        BY <2>2
      <3> QED
        BY <2>4, <2>7, <2>8, <3>1, WordOfWhole
    <2>14. /\ Len(Decode(c)) = 5 /\ Len(c.of) = 5 /\ DOMAIN c.of = 1 .. 5
           /\ Decode(c)[1] = BoolAt(got[4], 31) /\ Decode(c)[2] = Bytes(got[1], 16, 16)
           /\ Decode(c)[3] = Bytes(got[1], 0, 16) /\ Decode(c)[4] = got[2]
           /\ Decode(c)[5] = got[3]
           /\ c.of[1] = <<"bool", "initialized">> /\ c.of[2] = <<"u128", "net">>
           /\ c.of[3] = <<"u128", "gross">> /\ c.of[4] = p /\ c.of[5] = q
      BY <2>1, <2>2, <2>3 DEF V3TickData
    <2>15. \A i \in 1 .. 5 : \E b \in W : Decode(c)[i] = Value(chain[b], c.of[i])
      <3>1. \A i \in 1 .. 5 : i = 1 \/ i = 2 \/ i = 3 \/ i = 4 \/ i = 5
        OBVIOUS
      <3> QED
        BY <2>10, <2>11, <2>12, <2>13, <2>14, <3>1
    <2> QED
      BY <2>14, <2>15 DEF Told
  <1>3. CASE c = AngstromTickGrowthOutside(t)
    <2> DEFINE p == <<"whole">> \o <<"outside", "reward", t>>
    <2>1. p = <<"whole", "outside", "reward", t>> /\ p[1] = "whole"
      BY WholeNames
    <2>2. Stored("Angstrom", AngstromOutsideSlot(t), 0, p)
      BY AngstromStored
    <2> HIDE DEF p
    <2>3. c = Single("Angstrom", AngstromOutsideSlot(t), "words", p)
      BY <1>3, <2>1 DEF AngstromTickGrowthOutside
    <2> QED
      BY <2>1, <2>2, <2>3, OneWordTold
  <1>4. CASE c = AngstromL2TickGrowthOutside(t)
    <2> DEFINE p == <<"whole">> \o <<"outside", "reward", t>>
    <2>1. p = <<"whole", "outside", "reward", t>> /\ p[1] = "whole"
      BY WholeNames
    <2>2. Stored("AngstromL2", AngstromL2OutsideSlot(t), 0, p)
      BY AngstromL2Stored
    <2> HIDE DEF p
    <2>3. c = Single("AngstromL2", AngstromL2OutsideSlot(t), "words", p)
      BY <1>4, <2>1 DEF AngstromL2TickGrowthOutside
    <2> QED
      BY <2>1, <2>2, <2>3, OneWordTold
  <1> QED
    BY <1>1, <1>2, <1>3, <1>4 DEF ReadersOfTick

\* The readers of a position.
LEMMA PositionTold ==
    ASSUME NEW r \in Ranges, NEW c \in ReadersOfPosition(r[1], r[2]), NEW W, ReadIn(c, W)
    PROVE  Told(c, W)
  <1>1. CASE c = PositionLastFeeGrowthInside(r[1], r[2])
    <2> DEFINE slot == PositionStateSlot(r[1], r[2])
               u == Plus(slot, 1)
               v == Plus(slot, 2)
               x == <<"last0">>
               y == <<"last1">>
               p == <<"whole">> \o x
               q == <<"whole">> \o y
    <2>1. c = Reader("PoolManager", <<u, v>>, "words", Words(<<x, y>>))
      BY <1>1 DEF PositionLastFeeGrowthInside
    <2>2. Stored("PoolManager", u, 0, p) /\ Stored("PoolManager", v, 0, q)
      BY PositionStored
    <2>3. p[1] = "whole" /\ q[1] = "whole"
      BY WholeFirst
    <2>4. c.on = "PoolManager" /\ c.as = "words" /\ c.slots = <<u, v>> /\ c.of = <<p, q>>
      <3> HIDE DEF x, y, u, v
      <3>1. Words(<<x, y>>) = <<p, q>>
        BY WordsOfTwo, Zenon
      <3> QED
        BY <2>1, <3>1 DEF Reader
    <2> HIDE DEF u, v, p, q
    <2> QED
      BY <2>2, <2>3, <2>4, TwoWords
  <1>2. CASE c = PositionLiquidity(r[1], r[2])
    <2>1. Stored("PoolManager", PositionStateSlot(r[1], r[2]), 0, <<"u128", "posLiquidity">>)
      BY PositionStored
    <2> QED
      BY <1>2, <2>1, LowBytesTold DEF PositionLiquidity
  <1>3. CASE c = AngstromLastGrowthInside(r[1], r[2])
    <2> DEFINE p == <<"whole">> \o <<"last0">>
    <2>1. p = <<"whole", "last0">> /\ p[1] = "whole"
      BY WholeNames
    <2>2. Stored("Angstrom", AngstromPositionSlot(r[1], r[2]), 0, p)
      BY AngstromStored
    <2> HIDE DEF p
    <2>3. c = Single("Angstrom", AngstromPositionSlot(r[1], r[2]), "words", p)
      BY <1>3, <2>1 DEF AngstromLastGrowthInside
    <2> QED
      BY <2>1, <2>2, <2>3, OneWordTold
  <1>4. CASE c = AngstromL2LastGrowthInside(r[1], r[2])
    <2> DEFINE p == <<"whole">> \o <<"last0">>
    <2>1. p = <<"whole", "last0">> /\ p[1] = "whole"
      BY WholeNames
    <2>2. Stored("AngstromL2", AngstromL2PositionSlot(r[1], r[2]), 0, p)
      BY AngstromL2Stored
    <2> HIDE DEF p
    <2>3. c = Single("AngstromL2", AngstromL2PositionSlot(r[1], r[2]), "words", p)
      BY <1>4, <2>1 DEF AngstromL2LastGrowthInside
    <2> QED
      BY <2>1, <2>2, <2>3, OneWordTold
  <1> QED
    BY <1>1, <1>2, <1>3, <1>4 DEF ReadersOfPosition

\* There is a first key.
LEMMA FirstKey == PoolKeys[1] \in KeyRecords
  <1>1. PoolKeys \in Seq(KeyRecords) /\ PoolKeys # <<>>
    BY FieldsAssumption DEF KeyRecords
  <1> HIDE DEF KeyRecords
  <1> QED
    BY <1>1

\* Joining five things and two.
LEMMA FiveAndTwo ==
    ASSUME NEW S, NEW s \in Seq(S), Len(s) = 5, NEW T, NEW t \in Seq(T), Len(t) = 2
    PROVE  /\ Len(s \o t) = 7 /\ DOMAIN (s \o t) = 1 .. 7
           /\ (s \o t)[6] = t[1] /\ (s \o t)[7] = t[2]
           /\ \A i \in 1 .. 5 : (s \o t)[i] = s[i]
  <1> DEFINE U == S \cup T
  <1>1. s \in Seq(U) /\ t \in Seq(U)
    OBVIOUS
  <1> HIDE DEF U
  <1>2. /\ s \o t \in Seq(U)
        /\ Len(s \o t) = Len(s) + Len(t)
        /\ \A i \in 1 .. Len(s) + Len(t) :
             (s \o t)[i] = IF i <= Len(s) THEN s[i] ELSE t[i - Len(s)]
    BY <1>1, ConcatProperties, Zenon
  <1>3. s \o t \in Seq(U) /\ Len(s \o t) = 7
    BY <1>2
  <1>4. DOMAIN (s \o t) = 1 .. 7
    BY <1>3
  <1>5. \A i \in 1 .. 7 : (s \o t)[i] = IF i <= 5 THEN s[i] ELSE t[i - 5]
    <2>1. Len(s) = 5 /\ Len(s) + Len(t) = 7
      OBVIOUS
    <2> QED
      BY <1>2, <2>1, Zenon
  <1> QED
    BY <1>3, <1>4, <1>5

\* The second part of pool_key_and_info: the mapping is read at the id that the
\* first part's word has, and the ticks are those of that word.
LEMMA KeyAndInfoTold ==
    ASSUME WorldsInv, BlocksInv, NEW W \in SUBSET DOMAIN chain, NEW b \in W, NEW x,
           x = Word(chain[b], "PositionManager", PositionInfoSlot(Token)),
           ReadIn(PoolKeyOfInfo(x), W)
    PROVE  Told(PoolKeyOfInfo(x), W)
  <1> DEFINE c == PoolKeyOfInfo(x)
             w == chain[b]
             id == Fill(Field.poolId[1], 25)
             base == MapSlot(id, Root(10))
             names == [i \in 1 .. 5 |-> <<KeyTypes[KeyFields[i]], "key", 1, KeyFields[i]>>]
  <1>1. PositionManagerPoolMapKey(x) = id
    <2>1. Value(w, <<"b25", "poolId">>) = id
      BY FieldsFit
    <2>2. Width["b25"] = 25
      BY DEF Width
    <2> QED
      BY <2>1, <2>2, PositionManagerStored, DecodeBytes DEF PositionManagerPoolMapKey
  <1>2. UnpackPositionInfo(x) = <<Value(w, <<"i24", "lower">>), Value(w, <<"i24", "upper">>)>>
    <2>1. /\ I24At(x, 1) = Value(w, <<"i24", "lower">>)
          /\ I24At(x, 4) = Value(w, <<"i24", "upper">>)
      BY PositionManagerStored, DecodeI24, FieldsFit
    <2> HIDE DEF w
    <2> QED
      BY <2>1 DEF UnpackPositionInfo
  <1>3. /\ c.on = "PositionManager" /\ c.slots = <<base, Plus(base, 1), Plus(base, 2)>>
        /\ c.as = "keyAndInfo" /\ c.arg = UnpackPositionInfo(x)
        /\ c.of = names \o <<<<"i24", "lower">>, <<"i24", "upper">>>>
    BY <1>1 DEF PoolKeyOfInfo, Reader
  <1> HIDE DEF c
  <1>4. PICK b1 \in W : got[1] = Word(chain[b1], "PositionManager", base)
    BY <1>3 DEF ReadIn, c
  <1>5. PICK b2 \in W : got[2] = Word(chain[b2], "PositionManager", Plus(base, 1))
    BY <1>3 DEF ReadIn, c
  <1>6. PICK b3 \in W : got[3] = Word(chain[b3], "PositionManager", Plus(base, 2))
    BY <1>3 DEF ReadIn, c
  <1>7. DecodePoolKey(got) = KeyTuple(PoolKeys[1])
    <2>1. KeyStoredAt("PositionManager", base, <<"key", 1>>)
      BY PositionManagerStored
    <2>2. PoolKeys[1] \in KeyRecords
      BY FirstKey
    <2>3. \A f : KeyVar(f, <<"key", 1>>)[1] = KeyTypes[f]
      BY KeyValues
    <2>4. \A v : \A f : Value(v, KeyVar(f, <<"key", 1>>)) = Shown(KeyTypes[f], PoolKeys[1][f])
      BY KeyValues
    <2> DEFINE which == <<"key", 1>>
               key == PoolKeys[1]
    <2> HIDE DEF which, key, base
    <2>5. /\ KeyStoredAt("PositionManager", base, which) /\ key \in KeyRecords
          /\ \A f : KeyVar(f, which)[1] = KeyTypes[f]
          /\ \A v : \A f : Value(v, KeyVar(f, which)) = Shown(KeyTypes[f], key[f])
      BY <2>1, <2>2, <2>3, <2>4 DEF which, key
    <2>6. DecodePoolKey(got) = KeyTuple(key)
      BY <1>4, <1>5, <1>6, <2>5, DecodeKey
    <2> QED
      BY <2>6 DEF key
  <1>8. Decode(c) = DecodePoolKey(got) \o c.arg
    BY <1>3 DEF Decode
  <1> DEFINE keys == KeyTuple(PoolKeys[1])
             low == Value(w, <<"i24", "lower">>)
             up == Value(w, <<"i24", "upper">>)
  <1>9. \A i \in 1 .. 5 : \A v : keys[i] = Value(v, names[i])
    <2>1. \A i \in 1 .. 5 : keys[i] = Shown(KeyTypes[KeyFields[i]], PoolKeys[1][KeyFields[i]])
      BY DEF KeyTuple
    <2>2. \A i \in 1 .. 5 : names[i] = <<KeyTypes[KeyFields[i]], "key", 1, KeyFields[i]>>
      OBVIOUS
    <2> QED
      BY <2>1, <2>2, KeyValues
  <1>10. /\ \E S : keys \in Seq(S) /\ Len(keys) = 5
         /\ \E S : names \in Seq(S) /\ Len(names) = 5
    <2>1. keys \in Seq({keys[i] : i \in 1 .. 5}) /\ Len(keys) = 5
      <3>1. keys = [i \in 1 .. 5 |-> keys[i]]
        BY DEF KeyTuple
      <3> HIDE DEF keys
      <3> QED
        BY <3>1
    <2>2. names \in Seq({names[i] : i \in 1 .. 5}) /\ Len(names) = 5
      <3>1. names = [i \in 1 .. 5 |-> names[i]]
        OBVIOUS
      <3> HIDE DEF names
      <3> QED
        BY <3>1
    <2> QED
      BY <2>1, <2>2
  <1> HIDE DEF keys, names, low, up
  <1>11. Decode(c) = keys \o <<low, up>>
    BY <1>2, <1>3, <1>7, <1>8 DEF keys, low, up
  <1>12. /\ Len(Decode(c)) = 7 /\ Len(c.of) = 7 /\ DOMAIN c.of = 1 .. 7
         /\ \A i \in 1 .. 5 : Decode(c)[i] = keys[i] /\ c.of[i] = names[i]
         /\ Decode(c)[6] = low /\ Decode(c)[7] = up
         /\ c.of[6] = <<"i24", "lower">> /\ c.of[7] = <<"i24", "upper">>
    <2>1. PICK S : keys \in Seq(S) /\ Len(keys) = 5
      BY <1>10
    <2>2. PICK T : names \in Seq(T) /\ Len(names) = 5
      BY <1>10
    <2> DEFINE s == <<low, up>>
               t == <<<<"i24", "lower">>, <<"i24", "upper">>>>
    <2>3. /\ s \in Seq({low, up}) /\ Len(s) = 2 /\ s[1] = low /\ s[2] = up
          /\ t \in Seq({<<"i24", "lower">>, <<"i24", "upper">>}) /\ Len(t) = 2
          /\ t[1] = <<"i24", "lower">> /\ t[2] = <<"i24", "upper">>
      OBVIOUS
    <2>4. Decode(c) = keys \o s /\ c.of = names \o t
      BY <1>3, <1>11
    <2> HIDE DEF s, t
    <2>5. /\ Len(keys \o s) = 7 /\ (keys \o s)[6] = s[1] /\ (keys \o s)[7] = s[2]
          /\ \A i \in 1 .. 5 : (keys \o s)[i] = keys[i]
      BY <2>1, <2>3, FiveAndTwo
    <2>6. /\ Len(names \o t) = 7 /\ DOMAIN (names \o t) = 1 .. 7
          /\ (names \o t)[6] = t[1] /\ (names \o t)[7] = t[2]
          /\ \A i \in 1 .. 5 : (names \o t)[i] = names[i]
      BY <2>2, <2>3, FiveAndTwo
    <2> QED
      BY <2>3, <2>4, <2>5, <2>6
  <1>13. \A i \in 1 .. 7 : Decode(c)[i] = Value(w, c.of[i])
    <2>1. \A i \in 1 .. 7 : i \in 1 .. 5 \/ i = 6 \/ i = 7
      OBVIOUS
    <2> QED
      BY <1>9, <1>12, <2>1 DEF low, up
  <1>14. Told(c, W)
    BY <1>12, <1>13 DEF Told
  <1> QED
    BY <1>14 DEF c

\* The other readers of variables.
LEMMA OtherTold ==
    ASSUME WorldsInv, BlocksInv, NEW c \in OtherReaders, c.of # <<>>,
           NEW W \in SUBSET DOMAIN chain, ReadIn(c, W)
    PROVE  Told(c, W)
  <1> USE PoolManagerStored, PositionManagerStored, V3PoolStored, AngstromStored,
          AngstromL2Stored, FactoryStored
  <1>1. CASE c = PoolFeeGrowthGlobal
    <2> DEFINE u == Plus(PoolStateSlot, 1)
               v == Plus(PoolStateSlot, 2)
               x == <<"global", "fee0">>
               y == <<"global", "fee1">>
               p == <<"whole">> \o x
               q == <<"whole">> \o y
    <2>1. c = Reader("PoolManager", <<u, v>>, "words", Words(<<x, y>>))
      BY <1>1 DEF PoolFeeGrowthGlobal, FeeGrowthGlobalSlots
    <2>2. Stored("PoolManager", u, 0, p) /\ Stored("PoolManager", v, 0, q)
      OBVIOUS
    <2>3. p[1] = "whole" /\ q[1] = "whole"
      BY WholeFirst
    <2>4. c.on = "PoolManager" /\ c.as = "words" /\ c.slots = <<u, v>> /\ c.of = <<p, q>>
      <3> HIDE DEF x, y, u, v
      <3>1. Words(<<x, y>>) = <<p, q>>
        BY WordsOfTwo, Zenon
      <3> QED
        BY <2>1, <3>1 DEF Reader
    <2> HIDE DEF u, v, p, q
    <2> QED
      BY <2>2, <2>3, <2>4, TwoWords
  <1>2. CASE c = V3FeeGrowthGlobal
    <2> DEFINE u == Root(1)
               v == Root(2)
               x == <<"global", "fee0">>
               y == <<"global", "fee1">>
               p == <<"whole">> \o x
               q == <<"whole">> \o y
    <2>1. c = Reader("V3Pool", <<u, v>>, "words", Words(<<x, y>>))
      BY <1>2 DEF V3FeeGrowthGlobal
    <2>2. Stored("V3Pool", u, 0, p) /\ Stored("V3Pool", v, 0, q)
      OBVIOUS
    <2>3. p[1] = "whole" /\ q[1] = "whole"
      BY WholeFirst
    <2>4. c.on = "V3Pool" /\ c.as = "words" /\ c.slots = <<u, v>> /\ c.of = <<p, q>>
      <3> HIDE DEF x, y, u, v
      <3>1. Words(<<x, y>>) = <<p, q>>
        BY WordsOfTwo, Zenon
      <3> QED
        BY <2>1, <3>1 DEF Reader
    <2> HIDE DEF u, v, p, q
    <2> QED
      BY <2>2, <2>3, <2>4, TwoWords
  <1>3. CASE c \in {PoolLiquidity, OwnerOf, V3CurrentLiquidity, V3SqrtPriceX96}
    <2>1. CASE c = PoolLiquidity
      BY <2>1, LiquidityTold
    <2>2. CASE c \in {OwnerOf, V3CurrentLiquidity, V3SqrtPriceX96}
      BY <2>2, LowBytesTold DEF OwnerOf, V3CurrentLiquidity, V3SqrtPriceX96
    <2> QED
      BY <1>3, <2>1, <2>2
  <1>4. CASE c \in {AllHooksAt(i - 1) : i \in DOMAIN Hooks}
    <2>1. PICK i \in DOMAIN Hooks : c = AllHooksAt(i - 1)
      BY <1>4
    <2>2. Stored("Factory", AllHooksSlot(i - 1), 0, <<"u160", "hook", i>>)
      OBVIOUS
    <2>3. i - 1 + 1 = i
      <3>1. \E S : Hooks \in Seq(S)
        BY FieldsAssumption, Zenon
      <3> QED
        BY <3>1
    <2>4. c = Single("Factory", AllHooksSlot(i - 1), "low160", <<"u160", "hook", i>>)
      BY <2>1, <2>3 DEF AllHooksAt
    <2> QED
      BY <2>2, <2>4, LowBytesTold
  <1>5. ASSUME NEW on, NEW slot, NEW name, Stored(on, slot, 0, <<"whole">> \o <<name>>),
               c = Single(on, slot, "words", <<"whole", name>>)
        PROVE  Told(c, W)
    <2>1. Stored(on, slot, 0, <<"whole", name>>)
      BY <1>5, WholeNames
    <2> QED
      BY <1>5, <2>1, OneWordTold
  <1>6. CASE c \in {NextTokenId, AllHooksLength} \cup FactoryDefaults
    BY <1>5, <1>6 DEF NextTokenId, AllHooksLength, FactoryDefaults
  <1>7. CASE c \in {Single("AngstromL2", Root(9), "words", <<"whole", "taxFloor">>),
                    Single("AngstromL2", Root(8), "words", <<"whole", "mevFactor">>)}
    BY <1>5, <1>7
  <1>8. CASE c = AngstromGlobalGrowth \/ c = AngstromL2GlobalGrowth
    <2> DEFINE p == <<"whole">> \o <<"global", "reward">>
    <2>1. p = <<"whole", "global", "reward">> /\ p[1] = "whole"
      BY WholeNames
    <2>2. Stored("Angstrom", AngstromGlobalSlot, 0, p)
            /\ Stored("AngstromL2", AngstromL2GlobalSlot, 0, p)
      OBVIOUS
    <2> HIDE DEF p
    <2>3. \/ c = Single("Angstrom", AngstromGlobalSlot, "words", p)
          \/ c = Single("AngstromL2", AngstromL2GlobalSlot, "words", p)
      BY <1>8, <2>1 DEF AngstromGlobalGrowth, AngstromL2GlobalGrowth
    <2> QED
      BY <2>1, <2>2, <2>3, OneWordTold
  <1>9. ASSUME NEW on, NEW slot, c.on = on, c.slots = <<slot>>,
               \A b \in DOMAIN chain : got[1] = Word(chain[b], on, slot) => TrueAt(c, chain[b])
        PROVE  Told(c, W)
    <2>1. 1 \in DOMAIN c.slots /\ c.slots[1] = slot
      BY <1>9
    <2>2. \A b \in W : got[1] = Word(chain[b], c.on, c.slots[1]) => TrueAt(c, chain[b])
      BY <1>9, <2>1
    <2> QED
      BY <2>1, <2>2, OneSlot
  <1>10. CASE c = PoolSlot0
    <2>1. c.on = "PoolManager" /\ c.slots = <<PoolStateSlot>>
      BY <1>10 DEF PoolSlot0, Reader
    <2> QED
      BY <1>9, <1>10, <2>1, PackedWords
  <1>11. CASE c = AngstromL2PoolFeeConfig
    <2>1. c.on = "AngstromL2" /\ c.slots = <<AngstromL2FeeConfigSlot>>
      BY <1>11 DEF AngstromL2PoolFeeConfig, Reader
    <2> QED
      BY <1>9, <1>11, <2>1, PackedWords
  <1>12. CASE c = GetFactorySlot0
    <2>1. c.on = "Factory" /\ c.slots = <<Root(0)>>
      BY <1>12 DEF GetFactorySlot0, Reader
    <2> QED
      BY <1>9, <1>12, <2>1, PackedWords
  <1>13. CASE c = AngstromL2IsPoolInitialized \/ c \in AngstromL2TotalFeeRates
    <2>1. c.on = "AngstromL2" /\ c.slots = <<AngstromL2FeeConfigSlot>>
      BY <1>13 DEF AngstromL2IsPoolInitialized, AngstromL2TotalFeeRates, Single, Reader
    <2>2. \A b \in DOMAIN chain :
            got[1] = Word(chain[b], "AngstromL2", AngstromL2FeeConfigSlot) => TrueAt(c, chain[b])
      BY <1>13, DecodedWords DEF AngstromL2TotalFeeRates
    <2> QED
      BY <1>9, <2>1, <2>2
  <1>14. CASE c = Single("AngstromL2", Root(10), "bool", <<"bool", "jitEnabled">>)
    <2>1. c.on = "AngstromL2" /\ c.slots = <<Root(10)>>
      BY <1>14 DEF Single, Reader
    <2>2. \A b \in DOMAIN chain :
            got[1] = Word(chain[b], "AngstromL2", Root(10)) => TrueAt(c, chain[b])
      BY <1>14, DecodedWords
    <2> QED
      BY <1>9, <2>1, <2>2
  <1>15. CASE c = V3CurrentTick
    <2>1. c.on = "V3Pool" /\ c.slots = <<Root(0)>>
      BY <1>15 DEF V3CurrentTick, Single, Reader
    <2> QED
      BY <1>9, <1>15, <2>1, DecodedWords
  <1>16. CASE c = IsVerifiedHook
    <2>1. c.on = "Factory" /\ c.slots = <<VerifiedSlot>>
      BY <1>16 DEF IsVerifiedHook, Single, Reader, VerifiedSlot
    <2> QED
      BY <1>9, <1>16, <2>1, DecodedWords
  <1>17. CASE c = HookAddressForPoolId
    <2>1. c.on = "Factory" /\ c.slots = <<HookOfPoolSlot>>
      BY <1>17 DEF HookAddressForPoolId, Single, Reader, HookOfPoolSlot
    <2> QED
      BY <1>9, <1>17, <2>1, DecodedWords
  <1>18. PoolKeyAndInfo.of = <<>> /\ AllHooks.of = <<>>
    BY DEF PoolKeyAndInfo, AllHooks, Reader
  <1> QED
    BY <1>1, <1>2, <1>3, <1>4, <1>6, <1>7, <1>8, <1>10, <1>11, <1>12, <1>13, <1>14, <1>15, <1>16,
       <1>17, <1>18 DEF OtherReaders, AngstromL2Settings

-------------------------------------------------------------------------------
(* The inductive invariant of the calls.                                   *)

Same(c, r) ==
    /\ c.on = r.on /\ c.slots = r.slots /\ c.size = r.size
    /\ c.as = r.as /\ c.arg = r.arg /\ c.of = r.of

\* The words that are there came from blocks of the window.
WordsAreRead ==
    call # Idle => \A i \in DOMAIN got : \E b \in Window :
        got[i] = Word(chain[b], call.on, call.slots[i])

SentInv == call # Idle => /\ call.fetcher \in Fetchers /\ call.block \in Nat
                          /\ call.since \in 1 .. Len(chain)

IdleInv == call = Idle => got = <<>> /\ out = <<>> /\ found = <<>> /\ result = <<>>

\* The futures: each is of whole slots, and is out once, when its words are.
GroupOf(c, i) == (i - 1) \div c.size + 1
GroupsOf(c)   == Len(c.slots) \div c.size
Sized(c) ==
    \E n \in Nat \ {0} :
        \/ c.size = n /\ Len(c.slots) = n /\ DOMAIN c.slots = 1 .. n
        \/ /\ c.as \in {"keys", "hooks"} /\ c.size = (IF c.as = "keys" THEN 3 ELSE 1)
           /\ Len(c.slots) = c.size * n /\ DOMAIN c.slots = 1 .. c.size * n

FuturesInv ==
    call # Idle =>
        /\ Sized(call) /\ DOMAIN got \subseteq DOMAIN call.slots
        /\ out \in Seq(1 .. GroupsOf(call))
        /\ \A k, l \in DOMAIN out : out[k] = out[l] => k = l
        /\ \A k \in DOMAIN out : \A i \in DOMAIN call.slots :
             GroupOf(call, i) = out[k] => i \in DOMAIN got

\* What is awaited: a call as it was asked, or a part that follows what an
\* earlier one read at a block of the window.
InfoAwaited(b) ==
    Same(call, PoolKeyOfInfo(Word(chain[b], "PositionManager", PositionInfoSlot(Token))))

FilterArg == call.arg = [find |-> call.arg.find, wanted |-> call.arg.wanted,
                         slot |-> call.arg.slot] /\ call.arg.find \in Nat \ {0}

LengthAwaited ==
    /\ call.as = "keysLength" /\ call.on = "AngstromL2" /\ call.of = <<>> /\ call.size = 1
    /\ FilterArg /\ call.arg.slot \in {5, 6, 7} /\ call.slots = <<Root(call.arg.slot)>>
    /\ \A s \in {5, 6, 7} : call.arg.slot < s =>
          \E b \in Window : s = chain[b].keysSlot => chain[b].keys = 0

ReadSince(b) ==
    \A i \in DOMAIN got : \E d \in Window :
        b <= d /\ got[i] = Word(chain[d], call.on, call.slots[i])

KeysAwaited(b) ==
    /\ call.as = "keys" /\ call.on = "AngstromL2" /\ call.of = <<>> /\ call.size = 3
    /\ FilterArg /\ call.arg.slot = chain[b].keysSlot /\ chain[b].keys # 0
    /\ call.slots = [i \in 1 .. 3 * chain[b].keys |-> Plus(ArraySlot(Root(call.arg.slot)), i - 1)]
    /\ ReadSince(b)

HooksAwaited(b) ==
    /\ call.as = "hooks" /\ call.on = "Factory" /\ call.of = <<>> /\ call.size = 1
    /\ chain[b].hooks # 0
    /\ call.slots = [i \in 1 .. chain[b].hooks |-> AllHooksSlot(i - 1)]
    /\ ReadSince(b)

AwaitedInv ==
    call # Idle =>
        \/ \E c \in Calls : c.as # "keysLength" /\ Same(call, c)
        \/ \E b \in Window : InfoAwaited(b)
        \/ LengthAwaited
        \/ \E b \in Window : KeysAwaited(b)
        \/ \E b \in Window : HooksAwaited(b)

\* The filter has found the keys of the futures that are out, as far as they
\* are wanted, each once, and never more than it looks for.
KeysOut == {KeyTuple(PoolKeys[out[k]]) : k \in DOMAIN out}
FilterInv ==
    call # Idle /\ call.as = "keys" =>
        /\ found \in Seq(KeysOut) /\ ToSet(found) = KeysOut \cap call.arg.wanted
        /\ \A k, l \in DOMAIN found : found[k] = found[l] => k = l
        /\ Len(found) <= call.arg.find

CallInv == SentInv /\ IdleInv /\ WordsAreRead /\ FuturesInv /\ AwaitedInv /\ FilterInv
ReadsInv == WorldsInv /\ BlocksInv /\ CallInv

-------------------------------------------------------------------------------
(* What a call may be.                                                     *)

\* One future of all the reads, decoded on its own.
OneFuture(c) == \E n \in Nat \ {0} : c.size = n /\ Len(c.slots) = n /\ DOMAIN c.slots = 1 .. n
Simple(c) == OneFuture(c) /\ c.as \notin {"info", "hooksLength", "keysLength", "keys", "hooks",
                                          "growth", "keyAndInfo"}

\* What Single and Reader make of one or two slots is one future.
LEMMA SingleSimple ==
    ASSUME NEW on, NEW slot, NEW as, NEW of
    PROVE  OneFuture(Single(on, slot, as, of)) /\ Single(on, slot, as, of).as = as
  BY DEF Single, Reader, OneFuture

\* The same, of one slot with several variables.
LEMMA OneSlotSimple ==
    ASSUME NEW on, NEW slot, NEW as, NEW of
    PROVE  OneFuture(Reader(on, <<slot>>, as, of)) /\ Reader(on, <<slot>>, as, of).as = as
  BY DEF Reader, OneFuture

\* The same, of two slots.
LEMMA PairSimple ==
    ASSUME NEW on, NEW u, NEW v, NEW as, NEW of
    PROVE  OneFuture(Reader(on, <<u, v>>, as, of)) /\ Reader(on, <<u, v>>, as, of).as = as
  BY DEF Reader, OneFuture

\* The readers that have no argument.
LEMMA OtherSimple ==
    ASSUME NEW c \in OtherReaders
    PROVE  /\ Simple(c) \/ c = PoolKeyAndInfo \/ c = AllHooks
           /\ OneFuture(c)
  <1> USE SingleSimple DEF Simple
  <1>1. CASE c \in {PoolFeeGrowthGlobal, V3FeeGrowthGlobal}
    BY <1>1, PairSimple DEF PoolFeeGrowthGlobal, V3FeeGrowthGlobal, FeeGrowthGlobalSlots
  <1>2. CASE c \in {PoolSlot0, AngstromL2PoolFeeConfig, GetFactorySlot0}
    BY <1>2, OneSlotSimple DEF PoolSlot0, AngstromL2PoolFeeConfig, GetFactorySlot0
  <1>3. CASE c \in {PoolLiquidity, OwnerOf, NextTokenId, V3CurrentTick, V3CurrentLiquidity,
                    V3SqrtPriceX96}
    BY <1>3 DEF PoolLiquidity, OwnerOf, NextTokenId, V3CurrentTick, V3CurrentLiquidity,
                V3SqrtPriceX96
  <1>4. CASE c \in {AngstromGlobalGrowth, AngstromL2GlobalGrowth, AngstromL2IsPoolInitialized,
                    IsVerifiedHook, AllHooksLength, HookAddressForPoolId}
    BY <1>4 DEF AngstromGlobalGrowth, AngstromL2GlobalGrowth, AngstromL2IsPoolInitialized,
                IsVerifiedHook, AllHooksLength, HookAddressForPoolId
  <1>5. CASE c \in AngstromL2TotalFeeRates \cup AngstromL2Settings \cup FactoryDefaults
    BY <1>5 DEF AngstromL2TotalFeeRates, AngstromL2Settings, FactoryDefaults
  <1>6. CASE c \in {AllHooksAt(i - 1) : i \in DOMAIN Hooks}
    <2>1. PICK i \in DOMAIN Hooks : c = AllHooksAt(i - 1)
      BY <1>6
    <2> DEFINE slot == AllHooksSlot(i - 1)
               of == <<"u160", "hook", i - 1 + 1>>
    <2>2. c = Single("Factory", slot, "low160", of)
      BY <2>1 DEF AllHooksAt
    <2> HIDE DEF slot, of
    <2> QED
      BY <2>2
  <1>7. CASE c = PoolKeyAndInfo \/ c = AllHooks
    BY <1>7, OneSlotSimple DEF PoolKeyAndInfo, AllHooks
  <1> QED
    BY <1>1, <1>2, <1>3, <1>4, <1>5, <1>6, <1>7 DEF OtherReaders

\* The readers of a tick.
LEMMA TickSimple ==
    ASSUME NEW t, NEW c \in ReadersOfTick(t)
    PROVE  Simple(c)
  <1> USE SingleSimple DEF Simple
  <1>1. CASE c = TickFeeGrowthOutside(t)
    BY <1>1, PairSimple DEF TickFeeGrowthOutside, TickFeeGrowthOutsideSlots
  <1>2. CASE c = ReadV3TickData(t)
    <2> DEFINE s == [i \in 1 .. 4 |-> Plus(V3TickSlot(t), i - 1)]
    <2>1. c.slots = s /\ c.size = Len(s) /\ c.as = "v3TickData"
      BY <1>2 DEF ReadV3TickData, Reader
    <2>2. DOMAIN s = 1 .. 4 /\ Len(s) = 4
      OBVIOUS
    <2> HIDE DEF s
    <2> QED
      BY <2>1, <2>2 DEF OneFuture
  <1>3. CASE c \in {AngstromTickGrowthOutside(t), AngstromL2TickGrowthOutside(t)}
    BY <1>3 DEF AngstromTickGrowthOutside, AngstromL2TickGrowthOutside
  <1> QED
    BY <1>1, <1>2, <1>3 DEF ReadersOfTick

\* The readers of a position.
LEMMA PositionSimple ==
    ASSUME NEW l, NEW u, NEW c \in ReadersOfPosition(l, u)
    PROVE  Simple(c)
  <1>1. CASE c = PositionLastFeeGrowthInside(l, u)
    BY <1>1, PairSimple DEF PositionLastFeeGrowthInside, Simple
  <1>2. CASE c \in {PositionLiquidity(l, u), AngstromLastGrowthInside(l, u),
                    AngstromL2LastGrowthInside(l, u)}
    BY <1>2, SingleSimple DEF PositionLiquidity, AngstromLastGrowthInside,
                              AngstromL2LastGrowthInside, Simple
  <1> QED
    BY <1>1, <1>2 DEF ReadersOfPosition

-------------------------------------------------------------------------------
(* The readers of growth: what they ask for.                               *)

\* Six slots: global growth, growth outside of the lower and of the upper tick.
LEMMA PoolManagerSlots ==
    ASSUME NEW now, NEW lower, NEW upper
    PROVE  LET r == PositionFeeGrowthInside(now, lower, upper) IN
           /\ r.on = "PoolManager" /\ r.size = 6 /\ Len(r.slots) = 6 /\ DOMAIN r.slots = 1 .. 6
           /\ r.as = "growth" /\ r.of = <<>> /\ r.arg = <<now, lower, upper, <<"fee0", "fee1">>>>
           /\ r.slots[1] = Plus(PoolStateSlot, 1) /\ r.slots[2] = Plus(PoolStateSlot, 2)
           /\ r.slots[3] = Plus(PoolTickSlot(lower), 1) /\ r.slots[4] = Plus(PoolTickSlot(lower), 2)
           /\ r.slots[5] = Plus(PoolTickSlot(upper), 1) /\ r.slots[6] = Plus(PoolTickSlot(upper), 2)
  <1> DEFINE s == FeeGrowthGlobalSlots \o TickFeeGrowthOutsideSlots(lower)
                    \o TickFeeGrowthOutsideSlots(upper)
  <1>1. /\ Len(s) = 6 /\ DOMAIN s = 1 .. 6
        /\ s[1] = Plus(PoolStateSlot, 1) /\ s[2] = Plus(PoolStateSlot, 2)
        /\ s[3] = Plus(PoolTickSlot(lower), 1) /\ s[4] = Plus(PoolTickSlot(lower), 2)
        /\ s[5] = Plus(PoolTickSlot(upper), 1) /\ s[6] = Plus(PoolTickSlot(upper), 2)
    BY DEF FeeGrowthGlobalSlots, TickFeeGrowthOutsideSlots
  <1> HIDE DEF s
  <1>2. PositionFeeGrowthInside(now, lower, upper)
          = Growth("PoolManager", now, lower, upper, s, <<"fee0", "fee1">>)
    BY DEF PositionFeeGrowthInside, s
  <1> QED
    BY <1>1, <1>2 DEF Growth, Reader

\* Angstrom's reader of growth, on L1.
LEMMA AngstromSlots ==
    ASSUME NEW now, NEW lower, NEW upper
    PROVE  LET r == AngstromGrowthInside(now, lower, upper) IN
           /\ r.on = "Angstrom" /\ r.size = 3 /\ Len(r.slots) = 3 /\ DOMAIN r.slots = 1 .. 3
           /\ r.as = "growth" /\ r.of = <<>> /\ r.arg = <<now, lower, upper, <<"reward">>>>
           /\ r.slots[1] = AngstromGlobalSlot
           /\ r.slots[2] = AngstromOutsideSlot(lower) /\ r.slots[3] = AngstromOutsideSlot(upper)
  BY DEF AngstromGrowthInside, Growth, Reader

\* Angstrom's reader of growth, on L2.
LEMMA AngstromL2Slots ==
    ASSUME NEW now, NEW lower, NEW upper
    PROVE  LET r == AngstromL2GrowthInside(now, lower, upper) IN
           /\ r.on = "AngstromL2" /\ r.size = 3 /\ Len(r.slots) = 3 /\ DOMAIN r.slots = 1 .. 3
           /\ r.as = "growth" /\ r.of = <<>> /\ r.arg = <<now, lower, upper, <<"reward">>>>
           /\ r.slots[1] = AngstromL2GlobalSlot
           /\ r.slots[2] = AngstromL2OutsideSlot(lower) /\ r.slots[3] = AngstromL2OutsideSlot(upper)
  BY DEF AngstromL2GrowthInside, Growth, Reader

\* The readers of growth are one future each.
LEMMA GrowthSimple ==
    ASSUME NEW now, NEW lower, NEW upper, NEW c \in GrowthReaders(now, lower, upper)
    PROVE  OneFuture(c) /\ c.as = "growth" /\ c.of = <<>>
  <1>1. CASE c = PositionFeeGrowthInside(now, lower, upper)
    <2>1. c.size = 6 /\ Len(c.slots) = 6 /\ DOMAIN c.slots = 1 .. 6 /\ c.as = "growth" /\ c.of = <<>>
      BY <1>1, PoolManagerSlots
    <2> QED
      BY <2>1 DEF OneFuture
  <1>2. CASE c = AngstromGrowthInside(now, lower, upper)
    <2>1. c.size = 3 /\ Len(c.slots) = 3 /\ DOMAIN c.slots = 1 .. 3 /\ c.as = "growth" /\ c.of = <<>>
      BY <1>2, AngstromSlots
    <2> QED
      BY <2>1 DEF OneFuture
  <1>3. CASE c = AngstromL2GrowthInside(now, lower, upper)
    <2>1. c.size = 3 /\ Len(c.slots) = 3 /\ DOMAIN c.slots = 1 .. 3 /\ c.as = "growth" /\ c.of = <<>>
      BY <1>3, AngstromL2Slots
    <2> QED
      BY <2>1 DEF OneFuture
  <1> QED
    BY <1>1, <1>2, <1>3 DEF GrowthReaders

\* What the filter asks first.
LEMMA FilterIs ==
    ASSUME NEW find, NEW wanted
    PROVE  LET c == PoolKeysFilter(find, wanted) IN
           /\ c.on = "AngstromL2" /\ c.slots = <<Root(7)>> /\ c.size = 1 /\ c.as = "keysLength"
           /\ c.arg = [find |-> find, wanted |-> wanted, slot |-> 7] /\ c.of = <<>>
  BY DEF PoolKeysFilter, Reader

\* A call is simple, or the first part of one of the three that have two, or one
\* of growth.
LEMMA CallKinds ==
    ASSUME NEW c \in Calls
    PROVE  /\ OneFuture(c)
           /\ \/ Simple(c) /\ \/ c \in OtherReaders
                              \/ \E t \in Initialized : c \in ReadersOfTick(t)
                              \/ \E r \in Ranges : c \in ReadersOfPosition(r[1], r[2])
              \/ c = PoolKeyAndInfo \/ c = AllHooks
              \/ /\ c.as = "growth" /\ c.of = <<>> /\ c.arg[2] <= c.arg[3]
                 /\ c.arg[2] \in Initialized /\ c.arg[3] \in Initialized
                 /\ c \in GrowthReaders(c.arg[1], c.arg[2], c.arg[3])
              \/ /\ c.as = "keysLength" /\ c.arg.find \in Nat \ {0}
                 /\ c = PoolKeysFilter(c.arg.find, c.arg.wanted)
  <1>1. CASE c \in OtherReaders
    BY <1>1, OtherSimple
  <1>2. CASE \E t \in Initialized : c \in ReadersOfTick(t)
    BY <1>2, TickSimple DEF Simple
  <1>3. CASE \E r \in Ranges : c \in ReadersOfPosition(r[1], r[2])
    BY <1>3, PositionSimple DEF Simple
  <1>4. CASE /\ c.as = "growth" /\ c.arg[2] <= c.arg[3]
             /\ c.arg[1] \in Int /\ c.arg[2] \in Initialized /\ c.arg[3] \in Initialized
             /\ c \in GrowthReaders(c.arg[1], c.arg[2], c.arg[3])
    BY <1>4, GrowthSimple
  <1>5. CASE /\ c.as = "keysLength" /\ c.arg.find \in Nat \ {0}
             /\ c = PoolKeysFilter(c.arg.find, c.arg.wanted)
    <2> DEFINE find == c.arg.find
               wanted == c.arg.wanted
    <2> HIDE DEF find, wanted
    <2>0. c = PoolKeysFilter(find, wanted)
      BY <1>5 DEF find, wanted
    <2>1. c.slots = <<Root(7)>> /\ c.size = 1
      BY <2>0, FilterIs
    <2>2. OneFuture(c)
      BY <2>1 DEF OneFuture
    <2> QED
      BY <1>5, <2>2
  <1> QED
    BY <1>1, <1>2, <1>3, <1>4, <1>5, CallsAssumption

\* Groups of a call: one, or as many as there are elements.
LEMMA Groups ==
    ASSUME NEW c, Sized(c)
    PROVE  /\ GroupsOf(c) \in Nat \ {0}
           /\ \A i \in DOMAIN c.slots : i \in Nat /\ GroupOf(c, i) \in 1 .. GroupsOf(c)
           /\ OneFuture(c) => GroupsOf(c) = 1 /\ \A i \in DOMAIN c.slots : GroupOf(c, i) = 1
           /\ \A n \in Nat \ {0} : c.size \in {1, 3} /\ Len(c.slots) = c.size * n => GroupsOf(c) = n
  <1>1. ASSUME NEW n \in Nat \ {0}, c.size = n, Len(c.slots) = n, DOMAIN c.slots = 1 .. n
        PROVE  GroupsOf(c) = 1 /\ \A i \in DOMAIN c.slots : i \in Nat /\ GroupOf(c, i) = 1
    <2>1. n \div n = 1
      OBVIOUS
    <2>2. \A i \in 1 .. n : (i - 1) \div n = 0
      OBVIOUS
    <2> QED
      BY <1>1, <2>1, <2>2 DEF GroupsOf, GroupOf
  <1>2. ASSUME NEW n \in Nat \ {0}, c.size = 1, Len(c.slots) = 1 * n
        PROVE  GroupsOf(c) = n
    BY <1>2 DEF GroupsOf
  <1>3. ASSUME NEW n \in Nat \ {0}, c.size = 3, Len(c.slots) = 3 * n
        PROVE  GroupsOf(c) = n
    <2>1. (3 * n) \div 3 = n
      OBVIOUS
    <2> QED
      BY <1>3, <2>1 DEF GroupsOf
  <1>4. ASSUME NEW n \in Nat \ {0}, c.size = 1, Len(c.slots) = 1 * n, DOMAIN c.slots = 1 .. 1 * n,
               NEW i \in DOMAIN c.slots
        PROVE  i \in Nat /\ GroupOf(c, i) \in 1 .. n
    BY <1>4 DEF GroupOf
  <1>5. ASSUME NEW n \in Nat \ {0}, c.size = 3, Len(c.slots) = 3 * n, DOMAIN c.slots = 1 .. 3 * n,
               NEW i \in DOMAIN c.slots
        PROVE  i \in Nat /\ GroupOf(c, i) \in 1 .. n
    <2>1. i \in 1 .. 3 * n
      BY <1>5
    <2>2. (i - 1) \div 3 + 1 \in 1 .. n
      BY <2>1
    <2> QED
      BY <1>5, <2>1, <2>2 DEF GroupOf
  <1>6. GroupsOf(c) \in Nat \ {0}
    BY <1>1, <1>2, <1>3 DEF Sized
  <1>7. \A i \in DOMAIN c.slots : i \in Nat /\ GroupOf(c, i) \in 1 .. GroupsOf(c)
    <2>1. PICK n \in Nat \ {0} :
             \/ c.size = n /\ Len(c.slots) = n /\ DOMAIN c.slots = 1 .. n
             \/ /\ c.size \in {1, 3} /\ Len(c.slots) = c.size * n
                /\ DOMAIN c.slots = 1 .. c.size * n
      BY DEF Sized
    <2>2. CASE c.size = n /\ Len(c.slots) = n /\ DOMAIN c.slots = 1 .. n
      BY <1>1, <2>2
    <2>3. CASE c.size = 1 /\ Len(c.slots) = 1 * n /\ DOMAIN c.slots = 1 .. 1 * n
      BY <1>2, <1>4, <2>3
    <2>4. CASE c.size = 3 /\ Len(c.slots) = 3 * n /\ DOMAIN c.slots = 1 .. 3 * n
      BY <1>3, <1>5, <2>4
    <2> QED
      BY <2>1, <2>2, <2>3, <2>4
  <1>8. OneFuture(c) => GroupsOf(c) = 1 /\ \A i \in DOMAIN c.slots : GroupOf(c, i) = 1
    BY <1>1 DEF OneFuture
  <1>9. \A n \in Nat \ {0} : c.size \in {1, 3} /\ Len(c.slots) = c.size * n => GroupsOf(c) = n
    BY <1>2, <1>3
  <1> QED
    BY <1>6, <1>7, <1>8, <1>9

-------------------------------------------------------------------------------
(* The calls: what has come back while blocks are added.                   *)

\* The window is of blocks there are; a read is answered at the last of it.
LEMMA WindowIsOfChain ==
    ASSUME WorldsInv, SentInv, call # Idle
    PROVE  /\ Window \subseteq DOMAIN chain
           /\ ReadBlock(call) \in DOMAIN chain =>
                ReadBlock(call) \in Window /\ \A b \in Window : b <= ReadBlock(call)
  <1>1. /\ call.since \in 1 .. Len(chain) /\ call.fetcher \in Fetchers /\ call.block \in Nat
        /\ DOMAIN chain = 1 .. Len(chain) /\ Len(chain) \in Nat
    <2> HIDE DEF World
    <2> QED
      BY DEF SentInv, WorldsInv
  <1>2. call.fetcher.kind \in Pinning <=> ~(call.fetcher.kind \in Databases)
    BY <1>1, FetchersAssumption DEF Pinning, Databases
  <1> QED
    BY <1>1, <1>2 DEF Window, ReadBlock

\* A new block changes none of those before it, and only adds to the window.
LEMMA NewBlockExtends ==
    ASSUME WorldsInv, SentInv, NewBlock
    PROVE  /\ \A b \in DOMAIN chain : b \in DOMAIN chain' /\ chain'[b] = chain[b]
           /\ Len(chain) \in Nat /\ Len(chain') \in Nat /\ Len(chain) <= Len(chain')
           /\ call # Idle => Window \subseteq Window'
  <1>1. PICK to \in PoolTicks : chain' = Append(chain, Swap(Last(chain), to))
    BY DEF NewBlock
  <1>2. chain \in Seq(World) /\ Swap(Last(chain), to) \in World
    <2>1. Last(chain) \in World /\ Consistent(Last(chain))
      <3> HIDE DEF World
      <3> QED
        BY DEF WorldsInv, Last
    <2> QED
      BY <2>1, SwapWorld DEF WorldsInv
  <1>3. /\ \A b \in DOMAIN chain : b \in DOMAIN chain' /\ chain'[b] = chain[b]
        /\ Len(chain) \in Nat /\ Len(chain') \in Nat /\ Len(chain) <= Len(chain')
    <2> HIDE DEF World
    <2> QED
      BY <1>1, <1>2
  <1>4. ASSUME call # Idle PROVE Window \subseteq Window'
    <2>1. /\ call.since \in 1 .. Len(chain)  /\ DOMAIN chain = 1 .. Len(chain) /\ Len(chain) \in Nat
          /\ DOMAIN chain' = 1 .. Len(chain') /\ Len(chain') \in Nat
      <3> HIDE DEF World
      <3> QED
        BY <1>1, <1>2, <1>4 DEF SentInv
    <2>2. call' = call
      BY DEF NewBlock
    <2> QED
      BY <1>3, <2>1, <2>2 DEF Window
  <1> QED
    BY <1>3, <1>4

\* What is sent is what was made, for a block and since one.
LEMMA SentIs ==
    ASSUME NEW c, NEW f, NEW b, NEW s
    PROVE  LET d == Sent(c, f, b, s) IN
           Same(d, c) /\ d.fetcher = f /\ d.block = b /\ d.since = s
  BY DEF Sent, Same

\* Nothing is asked at the start.
LEMMA InitCall == Init => CallInv
  <1> SUFFICES ASSUME Init PROVE CallInv
    OBVIOUS
  <1>1. call = Idle /\ got = <<>> /\ out = <<>> /\ found = <<>> /\ result = <<>>
    BY DEF Init
  <1> QED
    BY <1>1 DEF CallInv, SentInv, IdleInv, WordsAreRead, FuturesInv, AwaitedInv, FilterInv

\* Steps that change the result only, or nothing.
LEMMA CallStays ==
    ASSUME CallInv, UNCHANGED <<chain, call, got, out, found>>, call # Idle \/ result' = result
    PROVE  CallInv'
  <1>1. chain' = chain /\ call' = call /\ got' = got /\ out' = out /\ found' = found
    OBVIOUS
  <1>2. Window' = Window
    BY <1>1 DEF Window
  <1>3. SentInv' /\ IdleInv' /\ WordsAreRead'
    BY <1>1, <1>2 DEF CallInv, SentInv, IdleInv, WordsAreRead
  <1>4. FuturesInv'
    BY <1>1 DEF CallInv, FuturesInv, GroupOf, GroupsOf, Sized
  <1>5. AwaitedInv'
    <2>1. \A b : ReadSince(b)' <=> ReadSince(b)
      BY <1>1, <1>2 DEF ReadSince
    <2>2. \A b : InfoAwaited(b)' <=> InfoAwaited(b)
      BY <1>1 DEF InfoAwaited, Same
    <2>3. \A b : KeysAwaited(b)' <=> KeysAwaited(b)
      BY <1>1, <2>1 DEF KeysAwaited, FilterArg
    <2>4. \A b : HooksAwaited(b)' <=> HooksAwaited(b)
      BY <1>1, <2>1 DEF HooksAwaited
    <2>5. LengthAwaited' <=> LengthAwaited
      BY <1>1, <1>2 DEF LengthAwaited, FilterArg
    <2> QED
      BY <1>1, <1>2, <2>2, <2>3, <2>4, <2>5 DEF CallInv, AwaitedInv, Same
  <1>6. FilterInv'
    <2>1. KeysOut' = KeysOut
      BY <1>1 DEF KeysOut
    <2> QED
      BY <1>1, <2>1 DEF CallInv, FilterInv
  <1> QED
    BY <1>3, <1>4, <1>5, <1>6 DEF CallInv

\* A call is sent, with nothing read of it yet.
LEMMA AskCall ==
    ASSUME WorldsInv, CallInv, Ask
    PROVE  CallInv'
  <1>1. PICK c \in Calls, f \in Fetchers, b \in 0 .. MaxBlocks : call' = Sent(c, f, b, Len(chain))
    BY DEF Ask
  <1>2. /\ got = <<>> /\ out = <<>> /\ found = <<>> /\ result = <<>>
        /\ got' = <<>> /\ out' = <<>> /\ found' = <<>> /\ result' = <<>> /\ chain' = chain
    BY DEF Ask, CallInv, IdleInv
  <1>3. Same(call', c) /\ call'.fetcher = f /\ call'.block = b /\ call'.since = Len(chain)
    BY <1>1, SentIs
  <1>4. SentInv'
    <2>1. Len(chain) \in 1 .. Len(chain)
      <3> HIDE DEF World
      <3> QED
        BY DEF WorldsInv
    <2> QED
      BY <1>2, <1>3, <2>1, ContractsAssumption DEF SentInv
  <1>5. IdleInv' /\ WordsAreRead'
    BY <1>2 DEF IdleInv, WordsAreRead
  <1>6. OneFuture(c)
    BY CallKinds
  <1>7. FuturesInv'
    <2>1. Sized(call')
      <3>1. PICK n \in Nat \ {0} : c.size = n /\ Len(c.slots) = n /\ DOMAIN c.slots = 1 .. n
        BY <1>6 DEF OneFuture
      <3>2. call'.size = n /\ Len(call'.slots) = n /\ DOMAIN call'.slots = 1 .. n
        BY <1>3, <3>1 DEF Same
      <3> QED
        BY <3>2 DEF Sized
    <2> QED
      BY <1>2, <2>1 DEF FuturesInv
  <1>8. call'.as # "keys"
    BY <1>3, CallKinds, GrowthSimple DEF Same, Simple, PoolKeyAndInfo, AllHooks, Reader
  <1>9. AwaitedInv'
    <2>1. CASE c.as # "keysLength"
      BY <1>3, <2>1 DEF AwaitedInv
    <2>2. CASE c.as = "keysLength"
      <3> DEFINE find == c.arg.find
                 wanted == c.arg.wanted
      <3>1. find \in Nat \ {0} /\ c = PoolKeysFilter(find, wanted)
        BY <2>2, CallKinds DEF Simple, PoolKeyAndInfo, AllHooks, Reader
      <3> HIDE DEF find, wanted
      <3>2. /\ c.on = "AngstromL2" /\ c.slots = <<Root(7)>> /\ c.size = 1 /\ c.as = "keysLength"
            /\ c.arg = [find |-> find, wanted |-> wanted, slot |-> 7] /\ c.of = <<>>
        BY <3>1, FilterIs
      <3>3. LengthAwaited'
        BY <1>3, <3>1, <3>2 DEF Same, LengthAwaited, FilterArg
      <3> QED
        BY <3>3 DEF AwaitedInv
    <2> QED
      BY <2>1, <2>2
  <1>10. FilterInv'
    BY <1>8 DEF FilterInv
  <1> QED
    BY <1>4, <1>5, <1>7, <1>9, <1>10 DEF CallInv

\* A block is added while a call waits.
LEMMA NewBlockCall ==
    ASSUME WorldsInv, CallInv, NewBlock
    PROVE  CallInv'
  <1>1. /\ call' = call /\ got' = got /\ out' = out /\ found' = found /\ result' = result
    BY DEF NewBlock
  <1>2. /\ \A b \in DOMAIN chain : b \in DOMAIN chain' /\ chain'[b] = chain[b]
        /\ Len(chain) \in Nat /\ Len(chain') \in Nat /\ Len(chain) <= Len(chain')
        /\ call # Idle => Window \subseteq Window' /\ Window \subseteq DOMAIN chain
    BY NewBlockExtends, WindowIsOfChain DEF CallInv
  <1>3. ASSUME call # Idle, NEW b \in Window
        PROVE  b \in Window' /\ chain'[b] = chain[b]
    BY <1>2, <1>3
  <1>4. SentInv' /\ IdleInv'
    BY <1>1, <1>2 DEF CallInv, SentInv, IdleInv
  <1>5. WordsAreRead'
    <2> SUFFICES ASSUME call # Idle, NEW i \in DOMAIN got
                 PROVE  \E b \in Window' : got[i] = Word(chain'[b], call.on, call.slots[i])
      BY <1>1 DEF WordsAreRead
    <2>1. PICK b \in Window : got[i] = Word(chain[b], call.on, call.slots[i])
      BY DEF CallInv, WordsAreRead
    <2> QED
      BY <1>3, <2>1
  <1>6. FuturesInv'
    BY <1>1 DEF CallInv, FuturesInv, GroupOf, GroupsOf, Sized
  <1>7. AwaitedInv'
    <2> SUFFICES ASSUME call # Idle
                 PROVE  AwaitedInv'
      BY <1>1 DEF AwaitedInv
    <2>1. ASSUME NEW b \in Window, ReadSince(b) PROVE ReadSince(b)'
      <3> SUFFICES ASSUME NEW i \in DOMAIN got
                   PROVE  \E d \in Window' : b <= d /\ got[i] = Word(chain'[d], call.on, call.slots[i])
        BY <1>1 DEF ReadSince
      <3>1. PICK d \in Window : b <= d /\ got[i] = Word(chain[d], call.on, call.slots[i])
        BY <2>1 DEF ReadSince
      <3> QED
        BY <1>3, <3>1
    <2>2. \A b \in Window : InfoAwaited(b) => InfoAwaited(b)'
      BY <1>1, <1>3 DEF InfoAwaited, Same
    <2>3. \A b \in Window : KeysAwaited(b) => KeysAwaited(b)'
      BY <1>1, <1>3, <2>1 DEF KeysAwaited, FilterArg
    <2>4. \A b \in Window : HooksAwaited(b) => HooksAwaited(b)'
      BY <1>1, <1>3, <2>1 DEF HooksAwaited
    <2>5. LengthAwaited => LengthAwaited'
      <3> SUFFICES ASSUME LengthAwaited PROVE LengthAwaited'
        OBVIOUS
      <3>1. ASSUME NEW s \in {5, 6, 7}, call.arg.slot < s
            PROVE  \E b \in Window' : s = chain'[b].keysSlot => chain'[b].keys = 0
        <4>1. PICK b \in Window : s = chain[b].keysSlot => chain[b].keys = 0
          BY <3>1 DEF LengthAwaited
        <4> QED
          BY <1>3, <4>1
      <3> QED
        BY <1>1, <3>1 DEF LengthAwaited, FilterArg
    <2>6. (\E c \in Calls : c.as # "keysLength" /\ Same(call, c)) =>
             \E c \in Calls : c.as # "keysLength" /\ Same(call', c)
      BY <1>1
    <2> QED
      BY <1>3, <2>2, <2>3, <2>4, <2>5, <2>6 DEF CallInv, AwaitedInv
  <1>8. FilterInv'
    <2>1. KeysOut' = KeysOut
      BY <1>1 DEF KeysOut
    <2> QED
      BY <1>1, <2>1 DEF CallInv, FilterInv
  <1> QED
    BY <1>4, <1>5, <1>6, <1>7, <1>8 DEF CallInv

\* What is awaited, by the decoder it is for.
LEMMA AwaitedAs ==
    ASSUME CallInv, call # Idle
    PROVE  /\ call.as = "info" => Same(call, PoolKeyAndInfo)
           /\ call.as = "hooksLength" => Same(call, AllHooks)
           /\ call.as = "keysLength" => LengthAwaited
           /\ call.as = "keyAndInfo" => \E b \in Window : InfoAwaited(b)
           /\ call.as = "keys" => \E b \in Window : KeysAwaited(b)
           /\ call.as = "hooks" => \E b \in Window : HooksAwaited(b)
           /\ call.as = "growth" =>
                \E c \in Calls : Same(call, c) /\ c.as = "growth"
           /\ call.as \notin {"info", "hooksLength", "keysLength", "keys", "hooks", "growth",
                              "keyAndInfo"} =>
                \E c \in Calls : Same(call, c) /\ Simple(c)
  <1>1. CASE \E c \in Calls : c.as # "keysLength" /\ Same(call, c)
    <2>1. PICK c \in Calls : c.as # "keysLength" /\ Same(call, c)
      BY <1>1
    <2>2. PoolKeyAndInfo.as = "info" /\ AllHooks.as = "hooksLength"
      BY DEF PoolKeyAndInfo, AllHooks, Reader
    <2>3. Simple(c) \/ c = PoolKeyAndInfo \/ c = AllHooks \/ c.as = "growth"
      BY <2>1, CallKinds
    <2>4. call.as = c.as
      BY <2>1 DEF Same
    <2>5. CASE Simple(c)
      BY <2>1, <2>4, <2>5 DEF Simple
    <2>6. CASE c.as = "growth"
      BY <2>1, <2>4, <2>6
    <2>7. CASE c = PoolKeyAndInfo
      <3>1. call.as = "info" /\ Same(call, PoolKeyAndInfo)
        BY <2>1, <2>2, <2>4, <2>7
      <3> QED
        BY <3>1
    <2>8. CASE c = AllHooks
      <3>1. call.as = "hooksLength" /\ Same(call, AllHooks)
        BY <2>1, <2>2, <2>4, <2>8
      <3> QED
        BY <3>1
    <2> QED
      BY <2>3, <2>5, <2>6, <2>7, <2>8
  <1>2. CASE \E b \in Window : InfoAwaited(b)
    <2>1. \A x : PoolKeyOfInfo(x).as = "keyAndInfo"
      BY DEF PoolKeyOfInfo, Reader
    <2>2. call.as = "keyAndInfo"
      BY <1>2, <2>1 DEF InfoAwaited, Same
    <2> QED
      BY <1>2, <2>2
  <1>3. CASE LengthAwaited
    <2>1. call.as = "keysLength"
      BY <1>3 DEF LengthAwaited
    <2> QED
      BY <1>3, <2>1
  <1>4. CASE \E b \in Window : KeysAwaited(b)
    <2>1. call.as = "keys"
      BY <1>4 DEF KeysAwaited
    <2> QED
      BY <1>4, <2>1
  <1>5. CASE \E b \in Window : HooksAwaited(b)
    <2>1. call.as = "hooks"
      BY <1>5 DEF HooksAwaited
    <2> QED
      BY <1>5, <2>1
  <1> QED
    BY <1>1, <1>2, <1>3, <1>4, <1>5 DEF CallInv, AwaitedInv

\* All but the two streams are one future.
LEMMA OneFutureAs ==
    ASSUME CallInv, call # Idle, call.as \notin {"keys", "hooks"}
    PROVE  OneFuture(call)
  BY DEF CallInv, FuturesInv, Sized, OneFuture

\* When it is out, every word is there.
LEMMA AllRead ==
    ASSUME CallInv, call # Idle, OneFuture(call), out # <<>>
    PROVE  /\ DOMAIN got = DOMAIN call.slots /\ ReadIn(call, Window)
           /\ 1 \in DOMAIN call.slots
           /\ \E b \in Window : got[1] = Word(chain[b], call.on, call.slots[1])
  <1>1. Sized(call) /\ DOMAIN got \subseteq DOMAIN call.slots
    BY DEF CallInv, FuturesInv
  <1>2. /\ GroupsOf(call) = 1 /\ \A i \in DOMAIN call.slots : GroupOf(call, i) = 1
    BY <1>1, Groups
  <1>3. 1 \in DOMAIN out /\ out[1] = 1
    <2>1. out \in Seq(1 .. 1)
      BY <1>2 DEF CallInv, FuturesInv
    <2> QED
      BY <2>1
  <1>4. \A i \in DOMAIN call.slots : i \in DOMAIN got
    BY <1>2, <1>3 DEF CallInv, FuturesInv
  <1>5. 1 \in DOMAIN call.slots
    BY DEF OneFuture
  <1>6. \A i \in DOMAIN got : \E b \in Window : got[i] = Word(chain[b], call.on, call.slots[i])
    BY DEF CallInv, WordsAreRead
  <1> QED
    BY <1>1, <1>4, <1>5, <1>6 DEF ReadIn

\* Enough has come back for one future only when it is out.
LEMMA EnoughIsOut ==
    ASSUME CallInv, call # Idle, OneFuture(call), call.as # "keys", Enough(call)
    PROVE  out # <<>>
  <1>1. GroupsOf(call) = 1
    BY Groups DEF CallInv, FuturesInv
  <1> QED
    BY <1>1 DEF Enough, GroupsOf

\* The words that lengths are kept in.
LEMMA LengthWords ==
    ASSUME NEW w
    PROVE  /\ Word(w, "Factory", Root(4)) = w.hooks
           /\ \A n \in {5, 6, 7} :
                Word(w, "AngstromL2", Root(n)) = IF n = w.keysSlot THEN w.keys ELSE 0
  <1>1. /\ Value(w, <<"whole", "hooks">>) = w.hooks
        /\ \A n : Value(w, <<"whole", "keys", n>>) = IF n = w.keysSlot THEN w.keys ELSE 0
    BY DEF Value, Shown
  <1>2. /\ Stored("Factory", Root(4), 0, <<"whole", "hooks">>)
        /\ \A n \in {5, 6, 7} : Stored("AngstromL2", Root(n), 0, <<"whole", "keys", n>>)
    BY FactoryStored, AngstromL2Stored, WholeNames
  <1> QED
    BY <1>1, <1>2, WordOfWhole

\* The part that comes next is sent with nothing read of it yet.
LEMMA ContinueCall ==
    ASSUME WorldsInv, CallInv, Continue
    PROVE  CallInv'
  <1>1. PICK c \in Continuation(call) : call' = Sent(c, call.fetcher, call.block, call.since)
    BY DEF Continue, Await
  <1>2. /\ call # Idle /\ Enough(call) /\ chain' = chain
        /\ got' = <<>> /\ out' = <<>> /\ found' = <<>> /\ result' = <<>>
    BY DEF Continue
  <1>3. /\ Same(call', c) /\ call'.fetcher = call.fetcher /\ call'.block = call.block
        /\ call'.since = call.since
    BY <1>1, SentIs
  <1>4. Window' = Window
    BY <1>2, <1>3 DEF Window
  <1>5. SentInv' /\ IdleInv' /\ WordsAreRead'
    BY <1>2, <1>3 DEF CallInv, SentInv, IdleInv, WordsAreRead
  <1>6. call.as \in {"info", "hooksLength", "keysLength"}
    BY DEF Continuation
  <1>7. PICK b \in Window : got[1] = Word(chain[b], call.on, call.slots[1])
    BY <1>2, <1>6, OneFutureAs, EnoughIsOut, AllRead
  <1>8. b \in DOMAIN chain /\ chain[b].keys \in Nat /\ chain[b].hooks \in Nat
    <2>1. b \in DOMAIN chain
      BY <1>2, WindowIsOfChain DEF CallInv
    <2>2. \A w \in World : w.keys \in Nat /\ w.hooks \in Nat
      BY DEF World
    <2>3. chain[b] \in World
      <3> HIDE DEF World
      <3> QED
        BY <2>1 DEF WorldsInv
    <2> QED
      BY <2>1, <2>2, <2>3
  <1>9. CASE call.as = "info"
    <2> DEFINE x == Word(chain[b], "PositionManager", PositionInfoSlot(Token))
    <2>1. Same(call, PoolKeyAndInfo)
      BY <1>2, <1>9, AwaitedAs
    <2>2. got[1] = x
      BY <1>7, <2>1 DEF Same, PoolKeyAndInfo, Reader
    <2>3. c = PoolKeyOfInfo(got[1])
      BY <1>9 DEF Continuation
    <2> HIDE DEF x
    <2>4. Same(call', PoolKeyOfInfo(x))
      BY <1>3, <2>2, <2>3
    <2>5. OneFuture(PoolKeyOfInfo(x)) /\ PoolKeyOfInfo(x).as = "keyAndInfo"
      BY DEF PoolKeyOfInfo, Reader, OneFuture
    <2>6. Sized(call') /\ call'.as = "keyAndInfo"
      BY <2>4, <2>5 DEF Same, Sized, OneFuture
    <2>7. InfoAwaited(b)'
      BY <1>2, <2>4 DEF InfoAwaited, x
    <2> QED
      BY <1>2, <1>4, <1>5, <2>6, <2>7 DEF CallInv, FuturesInv, AwaitedInv, FilterInv
  <1>10. CASE call.as = "hooksLength"
    <2>1. Same(call, AllHooks)
      BY <1>2, <1>10, AwaitedAs
    <2>2. got[1] = chain[b].hooks
      BY <1>7, <2>1, LengthWords DEF Same, AllHooks, Reader
    <2>3. got[1] # 0 /\ c = AllHooksElements(got[1])
      BY <1>10 DEF Continuation
    <2> DEFINE n == chain[b].hooks
               slots == [i \in 1 .. n |-> AllHooksSlot(i - 1)]
    <2>4. /\ call'.as = "hooks" /\ call'.on = "Factory" /\ call'.of = <<>> /\ call'.size = 1
          /\ call'.slots = slots
      BY <1>3, <2>2, <2>3 DEF Same, AllHooksElements, Reader
    <2>5. Sized(call')
      <3>1. n \in Nat \ {0} /\ Len(slots) = 1 * n /\ DOMAIN slots = 1 .. 1 * n
        BY <1>8, <2>2, <2>3
      <3> HIDE DEF n, slots
      <3> QED
        BY <2>4, <3>1 DEF Sized
    <2>6. HooksAwaited(b)'
      BY <1>2, <2>2, <2>3, <2>4 DEF HooksAwaited, ReadSince
    <2> QED
      BY <1>2, <1>4, <1>5, <2>4, <2>5, <2>6 DEF CallInv, FuturesInv, AwaitedInv, FilterInv
  <1>11. CASE call.as = "keysLength"
    <2> DEFINE slot == call.arg.slot
    <2>1. LengthAwaited
      BY <1>2, <1>11, AwaitedAs
    <2>2. /\ slot \in {5, 6, 7} /\ call.slots[1] = Root(slot) /\ call.on = "AngstromL2"
          /\ call.arg = [find |-> call.arg.find, wanted |-> call.arg.wanted, slot |-> slot]
          /\ call.arg.find \in Nat \ {0}
      BY <2>1 DEF LengthAwaited, FilterArg
    <2>3. got[1] = IF slot = chain[b].keysSlot THEN chain[b].keys ELSE 0
      BY <1>7, <2>2, LengthWords
    <2>4. CASE got[1] # 0
      <3>1. c = PoolKeysStream(got[1], call.arg)
        BY <1>11, <2>4 DEF Continuation
      <3> DEFINE n == chain[b].keys
                 slots == [i \in 1 .. 3 * n |-> Plus(ArraySlot(Root(slot)), i - 1)]
      <3>2. slot = chain[b].keysSlot /\ got[1] = n /\ n # 0
        BY <2>3, <2>4
      <3>3. /\ call'.as = "keys" /\ call'.on = "AngstromL2" /\ call'.of = <<>> /\ call'.size = 3
            /\ call'.arg = call.arg /\ call'.slots = slots
        <4> HIDE DEF n
        <4>1. c = PoolKeysStream(n, call.arg)
          BY <3>1, <3>2
        <4> QED
          BY <1>3, <4>1 DEF Same, PoolKeysStream, Reader
      <3>4. Sized(call')
        <4>1. n \in Nat \ {0} /\ Len(slots) = 3 * n /\ DOMAIN slots = 1 .. 3 * n
          BY <1>8, <3>2
        <4> HIDE DEF n, slots
        <4> QED
          BY <3>3, <4>1 DEF Sized
      <3>5. KeysAwaited(b)'
        <4>1. FilterArg'
          BY <2>2, <3>3 DEF FilterArg
        <4>2. ReadSince(b)'
          BY <1>2 DEF ReadSince
        <4> QED
          BY <1>2, <3>2, <3>3, <4>1, <4>2 DEF KeysAwaited
      <3>6. FilterInv'
        <4>1. KeysOut' = {}
          BY <1>2 DEF KeysOut
        <4>2. Len(found') <= call'.arg.find
          BY <1>2, <2>2, <3>3
        <4> QED
          BY <1>2, <4>1, <4>2 DEF FilterInv, ToSet
      <3> QED
        BY <1>2, <1>4, <1>5, <3>3, <3>4, <3>5, <3>6 DEF CallInv, FuturesInv, AwaitedInv
    <2>5. CASE got[1] = 0
      <3>1. slot > 5 /\ c = PoolKeysAt(slot - 1, call.arg)
        BY <1>11, <2>5 DEF Continuation
      <3> DEFINE find == call.arg.find
                 wanted == call.arg.wanted
                 next == slot - 1
      <3>2. /\ call'.as = "keysLength" /\ call'.on = "AngstromL2" /\ call'.of = <<>>
            /\ call'.size = 1 /\ call'.slots = <<Root(next)>>
            /\ call'.arg = [find |-> find, wanted |-> wanted, slot |-> next]
        <4> HIDE DEF next, find, wanted
        <4>1. c = PoolKeysAt(next, call.arg)
                /\ call.arg = [find |-> find, wanted |-> wanted, slot |-> slot]
          BY <2>2, <3>1 DEF next, find, wanted
        <4> HIDE DEF slot
        <4> QED
          BY <1>3, <4>1 DEF Same, PoolKeysAt, Reader
      <3>3. Sized(call')
        <4>1. 1 \in Nat \ {0} /\ Len(call'.slots) = 1 /\ DOMAIN call'.slots = 1 .. 1
          BY <3>2
        <4> QED
          BY <3>2, <4>1 DEF Sized
      <3>4. next \in {5, 6, 7}
        BY <2>2, <3>1
      <3>5. ASSUME NEW s \in {5, 6, 7}, next < s
            PROVE  \E d \in Window : s = chain[d].keysSlot => chain[d].keys = 0
        <4>1. CASE s = slot
          BY <2>3, <2>5, <4>1
        <4>2. CASE s # slot
          <5>1. slot < s
            BY <2>2, <3>5, <4>2
          <5> QED
            BY <2>1, <5>1 DEF LengthAwaited
        <4> QED
          BY <4>1, <4>2
      <3> HIDE DEF find, wanted, next
      <3>6. LengthAwaited'
        <4>1. FilterArg' /\ call'.arg.slot = next
          BY <2>2, <3>2 DEF FilterArg, find
        <4> QED
          BY <1>2, <1>4, <3>2, <3>4, <3>5, <4>1 DEF LengthAwaited
      <3> QED
        BY <1>2, <1>4, <1>5, <3>2, <3>3, <3>6 DEF CallInv, FuturesInv, AwaitedInv, FilterInv
    <2> QED
      BY <2>4, <2>5
  <1> QED
    BY <1>6, <1>9, <1>10, <1>11

\* A key of the array, of three words read at blocks of their own, none before
\* the one its length was read at.
LEMMA StreamKey ==
    ASSUME WorldsInv, BlocksInv, NEW b \in DOMAIN chain, NEW words, NEW g \in 1 .. chain[b].keys,
           NEW slot, slot = chain[b].keysSlot,
           \A j \in {1, 2, 3} : \E d \in DOMAIN chain : b <= d /\
               words[(g - 1) * 3 + j]
                 = Word(chain[d], "AngstromL2", Plus(ArraySlot(Root(slot)), (g - 1) * 3 + j - 1))
    PROVE  KeyOf(words, g) = KeyTuple(PoolKeys[g]) /\ g \in DOMAIN PoolKeys
  <1> DEFINE three == [i \in 1 .. 3 |-> words[(g - 1) * 3 + i]]
             base == PushedSlot(slot, g)
             array == ArraySlot(Root(slot))
  <1>1. /\ g \in DOMAIN PoolKeys /\ g \in Int /\ PoolKeys[g] \in KeyRecords /\ slot \in {5, 6, 7}
    <2>1. PoolKeys \in Seq(KeyRecords)
      BY FieldsAssumption DEF KeyRecords
    <2>2. chain[b].keys <= Len(PoolKeys) /\ Len(PoolKeys) \in Nat
      BY LengthsAreNat DEF BlocksInv
    <2>3. chain[b].keys \in Nat /\ chain[b].keysSlot \in {5, 6, 7}
      <3>1. \A w \in World : w.keys \in Nat /\ w.keysSlot \in {5, 6, 7}
        BY DEF World
      <3>2. chain[b] \in World
        <4> HIDE DEF World
        <4> QED
          BY DEF WorldsInv
      <3> QED
        BY <3>1, <3>2
    <2> HIDE DEF KeyRecords
    <2> QED
      BY <2>1, <2>2, <2>3
  <1>2. /\ Plus(array, (g - 1) * 3 + 1 - 1) = base
        /\ Plus(array, (g - 1) * 3 + 2 - 1) = Plus(base, 1)
        /\ Plus(array, (g - 1) * 3 + 3 - 1) = Plus(base, 2)
    <2>1. \A n : Plus(array, n) = [base |-> <<Root(slot)>>, off |-> 0 + n]
      BY DEF Plus, ArraySlot
    <2>2. base = [base |-> <<Root(slot)>>, off |-> 0 + 3 * (g - 1)]
      BY DEF Plus, ArraySlot, PushedSlot
    <2>3. /\ Plus(base, 1) = [base |-> <<Root(slot)>>, off |-> 0 + 3 * (g - 1) + 1]
          /\ Plus(base, 2) = [base |-> <<Root(slot)>>, off |-> 0 + 3 * (g - 1) + 2]
      <3> HIDE DEF base
      <3> QED
        BY <2>2 DEF Plus
    <2>4. /\ 0 + ((g - 1) * 3 + 1 - 1) = 0 + 3 * (g - 1)
          /\ 0 + ((g - 1) * 3 + 2 - 1) = 0 + 3 * (g - 1) + 1
          /\ 0 + ((g - 1) * 3 + 3 - 1) = 0 + 3 * (g - 1) + 2
      BY <1>1
    <2> HIDE DEF base, array
    <2> QED
      BY <2>1, <2>2, <2>3, <2>4
  <1>3. three[1] = words[(g - 1) * 3 + 1] /\ three[2] = words[(g - 1) * 3 + 2]
          /\ three[3] = words[(g - 1) * 3 + 3]
    OBVIOUS
  <1> HIDE DEF three, base, array
  <1>4. PICK d1 \in DOMAIN chain : b <= d1 /\ three[1] = Word(chain[d1], "AngstromL2", base)
    BY <1>2, <1>3 DEF array
  <1>5. PICK d2 \in DOMAIN chain :
            b <= d2 /\ three[2] = Word(chain[d2], "AngstromL2", Plus(base, 1))
    BY <1>2, <1>3 DEF array
  <1>6. PICK d3 \in DOMAIN chain :
            b <= d3 /\ three[3] = Word(chain[d3], "AngstromL2", Plus(base, 2))
    BY <1>2, <1>3 DEF array
  <1> DEFINE which == <<"pushed", g, slot>>
             key == PoolKeys[g]
  <1>7. KeyStoredAt("AngstromL2", base, which)
    BY <1>1, AngstromL2Stored DEF base
  <1>8. ASSUME NEW f PROVE KeyVar(f, which)[1] = KeyTypes[f]
    BY DEF KeyVar
  <1>9. ASSUME NEW d \in DOMAIN chain, b <= d
        PROVE  \A f : Value(chain[d], KeyVar(f, which)) = Shown(KeyTypes[f], key[f])
    <2>1. slot = chain[d].keysSlot /\ chain[b].keys <= chain[d].keys
      BY <1>9 DEF BlocksInv
    <2>2. chain[b].keys \in Nat /\ chain[d].keys \in Nat
      <3>1. \A w \in World : w.keys \in Nat
        BY DEF World
      <3>2. chain[b] \in World /\ chain[d] \in World
        <4> HIDE DEF World
        <4> QED
          BY DEF WorldsInv
      <3> QED
        BY <3>1, <3>2
    <2>3. g <= chain[d].keys
      BY <2>1, <2>2
    <2>4. ASSUME NEW f
          PROVE  Value(chain[d], KeyVar(f, <<"pushed", g, slot>>))
                   = Shown(KeyTypes[f], PoolKeys[g][f])
      <3>1. slot = chain[d].keysSlot /\ g <= chain[d].keys =>
                Value(chain[d], KeyVar(f, <<"pushed", g, slot>>))
                  = Shown(KeyTypes[f], PoolKeys[g][f])
        BY PushedValues
      <3> QED
        BY <2>1, <2>3, <3>1
    <2> QED
      BY <2>4
  <1> HIDE DEF which, key
  <1>10. \A w \in {chain[d1], chain[d2], chain[d3]} : \A f :
             Value(w, KeyVar(f, which)) = Shown(KeyTypes[f], key[f])
    BY <1>4, <1>5, <1>6, <1>9
  <1>11. key \in KeyRecords
    BY <1>1 DEF key
  <1>12. DecodePoolKey(three) = KeyTuple(key)
    BY <1>4, <1>5, <1>6, <1>7, <1>8, <1>10, <1>11, DecodeKey
  <1> QED
    BY <1>1, <1>12 DEF KeyOf, three, key

\* A word comes back, of the last block of the window.
LEMMA AnswerCall ==
    ASSUME WorldsInv, BlocksInv, CallInv, Answer
    PROVE  CallInv'
  <1> DEFINE b == ReadBlock(call)
  <1>1. /\ call # Idle /\ result = <<>> /\ b \in DOMAIN chain /\ ~Enough(call)
        /\ chain' = chain /\ call' = call /\ result' = result
    BY DEF Answer
  <1>2. PICK i \in Pending :
          LET g    == (i - 1) \div call.size + 1
              last == \A j \in Pending \ {i} : (j - 1) \div call.size + 1 # g
          IN  /\ got' = [j \in DOMAIN got \cup {i} |->
                           IF j = i THEN Word(chain[b], call.on, call.slots[i]) ELSE got[j]]
              /\ out' = IF last THEN Append(out, g) ELSE out
              /\ found' = IF last /\ call.as = "keys" /\ KeyOf(got', g) \in call.arg.wanted
                          THEN Append(found, KeyOf(got', g)) ELSE found
    BY DEF Answer
  <1> DEFINE g == GroupOf(call, i)
             last == \A j \in Pending \ {i} : GroupOf(call, j) # g
  <1>3. /\ i \in DOMAIN call.slots /\ i \notin DOMAIN got
        /\ out' = (IF last THEN Append(out, g) ELSE out)
        /\ found' = IF last /\ call.as = "keys" /\ KeyOf(got', g) \in call.arg.wanted
                    THEN Append(found, KeyOf(got', g)) ELSE found
    BY <1>2 DEF Pending, GroupOf
  <1>4. b \in Window /\ Window \subseteq DOMAIN chain /\ \A d \in Window : d <= b
    BY <1>1, WindowIsOfChain DEF CallInv
  <1>5. Window' = Window
    BY <1>1 DEF Window
  <1>6. DOMAIN got' = DOMAIN got \cup {i} /\ got'[i] = Word(chain[b], call.on, call.slots[i])
          /\ \A j \in DOMAIN got : got'[j] = got[j]
    BY <1>2, <1>3
  <1> HIDE DEF b, g, last
  <1>7. SentInv' /\ IdleInv' /\ WordsAreRead'
    BY <1>1, <1>4, <1>5, <1>6 DEF WordsAreRead, CallInv, SentInv, IdleInv
  <1>8. /\ Sized(call) /\ DOMAIN got \subseteq DOMAIN call.slots
        /\ out \in Seq(1 .. GroupsOf(call))
        /\ \A k, l \in DOMAIN out : out[k] = out[l] => k = l
        /\ \A k \in DOMAIN out : \A j \in DOMAIN call.slots :
             GroupOf(call, j) = out[k] => j \in DOMAIN got
    BY <1>1 DEF CallInv, FuturesInv
  <1>9. g \in 1 .. GroupsOf(call) /\ GroupsOf(call) \in Nat
    BY <1>3, <1>8, Groups DEF g
  <1>10. \A k \in DOMAIN out : out[k] # g
    BY <1>3, <1>8 DEF g
  <1>11. last => \A j \in DOMAIN call.slots : GroupOf(call, j) = g => j \in DOMAIN got'
    BY <1>3, <1>6 DEF last, Pending
  <1>12. ASSUME last
         PROVE  /\ out' \in Seq(1 .. GroupsOf(call)) /\ DOMAIN out' = 1 .. Len(out) + 1
                /\ Len(out) \in Nat /\ DOMAIN out = 1 .. Len(out)
                /\ out'[Len(out) + 1] = g /\ \A k \in DOMAIN out : out'[k] = out[k]
    BY <1>3, <1>8, <1>9, <1>12
  <1>13. FuturesInv'
    <2>1. CASE last
      <3>1. \A k, l \in DOMAIN out' : out'[k] = out'[l] => k = l
        BY <1>8, <1>10, <1>12, <2>1
      <3>2. \A k \in DOMAIN out' : \A j \in DOMAIN call.slots :
               GroupOf(call, j) = out'[k] => j \in DOMAIN got'
        BY <1>6, <1>8, <1>11, <1>12, <2>1
      <3>3. DOMAIN got' \subseteq DOMAIN call.slots
        BY <1>3, <1>6, <1>8
      <3>4. out' \in Seq(1 .. GroupsOf(call)) /\ Sized(call)
        BY <1>8, <1>12, <2>1
      <3> QED
        BY <1>1, <3>1, <3>2, <3>3, <3>4 DEF FuturesInv, GroupOf, GroupsOf, Sized
    <2>2. CASE ~last
      <3>1. out' = out
        BY <1>3, <2>2
      <3>2. DOMAIN got' \subseteq DOMAIN call.slots
        BY <1>3, <1>6, <1>8
      <3>3. \A k \in DOMAIN out' : \A j \in DOMAIN call.slots :
               GroupOf(call, j) = out'[k] => j \in DOMAIN got'
        BY <1>6, <1>8, <3>1
      <3> QED
        BY <1>1, <1>8, <3>1, <3>2, <3>3 DEF FuturesInv, GroupOf, GroupsOf, Sized
    <2> QED
      BY <2>1, <2>2
  <1>14. ASSUME NEW d \in Window, ReadSince(d) PROVE ReadSince(d)'
    <2> SUFFICES ASSUME NEW j \in DOMAIN got'
                 PROVE  \E e \in Window : d <= e /\ got'[j] = Word(chain[e], call.on, call.slots[j])
      BY <1>1, <1>5 DEF ReadSince
    <2>1. CASE j = i
      BY <1>4, <1>6, <2>1
    <2>2. CASE j # i
      BY <1>6, <1>14, <2>2 DEF ReadSince
    <2> QED
      BY <2>1, <2>2
  <1>15. AwaitedInv'
    <2>1. \A d : InfoAwaited(d) => InfoAwaited(d)'
      BY <1>1 DEF InfoAwaited, Same
    <2>2. \A d \in Window : KeysAwaited(d) => KeysAwaited(d)'
      BY <1>1, <1>14 DEF KeysAwaited, FilterArg
    <2>3. \A d \in Window : HooksAwaited(d) => HooksAwaited(d)'
      BY <1>1, <1>14 DEF HooksAwaited
    <2>4. LengthAwaited => LengthAwaited'
      BY <1>1, <1>5 DEF LengthAwaited, FilterArg
    <2>5. (\E c \in Calls : c.as # "keysLength" /\ Same(call, c)) =>
             \E c \in Calls : c.as # "keysLength" /\ Same(call', c)
      BY <1>1
    <2> QED
      BY <1>1, <1>5, <2>1, <2>2, <2>3, <2>4, <2>5 DEF CallInv, AwaitedInv
  <1>16. FilterInv'
    <2> SUFFICES ASSUME call.as = "keys" PROVE FilterInv'
      BY <1>1 DEF FilterInv
    <2>1. /\ found \in Seq(KeysOut) /\ ToSet(found) = KeysOut \cap call.arg.wanted
          /\ \A k, l \in DOMAIN found : found[k] = found[l] => k = l
          /\ Len(found) <= call.arg.find
      BY <1>1 DEF CallInv, FilterInv
    <2>2. PICK d \in Window : KeysAwaited(d)
      BY <1>1, AwaitedAs
    <2>3. CASE ~last
      <3>1. out' = out /\ found' = found
        BY <1>3, <2>3
      <3>2. KeysOut' = KeysOut
        BY <3>1 DEF KeysOut
      <3> QED
        BY <1>1, <2>1, <3>1, <3>2 DEF FilterInv
    <2>4. CASE last
      <3> DEFINE key == KeyTuple(PoolKeys[g])
      <3>1. g \in 1 .. chain[d].keys /\ GroupsOf(call) = chain[d].keys
        <4>1. chain[d].keys \in Nat
          <5>1. \A w \in World : w.keys \in Nat
            BY DEF World
          <5>2. chain[d] \in World
            <6> HIDE DEF World
            <6> QED
              BY <1>4 DEF WorldsInv
          <5> QED
            BY <5>1, <5>2
        <4>2. call.size = 3 /\ Len(call.slots) = 3 * chain[d].keys /\ chain[d].keys # 0
          BY <2>2, <4>1 DEF KeysAwaited
        <4>3. GroupsOf(call) = chain[d].keys
          BY <1>8, <4>1, <4>2, Groups
        <4> QED
          BY <1>9, <4>3
      <3>2. KeyOf(got', g) = key /\ g \in DOMAIN PoolKeys
        <4> DEFINE slot == chain[d].keysSlot
                   n == chain[d].keys
        <4>1. call.on = "AngstromL2" /\ call.size = 3
              /\ call.slots = [j \in 1 .. 3 * n |-> Plus(ArraySlot(Root(slot)), j - 1)]
          BY <2>2 DEF KeysAwaited
        <4>2. n \in Nat /\ g \in 1 .. n
          BY <1>9, <3>1
        <4>3. ReadSince(d)'
          BY <1>14, <2>2 DEF KeysAwaited
        <4> HIDE DEF n, slot
        <4>4. ASSUME NEW j \in {1, 2, 3}
              PROVE  \E e \in DOMAIN chain : d <= e /\
                       got'[(g - 1) * 3 + j]
                         = Word(chain[e], "AngstromL2",
                                Plus(ArraySlot(Root(slot)), (g - 1) * 3 + j - 1))
          <5> DEFINE m == (g - 1) * 3 + j
          <5>1. m \in 1 .. 3 * n /\ (m - 1) \div 3 + 1 = g
            BY <4>2
          <5> HIDE DEF m
          <5>2. m \in DOMAIN call.slots /\ GroupOf(call, m) = g
                /\ call.slots[m] = Plus(ArraySlot(Root(slot)), m - 1)
            BY <4>1, <5>1 DEF GroupOf
          <5>3. m \in DOMAIN got'
            BY <1>11, <2>4, <5>2
          <5>4. PICK e \in Window : d <= e /\ got'[m] = Word(chain[e], call.on, call.slots[m])
            BY <1>1, <1>5, <4>3, <5>3 DEF ReadSince
          <5>5. (g - 1) * 3 + j = m /\ (g - 1) * 3 + j - 1 = m - 1
            BY <4>2 DEF m
          <5> QED
            BY <1>4, <4>1, <5>2, <5>4, <5>5
        <4>5. d \in DOMAIN chain
          BY <1>4
        <4> QED
          BY <3>1, <4>4, <4>5, StreamKey DEF slot
      <3>3. KeysOut' = KeysOut \cup {key}
        <4>1. KeysOut' = {KeyTuple(PoolKeys[out'[k]]) : k \in DOMAIN out'}
          BY DEF KeysOut
        <4>2. DOMAIN out' = DOMAIN out \cup {Len(out) + 1}
          BY <1>12, <2>4
        <4> QED
          BY <1>12, <2>4, <4>1, <4>2 DEF KeysOut
      <3>4. key \notin KeysOut
        <4> SUFFICES ASSUME NEW k \in DOMAIN out, key = KeyTuple(PoolKeys[out[k]])
                     PROVE  FALSE
          BY DEF KeysOut
        <4>1. out[k] \in DOMAIN PoolKeys
          <5>1. out[k] \in 1 .. chain[d].keys
            <6>1. out[k] \in 1 .. GroupsOf(call)
              <7> DEFINE groups == 1 .. GroupsOf(call)
              <7> HIDE DEF groups
              <7>1. out \in Seq(groups)
                BY <1>8 DEF groups
              <7>2. out[k] \in groups
                BY <7>1
              <7> QED
                BY <7>2 DEF groups
            <6> QED
              BY <3>1, <6>1
          <5>2. \E S : PoolKeys \in Seq(S)
            BY FieldsAssumption, Zenon
          <5>3. chain[d].keys <= Len(PoolKeys)
            BY <1>4 DEF BlocksInv
          <5>4. chain[d].keys \in Nat
            BY <1>9, <3>1
          <5> QED
            BY <5>1, <5>2, <5>3, <5>4
        <4>2. out[k] = g
          BY <3>2, <4>1, FieldsAssumption, Zenon
        <4> QED
          BY <1>10, <4>2
      <3>5. found \in Seq(KeysOut')
        BY <2>1, <3>3
      <3> HIDE DEF key
      <3>6. CASE key \notin call.arg.wanted
        <4>1. found' = found
          BY <1>3, <3>2, <3>6
        <4>2. KeysOut' \cap call.arg.wanted = KeysOut \cap call.arg.wanted
          BY <3>3, <3>6
        <4> QED
          BY <1>1, <2>1, <3>5, <4>1, <4>2 DEF FilterInv
      <3>7. CASE key \in call.arg.wanted
        <4>1. found' = Append(found, key)
          BY <1>3, <2>4, <3>2, <3>7
        <4>2. Len(found) \in Nat /\ DOMAIN found = 1 .. Len(found)
          BY <2>1
        <4>3. /\ found' \in Seq(KeysOut') /\ DOMAIN found' = 1 .. Len(found) + 1
              /\ Len(found') = Len(found) + 1
              /\ found'[Len(found) + 1] = key /\ \A k \in DOMAIN found : found'[k] = found[k]
          BY <3>3, <3>5, <4>1
        <4>4. \A k \in DOMAIN found : found[k] # key
          BY <2>1, <3>4
        <4>5. \A k, l \in DOMAIN found' : found'[k] = found'[l] => k = l
          BY <2>1, <4>2, <4>3, <4>4
        <4>6. ToSet(found') = ToSet(found) \cup {key}
          BY <4>2, <4>3 DEF ToSet
        <4>7. ToSet(found') = KeysOut' \cap call.arg.wanted
          BY <2>1, <3>3, <3>7, <4>6
        <4>8. Len(found') <= call.arg.find
          <5>1. Len(found) # call.arg.find /\ call.arg.find \in Nat
            BY <1>1, <2>2 DEF Enough, KeysAwaited, FilterArg
          <5> QED
            BY <2>1, <4>2, <4>3, <5>1
        <4> QED
          BY <1>1, <4>3, <4>5, <4>7, <4>8 DEF FilterInv
      <3> QED
        BY <3>6, <3>7
    <2> QED
      BY <2>3, <2>4
  <1> QED
    BY <1>7, <1>13, <1>15, <1>16 DEF CallInv

-------------------------------------------------------------------------------
(* The invariant, and what a result is worth.                              *)

\* No step breaks what is known of the call.
LEMMA NextCall == ReadsInv /\ [Next]_vars => CallInv'
  <1> SUFFICES ASSUME ReadsInv, [Next]_vars PROVE CallInv'
    OBVIOUS
  <1> USE DEF ReadsInv
  <1>1. CASE UNCHANGED vars
    BY <1>1, CallStays DEF vars
  <1>2. CASE ReadFails \/ Return
    BY <1>2, CallStays DEF ReadFails, Return
  <1> QED
    BY <1>1, <1>2, AskCall, AnswerCall, ContinueCall, NewBlockCall DEF Next

\* Every word that came back is the one the contract holds in its slot, at a
\* block of the window, whatever blocks are added while the call waits; a part
\* that follows another asks for what that one read; and the filter has found
\* the wanted keys of the futures that are out.
THEOREM ReadsCorrect == Spec => []ReadsInv
  <1>1. Init => ReadsInv
    BY InitWorlds, InitBlocks, InitCall DEF ReadsInv
  <1>2. ReadsInv /\ [Next]_vars => ReadsInv'
    BY NextWorlds, NextBlocks, NextCall DEF ReadsInv
  <1> QED
    BY <1>1, <1>2, PTL DEF Spec

\* Only Return makes a result, and nothing moves once there is one.
LEMMA OkSteps ==
    ASSUME ReadsInv, [Next]_vars
    PROVE  UNCHANGED vars \/ ~Ok' \/ Return
  <1>1. CASE Ask
    BY <1>1 DEF Ask, Ok, ReadsInv, CallInv, IdleInv
  <1>2. CASE Answer \/ Continue \/ NewBlock
    BY <1>2 DEF Answer, Continue, NewBlock, Ok
  <1>3. CASE ReadFails
    BY <1>3 DEF ReadFails, Ok
  <1> QED
    BY <1>1, <1>2, <1>3 DEF Next

\* The same reads are decoded the same.
LEMMA SameTold ==
    ASSUME NEW c, Same(call, c), NEW W
    PROVE  /\ ReadIn(call, W) => ReadIn(c, W)
           /\ Told(c, W) => Told(call, W)
  <1>1. /\ call.on = c.on /\ call.slots = c.slots /\ call.as = c.as /\ call.arg = c.arg
        /\ call.of = c.of
    BY DEF Same
  <1>2. Decode(call) = Decode(c)
    BY <1>1 DEF Decode, GrowthOf
  <1> QED
    BY <1>1, <1>2 DEF ReadIn, Told

\* What a call decodes once it has enough.
LEMMA FieldsTold ==
    ASSUME ReadsInv, call # Idle, Enough(call), call.of # <<>>
    PROVE  Told(call, Window)
  <1>1. WorldsInv /\ BlocksInv /\ CallInv /\ Window \in SUBSET DOMAIN chain
    BY WindowIsOfChain DEF ReadsInv, CallInv
  <1>2. call.as \notin {"info", "hooksLength", "keysLength", "keys", "hooks", "growth"}
    <2>1. PoolKeyAndInfo.of = <<>> /\ AllHooks.of = <<>>
      BY DEF PoolKeyAndInfo, AllHooks, Reader
    <2>2. \A c \in Calls : c.as = "growth" => c.of = <<>>
      BY CallKinds DEF Simple, PoolKeyAndInfo, AllHooks, Reader
    <2> QED
      BY <1>1, <2>1, <2>2, AwaitedAs DEF Same, LengthAwaited, KeysAwaited, HooksAwaited
  <1>3. ReadIn(call, Window)
    BY <1>1, <1>2, OneFutureAs, EnoughIsOut, AllRead
  <1>4. CASE call.as = "keyAndInfo"
    <2>1. PICK b \in Window : InfoAwaited(b)
      BY <1>1, <1>4, AwaitedAs
    <2> DEFINE x == Word(chain[b], "PositionManager", PositionInfoSlot(Token))
    <2>2. Same(call, PoolKeyOfInfo(x))
      BY <2>1 DEF InfoAwaited
    <2>3. x = Word(chain[b], "PositionManager", PositionInfoSlot(Token))
      OBVIOUS
    <2> HIDE DEF x
    <2>4. ReadIn(PoolKeyOfInfo(x), Window)
      BY <1>3, <2>2, SameTold
    <2>5. Told(PoolKeyOfInfo(x), Window)
      BY <1>1, <2>3, <2>4, KeyAndInfoTold
    <2> QED
      BY <2>2, <2>5, SameTold
  <1>5. CASE call.as # "keyAndInfo"
    <2>1. PICK c \in Calls : Same(call, c) /\ Simple(c)
      BY <1>1, <1>2, <1>5, AwaitedAs
    <2>2. ReadIn(c, Window) /\ c.of # <<>>
      BY <1>3, <2>1, SameTold DEF Same
    <2>3. \/ c \in OtherReaders
          \/ \E t \in Initialized : c \in ReadersOfTick(t)
          \/ \E r \in Ranges : c \in ReadersOfPosition(r[1], r[2])
      <3>1. Simple(PoolKeyAndInfo) \/ Simple(AllHooks) => FALSE
        BY DEF Simple, PoolKeyAndInfo, AllHooks, Reader
      <3>2. c.as \notin {"growth", "keysLength"} /\ c # PoolKeyAndInfo /\ c # AllHooks
        BY <2>1, <3>1 DEF Simple
      <3> QED
        BY <3>2, CallKinds
    <2>4. Told(c, Window)
      <3>1. CASE c \in OtherReaders
        BY <1>1, <2>2, <3>1, OtherTold
      <3>2. CASE \E t \in Initialized : c \in ReadersOfTick(t)
        BY <1>1, <2>2, <3>2, TickTold
      <3>3. CASE \E r \in Ranges : c \in ReadersOfPosition(r[1], r[2])
        BY <2>2, <3>3, PositionTold
      <3> QED
        BY <2>3, <3>1, <3>2, <3>3
    <2> QED
      BY <2>1, <2>4, SameTold
  <1> QED
    BY <1>4, <1>5

\* Every component of a result is what its variable held at a block of the
\* window, for every reader of the six contracts: the slot it makes is the one
\* the variable is in, for any pool, token, hook, tick and position, and what
\* it cuts out of the word and decodes is the value, for any value of its type.
THEOREM FieldsCorrect == Spec => []FieldsAreTrue
  <1>1. Init => FieldsAreTrue
    BY DEF Init, FieldsAreTrue, Ok
  <1>2. ReadsInv /\ FieldsAreTrue /\ [Next]_vars => FieldsAreTrue'
    <2> SUFFICES ASSUME ReadsInv, FieldsAreTrue, [Next]_vars PROVE FieldsAreTrue'
      OBVIOUS
    <2>1. CASE UNCHANGED vars
      <3>1. Window' = Window
        BY <2>1 DEF vars, Window
      <3> QED
        BY <2>1, <3>1 DEF vars, FieldsAreTrue, Ok
    <2>2. CASE ~Ok'
      BY <2>2 DEF FieldsAreTrue
    <2>3. CASE Return
      <3>1. /\ call # Idle /\ Enough(call) /\ result' = <<"ok", Decode(call)>>
            /\ chain' = chain /\ call' = call
        BY <2>3 DEF Return
      <3>2. Window' = Window
        BY <3>1 DEF Window
      <3>3. call.of # <<>> => Told(call, Window)
        BY <3>1, FieldsTold
      <3>4. result'[2] = Decode(call)
        BY <3>1
      <3> QED
        BY <3>1, <3>2, <3>3, <3>4 DEF FieldsAreTrue, Told
    <2> QED
      BY <2>1, <2>2, <2>3, OkSteps
  <1> QED
    BY <1>1, <1>2, ReadsCorrect, PTL DEF Spec

-------------------------------------------------------------------------------
(* Growth: the words of the three variables, and what is made of them.      *)

\* The variables that growth is kept in.
LEMMA GrowthValues ==
    ASSUME NEW w, NEW a
    PROVE  /\ Value(w, <<"whole", "global", a>>) = w.global[a]
           /\ \A t : Value(w, <<"whole", "outside", a, t>>) = w.outside[a][t]
  BY DEF Value, Shown

\* The words that growth is kept in, in the three layouts.
LEMMA GrowthWords ==
    ASSUME NEW w, NEW t \in Initialized
    PROVE  /\ Word(w, "PoolManager", Plus(PoolStateSlot, 1)) = w.global["fee0"]
           /\ Word(w, "PoolManager", Plus(PoolStateSlot, 2)) = w.global["fee1"]
           /\ Word(w, "PoolManager", Plus(PoolTickSlot(t), 1)) = w.outside["fee0"][t]
           /\ Word(w, "PoolManager", Plus(PoolTickSlot(t), 2)) = w.outside["fee1"][t]
           /\ Word(w, "Angstrom", AngstromGlobalSlot) = w.global["reward"]
           /\ Word(w, "Angstrom", AngstromOutsideSlot(t)) = w.outside["reward"][t]
           /\ Word(w, "AngstromL2", AngstromL2GlobalSlot) = w.global["reward"]
           /\ Word(w, "AngstromL2", AngstromL2OutsideSlot(t)) = w.outside["reward"][t]
  <1>1. /\ Stored("PoolManager", Plus(PoolStateSlot, 1), 0, <<"whole", "global", "fee0">>)
        /\ Stored("PoolManager", Plus(PoolStateSlot, 2), 0, <<"whole", "global", "fee1">>)
        /\ Stored("PoolManager", Plus(PoolTickSlot(t), 1), 0, <<"whole", "outside", "fee0", t>>)
        /\ Stored("PoolManager", Plus(PoolTickSlot(t), 2), 0, <<"whole", "outside", "fee1", t>>)
    BY PoolManagerStored, TickStored, WholeNames
  <1>2. /\ Stored("Angstrom", AngstromGlobalSlot, 0, <<"whole", "global", "reward">>)
        /\ Stored("Angstrom", AngstromOutsideSlot(t), 0, <<"whole", "outside", "reward", t>>)
    BY AngstromStored, WholeNames
  <1>3. /\ Stored("AngstromL2", AngstromL2GlobalSlot, 0, <<"whole", "global", "reward">>)
        /\ Stored("AngstromL2", AngstromL2OutsideSlot(t), 0, <<"whole", "outside", "reward", t>>)
    BY AngstromL2Stored, WholeNames
  <1> QED
    BY <1>1, <1>2, <1>3, WordOfWhole, GrowthValues

\* With all words of one block, and the tick of that block, the result is what
\* GrowthIsPaid says of the three variables.
LEMMA GrowthTold ==
    ASSUME ReadsInv, GrowthIsPaid, call # Idle, Enough(call), call.as = "growth",
           NEW b \in Window, Window = {b}, call.arg[1] = chain[b].tick,
           NEW k \in DOMAIN call.arg[4]
    PROVE  LET below == chain[b].below[call.arg[4][k]] IN
           Decode(call)[k] = Sub(below[call.arg[3]], below[call.arg[2]])
  <1> DEFINE w == chain[b]
             now == call.arg[1]
             lower == call.arg[2]
             upper == call.arg[3]
  <1>1. CallInv /\ ReadIn(call, Window) /\ b \in DOMAIN chain
    BY OneFutureAs, EnoughIsOut, AllRead, WindowIsOfChain DEF ReadsInv, CallInv
  <1>2. PICK c \in Calls : Same(call, c) /\ c.as = "growth"
    BY <1>1, AwaitedAs
  <1>3. /\ c.arg[2] <= c.arg[3] /\ c.arg[2] \in Initialized /\ c.arg[3] \in Initialized
        /\ c \in GrowthReaders(c.arg[1], c.arg[2], c.arg[3])
    BY <1>2, CallKinds DEF Simple, PoolKeyAndInfo, AllHooks, Reader
  <1>4. /\ lower \in Initialized /\ upper \in Initialized /\ lower <= upper
        /\ call.on = c.on /\ call.slots = c.slots /\ call.arg = c.arg
        /\ c \in GrowthReaders(now, lower, upper)
    BY <1>2, <1>3 DEF Same
  <1>5. \A i \in DOMAIN call.slots : got[i] = Word(w, call.on, call.slots[i])
    BY <1>1 DEF ReadIn
  <1> DEFINE a == call.arg[4][k]
             n == Len(call.arg[4])
  <1>6. /\ a \in Accumulators
        /\ got[k] = w.global[a] /\ got[n + k] = w.outside[a][lower]
        /\ got[2 * n + k] = w.outside[a][upper]
    <2>1. CASE c = PositionFeeGrowthInside(now, lower, upper)
      <3>1. call.arg[4] = <<"fee0", "fee1">>
        BY <1>4, <2>1, PoolManagerSlots
      <3>2. n = 2 /\ k \in {1, 2} /\ a = IF k = 1 THEN "fee0" ELSE "fee1"
        BY <3>1
      <3>3. /\ call.on = "PoolManager" /\ DOMAIN call.slots = 1 .. 6
            /\ call.slots[1] = Plus(PoolStateSlot, 1) /\ call.slots[2] = Plus(PoolStateSlot, 2)
            /\ call.slots[3] = Plus(PoolTickSlot(lower), 1)
            /\ call.slots[4] = Plus(PoolTickSlot(lower), 2)
            /\ call.slots[5] = Plus(PoolTickSlot(upper), 1)
            /\ call.slots[6] = Plus(PoolTickSlot(upper), 2)
        BY <1>4, <2>1, PoolManagerSlots
      <3> HIDE DEF w, lower, upper, n, a
      <3>4. /\ got[k] = Word(w, "PoolManager", Plus(PoolStateSlot, k))
            /\ got[n + k] = Word(w, "PoolManager", Plus(PoolTickSlot(lower), k))
            /\ got[2 * n + k] = Word(w, "PoolManager", Plus(PoolTickSlot(upper), k))
        <4>1. CASE k = 1
          BY <1>5, <3>2, <3>3, <4>1
        <4>2. CASE k = 2
          BY <1>5, <3>2, <3>3, <4>2
        <4> QED
          BY <3>2, <4>1, <4>2
      <3> QED
        BY <1>4, <3>2, <3>4, GrowthWords DEF Accumulators
    <2>2. CASE c = AngstromGrowthInside(now, lower, upper)
      <3>1. call.arg[4] = <<"reward">>
        BY <1>4, <2>2, AngstromSlots
      <3>2. n = 1 /\ k = 1 /\ a = "reward"
        BY <3>1
      <3>3. /\ got[1] = Word(w, "Angstrom", AngstromGlobalSlot)
            /\ got[2] = Word(w, "Angstrom", AngstromOutsideSlot(lower))
            /\ got[3] = Word(w, "Angstrom", AngstromOutsideSlot(upper))
        BY <1>4, <1>5, <2>2, AngstromSlots
      <3> HIDE DEF w, lower, upper, n, a
      <3> QED
        BY <1>4, <3>2, <3>3, GrowthWords DEF Accumulators
    <2>3. CASE c = AngstromL2GrowthInside(now, lower, upper)
      <3>1. call.arg[4] = <<"reward">>
        BY <1>4, <2>3, AngstromL2Slots
      <3>2. n = 1 /\ k = 1 /\ a = "reward"
        BY <3>1
      <3>3. /\ got[1] = Word(w, "AngstromL2", AngstromL2GlobalSlot)
            /\ got[2] = Word(w, "AngstromL2", AngstromL2OutsideSlot(lower))
            /\ got[3] = Word(w, "AngstromL2", AngstromL2OutsideSlot(upper))
        BY <1>4, <1>5, <2>3, AngstromL2Slots
      <3> HIDE DEF w, lower, upper, n, a
      <3> QED
        BY <1>4, <3>2, <3>3, GrowthWords DEF Accumulators
    <2> QED
      BY <1>4, <2>1, <2>2, <2>3 DEF GrowthReaders
  <1>7. Decode(call)[k]
          = GrowthInside(now, lower, upper, got[k], got[n + k], got[2 * n + k])
    BY DEF Decode, GrowthOf
  <1>8. GrowthInside(now, lower, upper, w.global[a], w.outside[a][lower], w.outside[a][upper])
          = Sub(w.below[a][upper], w.below[a][lower])
    <2>1. now = w.tick /\ a \in Accumulators
      BY <1>6
    <2>2. GrowthInside(w.tick, lower, upper, w.global[a], w.outside[a][lower], w.outside[a][upper])
            = Sub(w.below[a][upper], w.below[a][lower])
      <3> HIDE DEF a, lower, upper
      <3> QED
        BY <1>1, <1>4, <2>1 DEF GrowthIsPaid
    <2> HIDE DEF a, lower, upper, w, now
    <2> QED
      BY <2>1, <2>2
  <1> QED
    BY <1>6, <1>7, <1>8

\* Growth inside a range, read at one block and at the tick of that block, is
\* what was paid while the price was in the range: for the three contracts, any
\* ticks and prices, any order of the words and any blocks added meanwhile.
THEOREM AccruedCorrect == Spec => []GrowthIsAccrued
  <1>1. Init => GrowthIsAccrued
    BY DEF Init, GrowthIsAccrued, Ok
  <1>2. ReadsInv /\ GrowthIsPaid /\ GrowthIsAccrued /\ [Next]_vars => GrowthIsAccrued'
    <2> SUFFICES ASSUME ReadsInv, GrowthIsPaid, GrowthIsAccrued, [Next]_vars
                 PROVE  GrowthIsAccrued'
      OBVIOUS
    <2>1. CASE UNCHANGED vars
      <3>1. Window' = Window
        BY <2>1 DEF vars, Window
      <3> QED
        BY <2>1, <3>1 DEF vars, GrowthIsAccrued, Ok
    <2>2. CASE ~Ok'
      BY <2>2 DEF GrowthIsAccrued
    <2>3. CASE Return
      <3>1. /\ call # Idle /\ Enough(call) /\ result' = <<"ok", Decode(call)>>
            /\ chain' = chain /\ call' = call
        BY <2>3 DEF Return
      <3>2. Window' = Window /\ result'[2] = Decode(call)
        BY <3>1 DEF Window
      <3> QED
        BY <3>1, <3>2, GrowthTold DEF GrowthIsAccrued
    <2> QED
      BY <2>1, <2>2, <2>3, OkSteps
  <1> QED
    BY <1>1, <1>2, ReadsCorrect, GrowthCorrect, PTL DEF Spec

-------------------------------------------------------------------------------
(* Counting: sequences without repetitions.                                *)

\* A sequence without repetitions has as many elements as it is long.
LEMMA CountDistinct ==
    ASSUME NEW S, NEW s \in Seq(S), \A k, l \in DOMAIN s : s[k] = s[l] => k = l
    PROVE  IsFiniteSet(ToSet(s)) /\ Cardinality(ToSet(s)) = Len(s) /\ Len(s) \in Nat
  <1>1. Len(s) \in Nat /\ DOMAIN s = 1 .. Len(s) /\ s \in [1 .. Len(s) -> S]
    OBVIOUS
  <1>2. s \in Bijection(1 .. Len(s), ToSet(s))
    <2>1. s \in [1 .. Len(s) -> ToSet(s)]
      BY <1>1 DEF ToSet
    <2>2. IsInjective(s)
      BY DEF IsInjective
    <2>3. \A t \in ToSet(s) : \E i \in 1 .. Len(s) : s[i] = t
      BY <1>1 DEF ToSet
    <2> QED
      BY <2>1, <2>2, <2>3 DEF Bijection, Injection, Surjection
  <1>3. ExistsBijection(1 .. Len(s), ToSet(s))
    BY <1>2 DEF ExistsBijection
  <1>4. IsFiniteSet(1 .. Len(s)) /\ Cardinality(1 .. Len(s)) = Len(s)
    <2>1. 1 \in Int /\ Len(s) \in Int
      BY <1>1
    <2>2. /\ IsFiniteSet(1 .. Len(s))
          /\ Cardinality(1 .. Len(s)) = IF 1 > Len(s) THEN 0 ELSE Len(s) - 1 + 1
      BY <2>1, FS_Interval
    <2> QED
      BY <1>1, <2>2
  <1> QED
    BY <1>1, <1>3, <1>4, FS_Bijection

\* One as long as there are numbers has all of them.
LEMMA AllDistinct ==
    ASSUME NEW n \in Nat, NEW s \in Seq(1 .. n), \A k, l \in DOMAIN s : s[k] = s[l] => k = l,
           Len(s) = n
    PROVE  ToSet(s) = 1 .. n
  <1>1. ToSet(s) \subseteq 1 .. n
    <2> DEFINE S == 1 .. n
    <2>1. s \in Seq(S)
      OBVIOUS
    <2> HIDE DEF S
    <2>2. ToSet(s) \subseteq S
      BY <2>1 DEF ToSet
    <2> QED
      BY <2>2 DEF S
  <1>2. Cardinality(ToSet(s)) = n
    BY CountDistinct
  <1>3. IsFiniteSet(1 .. n) /\ Cardinality(1 .. n) = n
    <2>1. 1 \in Int /\ n \in Int
      OBVIOUS
    <2>2. /\ IsFiniteSet(1 .. n)
          /\ Cardinality(1 .. n) = IF 1 > n THEN 0 ELSE n - 1 + 1
      BY <2>1, FS_Interval
    <2> QED
      BY <2>2
  <1> QED
    BY <1>1, <1>2, <1>3, FS_Subset

\* The keys that were pushed are finitely many.
LEMMA KeysFinite ==
    ASSUME NEW n \in Nat
    PROVE  IsFiniteSet({KeyTuple(PoolKeys[i]) : i \in 1 .. n})
  <1> DEFINE keys == {KeyTuple(PoolKeys[i]) : i \in 1 .. n}
             f == [i \in 1 .. n |-> KeyTuple(PoolKeys[i])]
  <1>1. f \in Surjection(1 .. n, keys)
    BY DEF Surjection
  <1>2. IsFiniteSet(1 .. n)
    BY FS_Interval
  <1> HIDE DEF f, keys
  <1>3. IsFiniteSet(keys)
    BY <1>1, <1>2, FS_Surjection
  <1> QED
    BY <1>3 DEF keys

-------------------------------------------------------------------------------
(* The filter and all_hooks.                                               *)

\* What KeysComplete asks of a result r, for one block.
KeysTold(b, r) ==
    /\ call.as \in {"keys", "keysLength"} =>
          LET wanted == {KeyTuple(PoolKeys[i]) : i \in 1 .. chain[b].keys} \cap call.arg.wanted
          IN  /\ ToSet(r) \subseteq wanted /\ Len(r) = Cardinality(ToSet(r))
              /\ Len(r) = IF Cardinality(wanted) < call.arg.find
                          THEN Cardinality(wanted) ELSE call.arg.find
    /\ call.as \in {"hooks", "hooksLength"} =>
          LET hooks == {Fill(Hooks[i], 20) : i \in 1 .. chain[b].hooks}
          IN  ToSet(r) = hooks /\ Len(r) = Cardinality(hooks)

\* The lengths at a block.
LEMMA LengthsOfChain ==
    ASSUME WorldsInv, NEW b \in DOMAIN chain
    PROVE  chain[b].keys \in Nat /\ chain[b].hooks \in Nat /\ chain[b].keysSlot \in {5, 6, 7}
  <1>1. \A w \in World : w.keys \in Nat /\ w.hooks \in Nat /\ w.keysSlot \in {5, 6, 7}
    BY DEF World
  <1>2. chain[b] \in World
    <2> HIDE DEF World
    <2> QED
      BY DEF WorldsInv
  <1> QED
    BY <1>1, <1>2

\* An empty result.
LEMMA EmptyResult == ToSet(<<>>) = {} /\ Len(<<>>) = 0 /\ Cardinality({}) = 0
  <1>1. DOMAIN <<>> = 1 .. Len(<<>>) /\ Len(<<>>) = 0
    OBVIOUS
  <1>2. ToSet(<<>>) = {}
    BY <1>1 DEF ToSet
  <1> QED
    BY <1>1, <1>2, FS_EmptySet

\* The stream of keys: it ends when all are out or enough are found.
LEMMA StreamTold ==
    ASSUME ReadsInv, call # Idle, Enough(call), call.as = "keys"
    PROVE  \E b \in Window : KeysTold(b, Decode(call))
  <1>1. WorldsInv /\ BlocksInv /\ CallInv /\ Window \subseteq DOMAIN chain
    BY WindowIsOfChain DEF ReadsInv, CallInv
  <1>2. PICK b \in Window : KeysAwaited(b)
    BY <1>1, AwaitedAs
  <1> DEFINE n == chain[b].keys
             keys == {KeyTuple(PoolKeys[i]) : i \in 1 .. n}
             wanted == keys \cap call.arg.wanted
             find == call.arg.find
  <1>3. n \in Nat \ {0} /\ find \in Nat \ {0} /\ GroupsOf(call) = n
    <2>1. n \in Nat /\ n # 0 /\ call.size = 3 /\ Len(call.slots) = 3 * n
      BY <1>1, <1>2, LengthsOfChain DEF KeysAwaited
    <2>2. GroupsOf(call) = n
      BY <1>1, <2>1, Groups DEF CallInv, FuturesInv
    <2> QED
      BY <1>2, <2>1, <2>2 DEF KeysAwaited, FilterArg
  <1>4. /\ out \in Seq(1 .. n) /\ \A k, l \in DOMAIN out : out[k] = out[l] => k = l
        /\ found \in Seq(KeysOut) /\ ToSet(found) = KeysOut \cap call.arg.wanted
        /\ \A k, l \in DOMAIN found : found[k] = found[l] => k = l
        /\ Len(found) <= find /\ Decode(call) = found
        /\ Len(out) = n \/ Len(found) = find
    BY <1>1, <1>3 DEF CallInv, FuturesInv, FilterInv, Enough, GroupsOf, Decode
  <1> HIDE DEF n, find
  <1>5. KeysOut = {KeyTuple(PoolKeys[g]) : g \in ToSet(out)}
    BY DEF KeysOut, ToSet
  <1>6. ToSet(out) \subseteq 1 .. n
    <2> DEFINE S == 1 .. n
    <2>1. out \in Seq(S)
      BY <1>4
    <2> HIDE DEF S
    <2>2. ToSet(out) \subseteq S
      BY <2>1 DEF ToSet
    <2> QED
      BY <2>2 DEF S
  <1>7. ToSet(found) \subseteq wanted
    BY <1>4, <1>5, <1>6
  <1>8. Cardinality(ToSet(found)) = Len(found) /\ Len(found) \in Nat
    BY <1>4, CountDistinct
  <1>9. IsFiniteSet(wanted)
    <2>1. IsFiniteSet(keys)
      BY <1>3, KeysFinite
    <2>2. wanted \in SUBSET keys
      OBVIOUS
    <2> HIDE DEF keys, wanted
    <2> QED
      BY <2>1, <2>2, FS_Subset
  <1> HIDE DEF wanted
  <1>10. Len(found) = IF Cardinality(wanted) < find THEN Cardinality(wanted) ELSE find
    <2>1. CASE Len(found) = find
      <3>1. Cardinality(ToSet(found)) <= Cardinality(wanted)
        BY <1>7, <1>9, FS_Subset
      <3>2. Cardinality(wanted) \in Nat
        BY <1>9, FS_CardinalityType
      <3> QED
        BY <1>3, <1>8, <2>1, <3>1, <3>2
    <2>2. CASE Len(out) = n
      <3>1. ToSet(out) = 1 .. n
        BY <1>3, <1>4, <2>2, AllDistinct
      <3>2. ToSet(found) = wanted
        BY <1>4, <1>5, <3>1 DEF wanted
      <3>3. Cardinality(wanted) = Len(found)
        BY <1>8, <3>2
      <3>4. Len(found) <= find
        BY <1>4
      <3> QED
        BY <1>3, <1>8, <3>3, <3>4
    <2> QED
      BY <1>4, <2>1, <2>2
  <1>11. KeysTold(b, found)
    BY <1>7, <1>8, <1>10 DEF KeysTold, wanted, n, find
  <1> QED
    BY <1>4, <1>11

\* No slot holds a length: no key was pushed.
LEMMA NoStreamTold ==
    ASSUME ReadsInv, call # Idle, Enough(call), call.as = "keysLength", Continuation(call) = {}
    PROVE  \E b \in Window : KeysTold(b, Decode(call))
  <1>1. WorldsInv /\ BlocksInv /\ CallInv /\ Window \subseteq DOMAIN chain
    BY WindowIsOfChain DEF ReadsInv, CallInv
  <1>2. LengthAwaited /\ call.arg.slot \in {5, 6, 7} /\ call.arg.find \in Nat \ {0}
    BY <1>1, AwaitedAs DEF LengthAwaited, FilterArg
  <1>3. got[1] = 0 /\ call.arg.slot = 5
    BY <1>2 DEF Continuation
  <1>4. PICK d \in Window : got[1] = Word(chain[d], call.on, call.slots[1])
    BY <1>1, OneFutureAs, EnoughIsOut, AllRead
  <1>5. d \in DOMAIN chain /\ chain[d].keysSlot \in {5, 6, 7}
    BY <1>1, <1>4, LengthsOfChain
  <1>6. 5 = chain[d].keysSlot => chain[d].keys = 0
    <2>1. call.on = "AngstromL2" /\ call.slots[1] = Root(5)
      BY <1>2, <1>3 DEF LengthAwaited
    <2> QED
      BY <1>3, <1>4, <2>1, LengthWords
  <1>7. PICK b \in Window : chain[b].keys = 0
    <2>1. CASE chain[d].keysSlot = 5
      BY <1>6, <2>1
    <2>2. CASE chain[d].keysSlot # 5
      <3> DEFINE s == chain[d].keysSlot
      <3>1. s \in {5, 6, 7} /\ call.arg.slot < s
        BY <1>3, <1>5, <2>2
      <3>2. PICK e \in Window : s = chain[e].keysSlot => chain[e].keys = 0
        BY <1>2, <3>1 DEF LengthAwaited
      <3>3. chain[e].keysSlot = s
        <4>1. e \in DOMAIN chain /\ d \in DOMAIN chain /\ (d <= e \/ e <= d)
          <5>1. e \in DOMAIN chain /\ d \in DOMAIN chain
            BY <1>1, <1>5
          <5>2. DOMAIN chain = 1 .. Len(chain)
            <6> HIDE DEF World
            <6> QED
              BY <1>1 DEF WorldsInv
          <5> QED
            BY <5>1, <5>2
        <4> QED
          BY <1>1, <4>1 DEF BlocksInv
      <3> QED
        BY <3>2, <3>3
    <2> QED
      BY <2>1, <2>2
  <1> DEFINE keys == {KeyTuple(PoolKeys[i]) : i \in 1 .. chain[b].keys}
  <1>8. keys = {} /\ keys \cap call.arg.wanted = {}
    BY <1>7
  <1>9. Decode(call) = <<>>
    BY DEF Decode
  <1>10. KeysTold(b, <<>>)
    <2>1. Len(<<>>) = IF Cardinality(keys \cap call.arg.wanted) < call.arg.find
                      THEN Cardinality(keys \cap call.arg.wanted) ELSE call.arg.find
      <3> HIDE DEF keys
      <3> QED
        BY <1>2, <1>8, EmptyResult
    <2>2. /\ ToSet(<<>>) \subseteq keys \cap call.arg.wanted
          /\ Len(<<>>) = Cardinality(ToSet(<<>>))
      BY EmptyResult
    <2> QED
      BY <2>1, <2>2, Zenon DEF KeysTold
  <1> QED
    BY <1>9, <1>10

\* The elements of allHooks: all futures are out, in whatever order.
LEMMA HooksTold ==
    ASSUME ReadsInv, call # Idle, Enough(call), call.as = "hooks"
    PROVE  \E b \in Window : KeysTold(b, Decode(call))
  <1>1. WorldsInv /\ BlocksInv /\ CallInv /\ Window \subseteq DOMAIN chain
    BY WindowIsOfChain DEF ReadsInv, CallInv
  <1>2. PICK b \in Window : HooksAwaited(b)
    BY <1>1, AwaitedAs
  <1> DEFINE n == chain[b].hooks
             r == [k \in DOMAIN out |-> Bytes(got[out[k]], 0, 20)]
             fill(i) == Fill(Hooks[i], 20)
             hooks == {fill(i) : i \in 1 .. n}
  <1>3. n \in Nat \ {0} /\ GroupsOf(call) = n /\ call.size = 1 /\ call.on = "Factory"
        /\ call.slots = [i \in 1 .. n |-> AllHooksSlot(i - 1)]
    <2>1. n \in Nat /\ n # 0 /\ call.size = 1 /\ call.on = "Factory"
          /\ call.slots = [i \in 1 .. n |-> AllHooksSlot(i - 1)]
      BY <1>1, <1>2, LengthsOfChain DEF HooksAwaited
    <2> HIDE DEF n
    <2>2. Len(call.slots) = 1 * n
      BY <2>1
    <2>3. GroupsOf(call) = n
      BY <1>1, <2>1, <2>2, Groups DEF CallInv, FuturesInv
    <2> QED
      BY <2>1, <2>3
  <1>4. 1 .. n \subseteq DOMAIN Hooks
    <2>1. n <= Len(Hooks) /\ Hooks \in Seq(Nat)
      BY <1>1, <1>2, FieldsAssumption DEF BlocksInv
    <2> HIDE DEF n
    <2> QED
      BY <1>3, <2>1
  <1>5. ReadSince(b)
    BY <1>2 DEF HooksAwaited
  <1>6. Len(out) = n /\ out \in Seq(1 .. n) /\ \A k, l \in DOMAIN out : out[k] = out[l] => k = l
    BY <1>1, <1>3 DEF CallInv, FuturesInv, Enough, GroupsOf
  <1>7. \A k \in DOMAIN out : \A j \in DOMAIN call.slots : GroupOf(call, j) = out[k] => j \in DOMAIN got
    BY <1>1 DEF CallInv, FuturesInv
  <1>8. Decode(call) = r
    BY DEF Decode
  <1>9. \A d \in Window : b <= d => n <= chain[d].hooks /\ chain[d].hooks \in Nat
    BY <1>1, LengthsOfChain DEF BlocksInv
  <1> HIDE DEF n
  <1>10. ToSet(out) = 1 .. n /\ DOMAIN out = 1 .. n
    <2>1. n \in Nat /\ DOMAIN out = 1 .. Len(out) /\ Len(out) = n
      BY <1>3, <1>6
    <2>2. ToSet(out) = 1 .. n
      BY <1>6, <2>1, AllDistinct
    <2> QED
      BY <2>1, <2>2
  <1>11. ASSUME NEW k \in DOMAIN out PROVE out[k] \in 1 .. n
    <2>1. out[k] \in ToSet(out)
      BY DEF ToSet
    <2> QED
      BY <1>10, <2>1
  <1>12. ASSUME NEW k \in DOMAIN out PROVE Bytes(got[out[k]], 0, 20) = fill(out[k])
    <2> DEFINE i == out[k]
    <2>1. i \in 1 .. n /\ i \in DOMAIN Hooks
      BY <1>4, <1>11
    <2> HIDE DEF i
    <2>2. i \in DOMAIN call.slots /\ call.slots[i] = AllHooksSlot(i - 1) /\ GroupOf(call, i) = i
      BY <1>3, <2>1 DEF GroupOf
    <2>3. i \in DOMAIN got
      BY <1>7, <2>2 DEF i
    <2>4. PICK d \in Window : b <= d /\ got[i] = Word(chain[d], "Factory", AllHooksSlot(i - 1))
      BY <1>3, <1>5, <2>2, <2>3 DEF ReadSince
    <2> DEFINE var == <<"u160", "hook", i>>
    <2>5. Stored("Factory", AllHooksSlot(i - 1), 0, var)
      BY <2>1, FactoryStored
    <2>6. i <= chain[d].hooks
      BY <1>3, <1>9, <2>1, <2>4
    <2>7. Value(chain[d], var) = fill(i)
      BY <2>6 DEF Value, Shown, Width
    <2>8. var[1] = "u160" /\ Width["u160"] = 20
      BY DEF Width
    <2> HIDE DEF var
    <2>9. Bytes(Word(chain[d], "Factory", AllHooksSlot(i - 1)), 0, 20) = Value(chain[d], var)
      BY <2>5, <2>8, DecodeBytes
    <2> QED
      BY <2>4, <2>7, <2>9 DEF i
  <1>13. r = [k \in 1 .. n |-> fill(out[k])] /\ Len(r) = n
    <2>1. r = [k \in 1 .. n |-> Bytes(got[out[k]], 0, 20)]
      BY <1>10
    <2>2. \A k \in 1 .. n : Bytes(got[out[k]], 0, 20) = fill(out[k])
      BY <1>10, <1>12
    <2> HIDE DEF r, fill
    <2>3. r = [k \in 1 .. n |-> fill(out[k])]
      BY <2>1, <2>2
    <2> QED
      BY <1>3, <2>3
  <1>14. r \in Seq(hooks) /\ DOMAIN r = 1 .. n /\ \A k \in 1 .. n : r[k] = fill(out[k])
    <2>1. \A k \in 1 .. n : out[k] \in 1 .. n
      BY <1>10, <1>11
    <2> HIDE DEF r, fill
    <2> QED
      BY <1>3, <1>13, <2>1
  <1>15. ToSet(r) = hooks
    <2>1. ToSet(r) = {r[k] : k \in 1 .. n}
      BY <1>14 DEF ToSet
    <2>2. ToSet(out) = {out[k] : k \in 1 .. n}
      BY <1>10 DEF ToSet
    <2>3. hooks \subseteq ToSet(r)
      <3> SUFFICES ASSUME NEW i \in 1 .. n PROVE fill(i) \in ToSet(r)
        OBVIOUS
      <3>1. PICK k \in 1 .. n : out[k] = i
        BY <1>10, <2>2
      <3> QED
        BY <1>14, <2>1, <3>1
    <2>4. ToSet(r) \subseteq hooks
      BY <1>10, <1>11, <1>14, <2>1
    <2> QED
      BY <2>3, <2>4
  <1>16. \A k, l \in DOMAIN r : r[k] = r[l] => k = l
    <2> SUFFICES ASSUME NEW k \in 1 .. n, NEW l \in 1 .. n, fill(out[k]) = fill(out[l])
                 PROVE  k = l
      BY <1>14
    <2>1. out[k] \in DOMAIN Hooks /\ out[l] \in DOMAIN Hooks
      BY <1>4, <1>10, <1>11
    <2>2. out[k] = out[l]
      BY <2>1, FieldsAssumption, Zenon
    <2> QED
      BY <1>6, <1>10, <2>2
  <1> HIDE DEF r, hooks
  <1>17. Cardinality(hooks) = Len(r)
    BY <1>14, <1>15, <1>16, CountDistinct
  <1>18. KeysTold(b, r)
    BY <1>15, <1>17 DEF KeysTold, hooks, n
  <1> QED
    BY <1>8, <1>18

\* What any call returns.
LEMMA ReturnTold ==
    ASSUME ReadsInv, call # Idle, Enough(call), Continuation(call) = {}
    PROVE  \E b \in Window : KeysTold(b, Decode(call))
  <1>1. CASE call.as = "keys"
    BY <1>1, StreamTold
  <1>2. CASE call.as = "keysLength"
    BY <1>2, NoStreamTold
  <1>3. CASE call.as = "hooks"
    BY <1>3, HooksTold
  <1>4. CASE call.as \notin {"keys", "keysLength", "hooks"}
    <2>1. CallInv
      BY DEF ReadsInv
    <2>2. PICK b \in Window : got[1] = Word(chain[b], call.on, call.slots[1])
      BY <1>4, <2>1, OneFutureAs, EnoughIsOut, AllRead
    <2>3. CASE call.as # "hooksLength"
      BY <1>4, <2>3 DEF KeysTold
    <2>4. CASE call.as = "hooksLength"
      <3>1. got[1] = 0 /\ Decode(call) = <<>>
        BY <2>4 DEF Continuation, Decode
      <3>2. call.on = "Factory" /\ call.slots[1] = Root(4)
        BY <2>1, <2>4, AwaitedAs DEF Same, AllHooks, Reader
      <3>3. chain[b].hooks = 0
        BY <2>2, <3>1, <3>2, LengthWords
      <3> DEFINE hooks == {Fill(Hooks[i], 20) : i \in 1 .. chain[b].hooks}
      <3>4. hooks = {}
        BY <3>3
      <3> HIDE DEF hooks
      <3>5. KeysTold(b, <<>>)
        BY <2>4, <3>4, EmptyResult DEF KeysTold, hooks
      <3> QED
        BY <3>1, <3>5
    <2> QED
      BY <2>3, <2>4
  <1> QED
    BY <1>1, <1>2, <1>3, <1>4

\* A filter returns find_count of the matching keys, each once, or all of them
\* if they are fewer, and all_hooks each hook once: for any arrays, any order
\* of the words and of the futures, and whichever blocks are added meanwhile.
THEOREM KeysCorrect == Spec => []KeysComplete
  <1>1. Init => KeysComplete
    BY DEF Init, KeysComplete, Ok
  <1>2. ReadsInv /\ KeysComplete /\ [Next]_vars => KeysComplete'
    <2> SUFFICES ASSUME ReadsInv, KeysComplete, [Next]_vars PROVE KeysComplete'
      OBVIOUS
    <2>1. CASE UNCHANGED vars
      <3>1. Window' = Window
        BY <2>1 DEF vars, Window
      <3> QED
        BY <2>1, <3>1 DEF vars, KeysComplete, Ok
    <2>2. CASE ~Ok'
      BY <2>2 DEF KeysComplete
    <2>3. CASE Return
      <3>1. /\ call # Idle /\ Enough(call) /\ Continuation(call) = {}
            /\ result' = <<"ok", Decode(call)>> /\ chain' = chain /\ call' = call
        BY <2>3 DEF Return
      <3>2. Window' = Window
        BY <3>1 DEF Window
      <3>3. PICK b \in Window : KeysTold(b, Decode(call))
        BY <3>1, ReturnTold
      <3>4. result'[2] = Decode(call)
        BY <3>1
      <3> QED
        BY <3>1, <3>2, <3>3, <3>4 DEF KeysComplete, KeysTold
    <2> QED
      BY <2>1, <2>2, <2>3, OkSteps
  <1> QED
    BY <1>1, <1>2, ReadsCorrect, PTL DEF Spec
===============================================================================
