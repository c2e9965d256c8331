----------------------------- MODULE StorageReads -----------------------------
(***************************************************************************)
(* The readers of uniswap-storage: each asks a StorageSlotFetcher for the  *)
(* words of one or several slots at once, at a block, while the chain goes *)
(* on and any read may fail, and decodes them.  What every reader asks and *)
(* how it decodes is a record made by an operator named after it; the      *)
(* actions are those of the futures that wait for the reads.               *)
(***************************************************************************)
EXTENDS Contracts

CONSTANTS Fetchers,    \* [kind, own]: own is the block a database was made at
          Calls        \* the calls that are checked: records as below

Latest == 0            \* BlockId::latest, in place of a number

\* Those that pass block_id on, and those that drop it.
Pinning   == {"RootProvider", "EthApi", "OpEthApi"}
Databases == {"AlloyDB", "CacheDB", "WrapDatabaseAsync"}

ASSUME FetchersAssumption ==
    \A f \in Fetchers : f.kind \in Pinning \cup Databases /\ f.own \in Nat

VARIABLES
    chain,     \* the worlds of the blocks so far
    call,      \* the call, or the part of it that is awaited now
    got,       \* index of a slot |-> its word, for the reads that came back
    out,       \* the groups of reads that are complete, in the order they were
    found,     \* the keys among them that pass search_fn
    result     \* <<>> until the call returns

vars == <<chain, call, got, out, found, result>>

-------------------------------------------------------------------------------
(* Decoding a word.                                                        *)

Bytes(w, from, n) == [i \in 0 .. n - 1 |-> w[from + i]]
U24At(w, at)  == w[at] + 256 * w[at + 1] + 65536 * w[at + 2]

\* ((raw << 8) as i32) >> 8
I24At(w, at) == LET raw == U24At(w, at) IN
                IF raw >= 8388608 THEN raw - 16777216 ELSE raw
BoolAt(w, at) == w[at] # 0

\* tick.to_be_bytes::<3>() as a number
TickIndex(tick) == tick % 16777216

UnpackSlot0(w) == <<Bytes(w, 0, 20), I24At(w, 20), U24At(w, 23), U24At(w, 26)>>

UnpackPositionInfo(w) == <<I24At(w, 1), I24At(w, 4)>>
PositionManagerPoolMapKey(w) == Bytes(w, 7, 25)

\* v3_current_tick extends the sign with a mask.
V3Tick(w) == LET raw == U24At(w, 20) IN
             IF (raw \div 8388608) % 2 = 1 THEN raw - 16777216 ELSE raw

V3TickData(w) ==
    <<BoolAt(w[4], 31), Bytes(w[1], 16, 16), Bytes(w[1], 0, 16), w[2], w[3]>>

\* The three words of a PoolKey, in Angstrom's array and in the PositionManager.
DecodePoolKey(w) ==
    <<Bytes(w[1], 0, 20), Bytes(w[2], 0, 20), U24At(w[2], 20), I24At(w[2], 23),
      Bytes(w[3], 0, 20)>>

FactorySlot0(w) == <<BoolAt(w, 0), U24At(w, 1), U24At(w, 4), BoolAt(w, 7)>>

FeeConfiguration(w) ==
    <<w[0] % 2 = 1, U24At(w, 1), U24At(w, 4), U24At(w, 7), U24At(w, 10)>>

\* Mutant: a price on the lower bound counts as below the range.
GrowthInsideClosed(now, lower, upper, global, below, above) ==
    IF now <= lower THEN Sub(below, above)
    ELSE IF now >= upper THEN Sub(above, below)
    ELSE Sub(Sub(global, below), above)

GrowthInside(now, lower, upper, global, below, above) ==
    IF now < lower THEN Sub(below, above)
    ELSE IF now >= upper THEN Sub(above, below)
    ELSE Sub(Sub(global, below), above)

-------------------------------------------------------------------------------
(* The readers.  on: the contract; slots: what is read at once; size: how   *)
(* many reads make one future; as: the decoder, with arg; of: the variables *)
(* the components of the result stand for, the property's side.             *)

Reader(on, slots, as, of) ==
    [on |-> on, slots |-> slots, size |-> Len(slots), as |-> as, arg |-> <<>>, of |-> of]

Single(on, slot, as, of) == Reader(on, <<slot>>, as, <<of>>)
Words(of) == [i \in DOMAIN of |-> <<"whole">> \o of[i]]

\* v4 pool manager, pool state
PoolStateSlot == MapSlot(Pool, Root(6))

FeeGrowthGlobalSlots == <<Plus(PoolStateSlot, 1), Plus(PoolStateSlot, 2)>>

PoolFeeGrowthGlobal ==
    Reader("PoolManager", FeeGrowthGlobalSlots, "words",
           Words(<<<<"global", "fee0">>, <<"global", "fee1">>>>))

PoolSlot0 ==
    Reader("PoolManager", <<PoolStateSlot>>, "slot0",
           <<<<"u160", "sqrtPrice">>, <<"i24", "tick">>, <<"u24", "protocolFee">>,
             <<"u24", "lpFee">>>>)

\* The word is returned as it is.
PoolLiquidity ==
    Single("PoolManager", Plus(PoolStateSlot, 3), "words", <<"word128", "liquidity">>)

\* v4 pool manager, ticks
PoolTickSlot(tick) == MapSlot(<<tick>>, Plus(PoolStateSlot, 4))

TickFeeGrowthOutsideSlots(tick) == <<Plus(PoolTickSlot(tick), 1), Plus(PoolTickSlot(tick), 2)>>

TickFeeGrowthOutside(tick) ==
    Reader("PoolManager", TickFeeGrowthOutsideSlots(tick), "words",
           Words(<<<<"outside", "fee0", tick>>, <<"outside", "fee1", tick>>>>))

\* encode_position_key
EncodePositionKey(lower, upper) == <<Manager, lower, upper, Token>>

\* v4 pool manager, positions
PositionStateSlot(lower, upper) ==
    MapSlot(EncodePositionKey(lower, upper), Plus(PoolStateSlot, 6))

\* Growth is read with the tick the caller says the pool is at.
Growth(on, now, lower, upper, slots, accumulators) ==
    [Reader(on, slots, "growth", <<>>) EXCEPT !.arg = <<now, lower, upper, accumulators>>]

PositionFeeGrowthInside(now, lower, upper) ==
    Growth("PoolManager", now, lower, upper,
           FeeGrowthGlobalSlots \o TickFeeGrowthOutsideSlots(lower)
             \o TickFeeGrowthOutsideSlots(upper), <<"fee0", "fee1">>)

PositionLastFeeGrowthInside(lower, upper) ==
    LET base == PositionStateSlot(lower, upper) IN
    Reader("PoolManager", <<Plus(base, 1), Plus(base, 2)>>, "words",
           Words(<<<<"last0">>, <<"last1">>>>))

PositionLiquidity(lower, upper) ==
    Single("PoolManager", PositionStateSlot(lower, upper), "low128", <<"u128", "posLiquidity">>)

\* v4 position manager.  The second part of pool_key_and_info is asked for
\* with the word the first part got.
PositionInfoSlot(token) == MapSlot(token, Root(9))

PoolKeyAndInfo == Reader("PositionManager", <<PositionInfoSlot(Token)>>, "info", <<>>)

PoolKeyOfInfo(w) ==
    LET base == MapSlot(PositionManagerPoolMapKey(w), Root(10)) IN
    [Reader("PositionManager", <<base, Plus(base, 1), Plus(base, 2)>>, "keyAndInfo",
            [i \in 1 .. 5 |-> <<KeyTypes[KeyFields[i]], "key", 1, KeyFields[i]>>]
              \o <<<<"i24", "lower">>, <<"i24", "upper">>>>)
     EXCEPT !.arg = UnpackPositionInfo(w)]

OwnerOf == Single("PositionManager", MapSlot(Token, Root(2)), "low160", <<"u160", "owner">>)
NextTokenId == Single("PositionManager", Root(8), "words", <<"whole", "nextTokenId">>)

\* v3 pool
V3CurrentTick == Single("V3Pool", Root(0), "v3Tick", <<"i24", "tick">>)
V3CurrentLiquidity == Single("V3Pool", Root(4), "low128", <<"u128", "liquidity">>)
V3FeeGrowthGlobal ==
    Reader("V3Pool", <<Root(1), Root(2)>>, "words",
           Words(<<<<"global", "fee0">>, <<"global", "fee1">>>>))
V3SqrtPriceX96 == Single("V3Pool", Root(0), "low160", <<"u160", "sqrtPrice">>)

V3TickSlot(tick) == MapSlot(<<tick>>, Root(5))

ReadV3TickData(tick) ==
    Reader("V3Pool", [i \in 1 .. 4 |-> Plus(V3TickSlot(tick), i - 1)], "v3TickData",
           <<<<"bool", "initialized">>, <<"u128", "net">>, <<"u128", "gross">>,
             <<"whole", "outside", "fee0", tick>>, <<"whole", "outside", "fee1", tick>>>>)

\* Angstrom on L1: growth outside is an array indexed by the tick as 24 bits.
AngstromPoolRewardsSlot == MapSlot(Pool, Root(7))
AngstromPositionSlot(lower, upper) ==
    MapSlot(EncodePositionKey(lower, upper), MapSlot(Pool, Root(6)))

PoolRewardsGrowthArraySize == 16777216

AngstromGlobalSlot == Plus(AngstromPoolRewardsSlot, PoolRewardsGrowthArraySize)
AngstromGlobalGrowth ==
    Single("Angstrom", AngstromGlobalSlot, "words", <<"whole", "global", "reward">>)

AngstromOutsideSlot(tick) == Plus(AngstromPoolRewardsSlot, TickIndex(tick))
AngstromTickGrowthOutside(tick) ==
    Single("Angstrom", AngstromOutsideSlot(tick), "words", <<"whole", "outside", "reward", tick>>)

AngstromGrowthInside(now, lower, upper) ==
    Growth("Angstrom", now, lower, upper,
           <<AngstromGlobalSlot, AngstromOutsideSlot(lower), AngstromOutsideSlot(upper)>>,
           <<"reward">>)

AngstromLastGrowthInside(lower, upper) ==
    Single("Angstrom", AngstromPositionSlot(lower, upper), "words", <<"whole", "last0">>)

\* Angstrom on L2: growth outside is a mapping.
AngstromL2PoolRewardsSlot == MapSlot(Pool, Root(1))
AngstromL2PositionSlot(lower, upper) ==
    MapSlot(EncodePositionKey(lower, upper), AngstromL2PoolRewardsSlot)

AngstromL2GlobalSlot == Plus(AngstromL2PoolRewardsSlot, 2)
AngstromL2GlobalGrowth ==
    Single("AngstromL2", AngstromL2GlobalSlot, "words", <<"whole", "global", "reward">>)

AngstromL2OutsideSlot(tick) == MapSlot(<<tick>>, Plus(AngstromL2PoolRewardsSlot, 1))
AngstromL2TickGrowthOutside(tick) ==
    Single("AngstromL2", AngstromL2OutsideSlot(tick), "words", <<"whole", "outside", "reward", tick>>)

AngstromL2GrowthInside(now, lower, upper) ==
    Growth("AngstromL2", now, lower, upper,
           <<AngstromL2GlobalSlot, AngstromL2OutsideSlot(lower), AngstromL2OutsideSlot(upper)>>,
           <<"reward">>)

AngstromL2LastGrowthInside(lower, upper) ==
    Single("AngstromL2", AngstromL2PositionSlot(lower, upper), "words", <<"whole", "last0">>)

AngstromL2FeeConfigSlot == MapSlot(Pool, Root(3))

AngstromL2PoolFeeConfig ==
    Reader("AngstromL2", <<AngstromL2FeeConfigSlot>>, "feeConfig",
           <<<<"bool", "isInitialized">>, <<"u24", "creatorTax">>, <<"u24", "protocolTax">>,
             <<"u24", "creatorSwap">>, <<"u24", "protocolSwap">>>>)

\* is_pool_initialized and the total rates decode the same word.
AngstromL2IsPoolInitialized ==
    Single("AngstromL2", AngstromL2FeeConfigSlot, "isInitialized", <<"bool", "isInitialized">>)
AngstromL2TotalFeeRates ==
    {Single("AngstromL2", AngstromL2FeeConfigSlot, "totalSwap", <<"whole", "totalSwap">>),
     Single("AngstromL2", AngstromL2FeeConfigSlot, "totalTax", <<"whole", "totalTax">>)}

AngstromL2Settings ==
    {Single("AngstromL2", Root(9), "words", <<"whole", "taxFloor">>),
     Single("AngstromL2", Root(8), "words", <<"whole", "mevFactor">>),
     Single("AngstromL2", Root(10), "bool", <<"bool", "jitEnabled">>)}

\* pool_keys_filter looks for the length in three slots, one after the other.
PoolKeysFilter(find, wanted) ==
    [Reader("AngstromL2", <<Root(7)>>, "keysLength", <<>>)
       EXCEPT !.arg = [find |-> find, wanted |-> wanted, slot |-> 7]]

PoolKeysAt(slot, arg) ==
    [Reader("AngstromL2", <<Root(slot)>>, "keysLength", <<>>)
       EXCEPT !.arg = [arg EXCEPT !.slot = slot]]

\* One future per key, of three reads each.
PoolKeysStream(length, arg) ==
    [Reader("AngstromL2",
            [i \in 1 .. 3 * length |-> Plus(ArraySlot(Root(arg.slot)), i - 1)], "keys", <<>>)
       EXCEPT !.arg = arg, !.size = 3]

\* Angstrom's factory on L2
GetFactorySlot0 ==
    Reader("Factory", <<Root(0)>>, "factorySlot0",
           <<<<"bool", "withdrawOnly">>, <<"u24", "swapMultiple">>, <<"u24", "protocolTax">>,
             <<"bool", "jitDefault">>>>)

FactoryDefaults ==
    {Single("Factory", Root(1), "words", <<"whole", "mevFactor">>),
     Single("Factory", Root(2), "words", <<"whole", "taxFloor">>)}

IsVerifiedHook == Single("Factory", MapSlot(Hook, Root(3)), "nonzero", <<"bool", "verified">>)

AllHooksLength == Single("Factory", Root(4), "words", <<"whole", "hooks">>)
AllHooksSlot(i) == Plus(ArraySlot(Root(4)), i)
AllHooksAt(i) == Single("Factory", AllHooksSlot(i), "low160", <<"u160", "hook", i + 1>>)

AllHooks == Reader("Factory", <<Root(4)>>, "hooksLength", <<>>)
AllHooksElements(length) ==
    [Reader("Factory", [i \in 1 .. length |-> AllHooksSlot(i - 1)], "hooks", <<>>)
       EXCEPT !.size = 1]

HookAddressForPoolId == Single("Factory", MapSlot(Pool, Root(5)), "option", <<"option", "hookOfPool">>)

\* Growth is asked for a position: inside a range between two initialized ticks.
GrowthReaders(now, lower, upper) ==
    {PositionFeeGrowthInside(now, lower, upper), AngstromGrowthInside(now, lower, upper),
     AngstromL2GrowthInside(now, lower, upper)}

ReadersOfTick(tick) ==
    {TickFeeGrowthOutside(tick), ReadV3TickData(tick), AngstromTickGrowthOutside(tick),
     AngstromL2TickGrowthOutside(tick)}

ReadersOfPosition(lower, upper) ==
    {PositionLastFeeGrowthInside(lower, upper), PositionLiquidity(lower, upper),
     AngstromLastGrowthInside(lower, upper), AngstromL2LastGrowthInside(lower, upper)}

OtherReaders ==
    {PoolFeeGrowthGlobal, PoolSlot0, PoolLiquidity, PoolKeyAndInfo, OwnerOf, NextTokenId,
     V3CurrentTick, V3CurrentLiquidity, V3FeeGrowthGlobal, V3SqrtPriceX96,
     AngstromGlobalGrowth, AngstromL2GlobalGrowth, AngstromL2PoolFeeConfig,
     AngstromL2IsPoolInitialized, GetFactorySlot0, IsVerifiedHook, AllHooksLength, AllHooks,
     HookAddressForPoolId}
    \cup AngstromL2TotalFeeRates \cup AngstromL2Settings \cup FactoryDefaults
    \cup {AllHooksAt(i - 1) : i \in DOMAIN Hooks}

ASSUME CallsAssumption ==
    \A c \in Calls :
        \/ c \in OtherReaders
        \/ \E t \in Initialized : c \in ReadersOfTick(t)
        \/ \E r \in Ranges : c \in ReadersOfPosition(r[1], r[2])
        \/ /\ c.as = "growth" /\ c.arg[2] <= c.arg[3]
           /\ c.arg[1] \in Int /\ c.arg[2] \in Initialized /\ c.arg[3] \in Initialized
           /\ c \in GrowthReaders(c.arg[1], c.arg[2], c.arg[3])
        \/ /\ c.as = "keysLength" /\ c.arg.find \in Nat \ {0}
           /\ c = PoolKeysFilter(c.arg.find, c.arg.wanted)

-------------------------------------------------------------------------------
(* What a call returns once its reads are there.                           *)

\* The key a stream decodes from the three words of a group.
KeyOf(words, g) == DecodePoolKey([i \in 1 .. 3 |-> words[(g - 1) * 3 + i]])

GrowthOf(c, k) ==
    LET n == Len(c.arg[4]) IN
    GrowthInside(c.arg[1], c.arg[2], c.arg[3], got[k], got[n + k], got[2 * n + k])

Decode(c) ==
    CASE c.as = "words"         -> [i \in DOMAIN c.slots |-> got[i]]
      [] c.as = "slot0"         -> UnpackSlot0(got[1])
      [] c.as = "low128"        -> <<Bytes(got[1], 0, 16)>>
      [] c.as = "low160"        -> <<Bytes(got[1], 0, 20)>>
      [] c.as = "option"        -> <<IF got[1] = ZeroWord THEN <<>> ELSE <<Bytes(got[1], 0, 20)>>>>
      [] c.as = "growth"        -> [k \in DOMAIN c.arg[4] |-> GrowthOf(c, k)]
      [] c.as = "keyAndInfo"    -> DecodePoolKey(got) \o c.arg
      [] c.as = "v3Tick"        -> <<V3Tick(got[1])>>
      [] c.as = "v3TickData"    -> V3TickData(got)
      [] c.as = "feeConfig"     -> FeeConfiguration(got[1])
      [] c.as = "isInitialized" -> <<FeeConfiguration(got[1])[1]>>
      [] c.as = "totalTax"      -> <<FeeConfiguration(got[1])[2] + FeeConfiguration(got[1])[3]>>
      [] c.as = "totalSwap"     -> <<FeeConfiguration(got[1])[4] + FeeConfiguration(got[1])[5]>>
      [] c.as = "bool"          -> <<BoolAt(got[1], 0)>>
      [] c.as = "nonzero"       -> <<got[1] # ZeroWord>>
      [] c.as = "factorySlot0"  -> FactorySlot0(got[1])
      [] c.as = "keys"          -> found
      [] c.as = "hooks"         -> [k \in DOMAIN out |-> Bytes(got[out[k]], 0, 20)]
      [] c.as \in {"keysLength", "hooksLength"} -> <<>>

\* The part that comes next, if any.
Continuation(c) ==
    CASE c.as = "info" -> {PoolKeyOfInfo(got[1])}
      [] c.as = "hooksLength" /\ got[1] # 0 -> {AllHooksElements(got[1])}
      [] c.as = "keysLength" /\ got[1] # 0 -> {PoolKeysStream(got[1], c.arg)}
      [] c.as = "keysLength" /\ got[1] = 0 /\ c.arg.slot > 5 -> {PoolKeysAt(c.arg.slot - 1, c.arg)}
      [] OTHER -> {}

\* Mutant: the stream is left after find_count keys, whether they match or not.
EnoughSeen(c) ==
    \/ Len(out) = Len(c.slots) \div c.size
    \/ c.as = "keys" /\ Len(out) = c.arg.find

\* All futures are done, or the filter has found what it looks for.
Enough(c) ==
    \/ Len(out) = Len(c.slots) \div c.size
    \/ c.as = "keys" /\ Len(found) = c.arg.find

-------------------------------------------------------------------------------
(* Steps.                                                                  *)

\* Mutant: block_id does not reach the node.
ReadBlockLatest(c) == Len(chain)

\* The block a read is answered at; databases drop block_id for their own.
ReadBlock(c) ==
    LET id == IF c.fetcher.kind \in Pinning THEN c.block ELSE c.fetcher.own IN
    IF id = Latest THEN Len(chain) ELSE id

Idle == [as |-> "idle"]

Init ==
    /\ chain \in {<<NewWorld(g)>> : g \in Genesis}
    /\ call = Idle
    /\ got = <<>> /\ out = <<>> /\ found = <<>> /\ result = <<>>

\* The reads of c are sent, all at once.
Sent(c, fetcher, block, since) ==
    [on |-> c.on, slots |-> c.slots, size |-> c.size, as |-> c.as, arg |-> c.arg, of |-> c.of,
     fetcher |-> fetcher, block |-> block, since |-> since]

Await(c) == call' = Sent(c, call.fetcher, call.block, call.since)

Ask ==
    /\ call = Idle
    /\ \E c \in Calls, f \in Fetchers, b \in 0 .. MaxBlocks :
           call' = Sent(c, f, b, Len(chain))
    /\ UNCHANGED <<chain, got, out, found, result>>

Pending == {i \in DOMAIN call.slots : i \notin DOMAIN got}

\* A word comes back; it may be the last its future waits for.
Answer ==
    /\ call # Idle /\ result = <<>> /\ ~Enough(call)
    /\ ReadBlock(call) \in DOMAIN chain
    /\ \E i \in Pending :
         LET g    == (i - 1) \div call.size + 1
             last == \A j \in Pending \ {i} : (j - 1) \div call.size + 1 # g
         IN  /\ got' = [j \in DOMAIN got \cup {i} |->
                           IF j = i THEN Word(chain[ReadBlock(call)], call.on, call.slots[i])
                           ELSE got[j]]
             /\ out' = IF last THEN Append(out, g) ELSE out
             /\ found' = IF last /\ call.as = "keys" /\ KeyOf(got', g) \in call.arg.wanted
                         THEN Append(found, KeyOf(got', g)) ELSE found
    /\ UNCHANGED <<chain, call, result>>

\* The first read that fails ends the call, try_join and the filter leaving
\* the others, all_hooks when it has collected them.
ReadFails ==
    /\ call # Idle /\ result = <<>> /\ ~Enough(call)
    /\ result' = <<"error">>
    /\ UNCHANGED <<chain, call, got, out, found>>

Continue ==
    /\ call # Idle /\ result = <<>> /\ Enough(call)
    /\ \E c \in Continuation(call) : Await(c)
    /\ got' = <<>> /\ out' = <<>> /\ found' = <<>>
    /\ UNCHANGED <<chain, result>>

Return ==
    /\ call # Idle /\ result = <<>> /\ Enough(call)
    /\ Continuation(call) = {}
    /\ result' = <<"ok", Decode(call)>>
    /\ UNCHANGED <<chain, call, got, out, found>>

NewBlock ==
    /\ Len(chain) < MaxBlocks /\ result = <<>>
    /\ \E to \in PoolTicks : chain' = Append(chain, Swap(Last(chain), to))
    /\ UNCHANGED <<call, got, out, found, result>>

Next == Ask \/ Answer \/ ReadFails \/ Continue \/ Return \/ NewBlock

Spec == Init /\ [][Next]_vars

-------------------------------------------------------------------------------
(* Properties.                                                             *)

Ok == result # <<>> /\ result[1] = "ok"

\* The blocks a result may tell of: the one asked for, or, for the latest
\* one, any from the call to the return.  A database answers for its own.
Window ==
    LET id == IF call.fetcher.kind \in Databases THEN call.fetcher.own ELSE call.block
    IN  IF id = Latest THEN call.since .. Len(chain) ELSE {id} \cap DOMAIN chain

\* Every component of a result is what its variable held at a block of the
\* window: all of them at the same block when a block was asked for, whatever
\* blocks are added between two reads and between the parts of a call.
FieldsAreTrue ==
    Ok /\ call.of # <<>> =>
        /\ Len(result[2]) = Len(call.of)
        /\ \A i \in DOMAIN call.of : \E b \in Window :
               result[2][i] = Value(chain[b], call.of[i])

\* Growth inside a range, read at one block and at the tick of that block, is
\* what was paid while the price was in the range: growth wraps around, and
\* the price may have crossed either bound in either direction.
GrowthIsAccrued ==
    Ok /\ call.as = "growth" =>
        \A b \in Window :
            Window = {b} /\ call.arg[1] = chain[b].tick =>
                \A k \in DOMAIN call.arg[4] :
                    LET below == chain[b].below[call.arg[4][k]] IN
                    result[2][k] = Sub(below[call.arg[3]], below[call.arg[2]])

\* A filter returns find_count of the matching keys, each once, or all of them
\* if they are fewer, in whatever order the reads come back and whichever of
\* the three slots the deployment uses.  all_hooks returns each hook once.
KeysComplete ==
    Ok => \E b \in Window :
        /\ call.as \in {"keys", "keysLength"} =>
              LET keys   == {KeyTuple(PoolKeys[i]) : i \in 1 .. chain[b].keys}
                  wanted == keys \cap call.arg.wanted
              IN  /\ ToSet(result[2]) \subseteq wanted
                  /\ Len(result[2]) = Cardinality(ToSet(result[2]))
                  /\ Len(result[2]) = IF Cardinality(wanted) < call.arg.find
                                      THEN Cardinality(wanted) ELSE call.arg.find
        /\ call.as \in {"hooks", "hooksLength"} =>
              LET hooks == {Fill(Hooks[i], 20) : i \in 1 .. chain[b].hooks} IN
              ToSet(result[2]) = hooks /\ Len(result[2]) = Cardinality(hooks)
===============================================================================
