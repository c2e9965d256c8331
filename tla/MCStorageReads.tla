----------------------------- MODULE MCStorageReads -----------------------------
(* TLC instance of StorageReads: growth counted modulo 4, starting at 0 and  *)
(* just below the wrap; fields at their limits; every reader.                *)
EXTENDS StorageReads

Order(s, k) == [n \in 1 .. 3 |-> s[((n + k) % 3) + 1]]
Unsigned(k) == Order(<<16777215, 0, 66051>>, k)
Signed(k)   == Order(<<-887272, 887272, -1>>, k)
Opaque(k)   == Order(<<255, 0, 7>>, k)
Flag(k)     == Order(<<TRUE, FALSE, TRUE>>, k)

MCField ==
    [sqrtPrice |-> Opaque(0), protocolFee |-> Unsigned(0), lpFee |-> Unsigned(1),
     liquidity |-> Opaque(1), gross |-> Opaque(2), net |-> Opaque(0),
     posLiquidity |-> Opaque(2), last0 |-> <<3, 1, 0>>, last1 |-> <<1, 2, 3>>,
     owner |-> Opaque(0), nextTokenId |-> <<1, 2, 3>>, subscribed |-> Flag(0),
     lower |-> Signed(0), upper |-> Signed(1), poolId |-> <<9, 9, 9>>,
     seconds |-> Opaque(0), initialized |-> Flag(1), isInitialized |-> Flag(2),
     creatorTax |-> Unsigned(0), protocolTax |-> Unsigned(1), creatorSwap |-> Unsigned(2),
     protocolSwap |-> Unsigned(1), mevFactor |-> <<1, 2, 0>>, taxFloor |-> <<2, 0, 3>>,
     jitEnabled |-> Flag(0), jitDefault |-> Flag(1), withdrawOnly |-> Flag(2),
     swapMultiple |-> Unsigned(2), verified |-> Flag(1), hookOfPool |-> Opaque(1)]

PoolKey(c0, c1, fee, spacing, hooks) ==
    [currency0 |-> c0, currency1 |-> c1, fee |-> fee, tickSpacing |-> spacing, hooks |-> hooks]
MCPoolKeys == <<PoolKey(0, 250, 8388608, 60, 1), PoolKey(5, 255, 16777215, 32767, 1)>>
MCHooks == <<7, 255, 20>>

MCInitialized == {-1, 0, 1}
MCPoolTicks   == {-2, 0, 1}
MCGenesis ==
    {[tick |-> -2, global |-> 0, keysSlot |-> 7, keys |-> 0, hooks |-> 0],
     [tick |-> 0, global |-> 3, keysSlot |-> 6, keys |-> 1, hooks |-> 1],
     [tick |-> 1, global |-> 2, keysSlot |-> 5, keys |-> 1, hooks |-> 1]}

\* A node, and a database made at block 1.
MCFetchers == {[kind |-> "RootProvider", own |-> 0], [kind |-> "AlloyDB", own |-> 1]}

Filters ==
    {PoolKeysFilter(find, {KeyTuple(PoolKeys[i]) : i \in wanted}) :
        find \in 1 .. 2, wanted \in {{2}, {1, 2}}}

MCCalls ==
    OtherReaders \cup UNION {ReadersOfTick(t) : t \in {-1, 1}} \cup ReadersOfPosition(-1, 1)
    \cup UNION {GrowthReaders(now, r[1], r[2]) : now \in MCPoolTicks, r \in Ranges} \cup Filters
=================================================================================
