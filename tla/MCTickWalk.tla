------------------------------ MODULE MCTickWalk ------------------------------
(* TLC instances of TickWalk: the constants of the code, pools with at most *)
(* two initialized ticks, placed at the bounds, at the edges of words and   *)
(* around 0.                                                                *)
EXTENDS TickWalk, TLC

MCMinTick == -887272
MCMaxTick == 887272

\* Compressed ticks at the edges of a word around 0, and at the bounds.
Compressed(s) ==
    {c \in {-257, -256, -1, 0, 255, 256,
            MinTick \div s, MinTick \div s + 1, MaxTick \div s - 1, MaxTick \div s} :
        c * s \in MinTick .. MaxTick}

Pools(s) == {{a, b} : a, b \in Compressed(s)} \cup {{}}

\* On a multiple of the spacing, just below one, and at the bounds.
Starts(s) ==
    {t \in {c * s + d : c \in Compressed(s), d \in {-1, 0}} \cup {MinTick, MaxTick} :
        t \in MinTick .. MaxTick}

QueriesOf(spacings, ops, only) ==
    UNION {[spacing : {s}, start : Starts(s), initialized : Pools(s), op : ops,
            initializedOnly : only] : s \in spacings}

\* 1 and 8 divide the bounds, 32767 is the largest spacing a pool can have.
WalkQueries == QueriesOf({60, 3465, 32767}, {"gt", "lt", "le"}, BOOLEAN)
WordQueries == QueriesOf({1, 60, 32767}, WordOps, {TRUE})

\* The longest walks: nothing, or only the bounds, initialized.
LongQueries ==
    {q \in QueriesOf({60, 887}, {"gt", "lt", "le"}, {TRUE}) :
        \A c \in q.initialized : AtUpperBound(c * q.spacing, q.spacing)
                                  \/ AtLowerBound(c * q.spacing, q.spacing)}

AllQueries == WalkQueries \cup WordQueries \cup LongQueries
===============================================================================
