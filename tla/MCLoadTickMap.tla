---------------------------- MODULE MCLoadTickMap ----------------------------
(* TLC instances of LoadTickMap: the constants of the code, pools with at   *)
(* most two initialized ticks, ranges inside, across and outside the bounds.*)
EXTENDS LoadTickMap

MCMinTick == -887272
MCMaxTick == 887272

\* Edges of a word around 0, the second tick from a bound and the bounds.
Compressed(s) ==
    {c \in {-257, -1, 0, 255, 256, MinTick \div s + 1, MaxTick \div s - 1, MaxTick \div s} :
        c * s \in MinTick .. MaxTick}

Pools(s) == {{a, b} : a, b \in Compressed(s)} \cup {{}}

\* Nothing, on a tick, just below one, beyond the bounds.
Ends(s) ==
    LET ends == {c * s + d : c \in {-257, 0, 256, MaxTick \div s - 1}, d \in {-1, 0}}
                \cup {MinTick - 2 * s, MaxTick + s}
    IN  {<<>>} \cup {<<t>> : t \in ends \cap I24}

LoadsOf(spacings) ==
    UNION {[spacing : {s}, initialized : Pools(s), start : Ends(s), end : Ends(s)] : s \in spacings}

\* 3465: the last word but one ends within a spacing of the bound.
MCLoads == LoadsOf({200, 3465, 32767})
===============================================================================
