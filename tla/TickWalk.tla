------------------------------- MODULE TickWalk -------------------------------
(***************************************************************************)
(* The searches for the next tick in tick_bitmap.rs.  next_tick_gt, _lt    *)
(* and _le read one word of the bitmap, answer from it or call themselves  *)
(* with the tick at its edge; the one-word searches of v4 and v3 read one  *)
(* word and answer.  One step is one call of the Rust function, with the   *)
(* one storage read it awaits.                                             *)
(***************************************************************************)
EXTENDS TickBitmap

CONSTANT Queries    \* arguments and the pool they are asked of

WalkOps == {"gt", "lt", "le"}
WordOps == {"lteWord", "gtWord", "v3LteWord", "v3GtWord"}

\* A pool's initialized ticks are multiples of its spacing within the bounds;
\* the bitmap holds them divided by the spacing.
ASSUME QueriesAssumption ==
    \A q \in Queries :
        /\ q.spacing \in Nat \ {0}
        /\ q.start \in MinTick .. MaxTick
        /\ \A c \in q.initialized : c \in Int /\ c * q.spacing \in MinTick .. MaxTick
        /\ q.op \in WalkOps \cup WordOps
        /\ q.initializedOnly \in BOOLEAN

\* No initialized tick can lie one spacing beyond a word that ends within a
\* spacing of a bound: MAX_TICK = 2^3 * 197 * 563, and spacings have 16 bits.
ASSUME BoundsAssumption ==
    \A q \in Queries :
        /\ MaxTick % (q.spacing * WordBits) # 0
        /\ (MinTick + q.spacing) % (q.spacing * WordBits) # 0

\* With a spacing of 16 bits a word of ticks fits an I24, and so does twice a bound.
ASSUME WidthAssumption ==
    \A q \in Queries :
        /\ WordBits * q.spacing \in I24
        /\ 2 * MinTick \in I24 /\ 2 * MaxTick + q.spacing \in I24

VARIABLES
    query,     \* one of Queries, the same during a search
    tick,      \* the argument of the current call
    answer     \* <<>>, or <<initialized, tick>>

vars == <<query, tick, answer>>

spacing     == query.spacing
initialized == query.initialized

Init ==
    /\ query \in Queries
    /\ tick = query.start
    /\ answer = <<>>

-------------------------------------------------------------------------------
Asked(op) == query.op = op /\ answer = <<>>

Return(isInitialized, t) ==
    /\ answer' = <<isInitialized, t>>
    /\ UNCHANGED <<query, tick>>

\* Mutant: a search upwards or downwards goes on one spacing beyond the edge.
ContinuePastEdge(isInitialized, next, atEdge) ==
    \/ /\ ~query.initializedOnly \/ isInitialized \/ atEdge
       /\ Return(isInitialized, next)
    \/ /\ query.initializedOnly /\ ~isInitialized /\ ~atEdge
       /\ tick' = next + (IF query.op = "gt" THEN spacing ELSE -spacing)
       /\ UNCHANGED <<query, answer>>

\* The tail of the three searches: answer with next or call again with it.
Continue(isInitialized, next, atEdge) ==
    \/ /\ ~query.initializedOnly \/ isInitialized \/ atEdge
       /\ Return(isInitialized, next)
    \/ /\ query.initializedOnly /\ ~isInitialized /\ ~atEdge
       /\ tick' = next
       /\ UNCHANGED <<query, answer>>

Upwards(c) ==
    LET bit  == NextBitGte(WordOf(initialized, WordPos(c)), BitPos(c))
        next == TickFromWordAndBit(WordPos(c), bit[2], spacing)
    IN  Continue(bit[1], next, MaxTick - next <= spacing)

Downwards(c) ==
    LET bit  == NextBitLte(WordOf(initialized, WordPos(c)), BitPos(c))
        next == TickFromWordAndBit(WordPos(c), bit[2], spacing)
    IN  Continue(bit[1], next, next - MinTick <= spacing)

\* Mutant: the word of the tick itself, so that the edge of a word stays put.
NextTickGtSameTick ==
    /\ Asked("gt")
    /\ \/ AtUpperBound(tick, spacing) /\ Return(FALSE, tick)
       \/ ~AtUpperBound(tick, spacing) /\ Upwards(CompressTick(tick, spacing))

NextTickGt ==
    /\ Asked("gt")
    /\ \/ AtUpperBound(tick, spacing) /\ Return(FALSE, tick)
       \/ ~AtUpperBound(tick, spacing) /\ Upwards(CompressTick(tick, spacing) + 1)

NextTickLt ==
    /\ Asked("lt")
    /\ \/ AtLowerBound(tick, spacing) /\ Return(FALSE, tick)
       \/ ~AtLowerBound(tick, spacing) /\ Downwards(CompressTick(tick, spacing) - 1)

NextTickLe ==
    /\ Asked("le")
    /\ \/ AtLowerBound(tick, spacing) /\ Return(FALSE, tick)
       \/ ~AtLowerBound(tick, spacing) /\ Downwards(CompressTick(tick, spacing))

\* next_initialized_tick_within_one_word of v4, and that of v3.
WithinWord ==
    \/ /\ Asked("lteWord")
       /\ LET r == NextWithinWordLte(initialized, tick, spacing) IN Return(r[1], r[2])
    \/ /\ Asked("gtWord")
       /\ LET r == NextWithinWordGt(initialized, tick, spacing) IN Return(r[1], r[2])

V3WithinWord ==
    \E lte \in BOOLEAN :
        /\ Asked(IF lte THEN "v3LteWord" ELSE "v3GtWord")
        /\ LET r == V3NextWithinWord(initialized, tick, spacing, lte) IN Return(r[1], r[2])

Next == NextTickGt \/ NextTickLt \/ NextTickLe \/ WithinWord \/ V3WithinWord

Spec == Init /\ [][Next]_vars

\* The future is awaited to its end.
FairSpec == Spec /\ WF_vars(Next)

-------------------------------------------------------------------------------
(* Properties.  They speak of ticks and floor division, not of words.      *)

DistanceFits(t) ==
    /\ query.op = "gt" => MaxTick - t \in I24
    /\ query.op \in {"lt", "le"} => t - MinTick \in I24

\* Whatever the spacing, every tick the code computes on the way, and every
\* difference it takes with a bound, fits the 24 bits of an I24.
TypeOK ==
    /\ tick \in I24 /\ DistanceFits(tick)
    /\ answer # <<>> => answer \in BOOLEAN \X I24 /\ DistanceFits(answer[2])

\* The initialized ticks on the side of the start that is searched.  The
\* searches count from the multiple of the spacing at or below the start.
Floor == query.start \div spacing
Side ==
    {c \in initialized : \/ query.op = "gt" /\ c > Floor
                         \/ query.op = "lt" /\ c < Floor
                         \/ query.op = "le" /\ c <= Floor}
Nearest == IF query.op = "gt" THEN Min(Side) ELSE Max(Side)

StartsAtBound ==
    IF query.op = "gt" THEN AtUpperBound(query.start, spacing)
                       ELSE AtLowerBound(query.start, spacing)

\* A search for initialized ticks finds the nearest one, however many words
\* lie between, and reports none only when there is none (or when it starts
\* within a spacing of the bound, where it does not look).
FindsNearest ==
    query.op \in WalkOps /\ query.initializedOnly /\ answer # <<>> /\ ~StartsAtBound =>
        /\ answer[1] <=> Side # {}
        /\ answer[1] => answer[2] = Nearest * spacing

\* A search that may answer with the edge of a word passes over no initialized
\* tick before it does.
PassesOverNone ==
    query.op \in WalkOps /\ ~query.initializedOnly /\ answer # <<>> /\ ~StartsAtBound =>
        IF answer[1] THEN answer[2] = Nearest * spacing
        ELSE \A c \in Side : IF query.op = "gt" THEN c * spacing > answer[2]
                                                ELSE c * spacing < answer[2]

\* The one-word searches of v4 and v3 are one function: the nearest initialized
\* tick of the word on that side, or the edge of the word.
WordStart == (IF query.op \in {"gtWord", "v3GtWord"} THEN Floor + 1 ELSE Floor)
WordSide ==
    {c \in initialized : /\ c \div WordBits = WordStart \div WordBits
                         /\ IF query.op \in {"gtWord", "v3GtWord"}
                            THEN c >= WordStart ELSE c <= WordStart}
WordSearchesAgree ==
    query.op \in WordOps /\ answer # <<>> =>
        LET first == (WordStart \div WordBits) * WordBits IN
        answer = <<WordSide # {},
                   spacing * (IF query.op \in {"gtWord", "v3GtWord"}
                              THEN Min(WordSide \cup {first + WordBits - 1})
                              ELSE Max(WordSide \cup {first}))>>

\* Every search ends except next_tick_le's, which has its own property below.
SearchEnds == query.op # "le" ~> answer # <<>>

\* The test of next_tick_le asks for initialized ticks only and gets the
\* nearest one at or below: the search comes to an answer.
LeSearchEnds == query.op = "le" ~> answer # <<>>
===============================================================================
