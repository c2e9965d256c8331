------------------------------ MODULE LoadTickMap ------------------------------
(***************************************************************************)
(* pool_manager_load_tick_map: collects the ticks of a range by repeated   *)
(* next_tick_gt, then loads the data of all of them, in whatever order the *)
(* reads come back, into a map.  The searches are those of TickWalk.       *)
(***************************************************************************)
EXTENDS TickBitmap

CONSTANT Loads    \* arguments and the pool they are asked of

\* An optional argument is <<>> (None) or <<tick>>.
ASSUME LoadsAssumption ==
    \A l \in Loads :
        /\ l.spacing \in Nat \ {0}
        /\ \A c \in l.initialized : c \in Int /\ c * l.spacing \in MinTick .. MaxTick
        /\ \A bound \in {l.start, l.end} : bound = <<>> \/ bound[1] \in I24

\* What TickWalk assumes of a search: no initialized tick one spacing beyond the
\* last word, and words of ticks that fit an I24.
ASSUME BoundsAssumption ==
    \A l \in Loads :
        /\ MaxTick % (l.spacing * WordBits) # 0
        /\ (MinTick + l.spacing) % (l.spacing * WordBits) # 0
        /\ WordBits * l.spacing \in I24
        /\ 2 * MinTick \in I24 /\ 2 * MaxTick + l.spacing \in I24

VARIABLES
    load,      \* one of Loads, the same during a call
    ct,        \* the tick the next search starts from
    found,     \* initialized_ticks (its order and repetitions are lost in the map)
    loaded,    \* loaded_tick_data: tick |-> is_initialized
    status,    \* where the function is
    query, tick, answer    \* the search it awaits, see TickWalk

vars == <<load, ct, found, loaded, status, query, tick, answer>>

Walk == INSTANCE TickWalk WITH Queries <- {}

StartTick == IF load.start = <<>> THEN MinValidTick(load.spacing)
             ELSE NormalizeTick(load.start[1], load.spacing)
EndTick   == IF load.end = <<>> THEN MaxValidTick(load.spacing)
             ELSE NormalizeTick(load.end[1], load.spacing)

Search(t) ==
    /\ query' = [op |-> "gt", start |-> t, initializedOnly |-> TRUE,
                 spacing |-> load.spacing, initialized |-> load.initialized]
    /\ tick' = t
    /\ answer' = <<>>

Init ==
    /\ load \in Loads
    /\ ct = StartTick
    /\ found = {}
    /\ loaded = <<>>
    /\ status = "range"
    /\ query = [op |-> "none"] /\ tick = 0 /\ answer = <<>>

-------------------------------------------------------------------------------
\* Mutant: a range that ends on a tick leaves that tick out.
NextRoundExclusive ==
    /\ status = "range"
    /\ \/ /\ ct < EndTick
          /\ Search(ct)
          /\ status' = "search"
       \/ /\ ct >= EndTick
          /\ status' = "load"
          /\ UNCHANGED <<query, tick, answer>>
    /\ UNCHANGED <<load, ct, found, loaded>>

\* The head of the loop.
NextRound ==
    /\ status = "range"
    /\ \/ /\ ct <= EndTick
          /\ Search(ct)
          /\ status' = "search"
       \/ /\ ct > EndTick
          /\ status' = "load"
          /\ UNCHANGED <<query, tick, answer>>
    /\ UNCHANGED <<load, ct, found, loaded>>

SearchStep ==
    /\ status = "search"
    /\ Walk!NextTickGt
    /\ UNCHANGED <<load, ct, found, loaded, status>>

\* Mutant: only an initialized tick moves the search on.
TakeInitialized ==
    /\ status = "search" /\ answer # <<>>
    /\ found' = found \cup {answer[2]}
    /\ ct' = IF answer[1] THEN answer[2] ELSE ct
    /\ status' = "range"
    /\ UNCHANGED <<load, loaded, query, tick, answer>>

\* The flag of the answer is ignored: its tick is kept in any case.
TakeAnswer ==
    /\ status = "search" /\ answer # <<>>
    /\ found' = found \cup {answer[2]}
    /\ ct' = answer[2]
    /\ status' = "range"
    /\ UNCHANGED <<load, loaded, query, tick, answer>>

\* tick_initialized, one of the four reads of pool_manager_load_tick_data.
TickInitialized(t) ==
    LET c == CompressTick(t, load.spacing)
    IN  BitPos(c) \in WordOf(load.initialized, WordPos(c))

\* One element of the unordered stream arrives.
LoadTickData ==
    /\ status = "load"
    /\ \E t \in found \ DOMAIN loaded :
           loaded' = [u \in DOMAIN loaded \cup {t} |->
                         IF u = t THEN TickInitialized(t) ELSE loaded[u]]
    /\ UNCHANGED <<load, ct, found, status, query, tick, answer>>

Finish ==
    /\ status = "load" /\ found = DOMAIN loaded
    /\ status' = "done"
    /\ UNCHANGED <<load, ct, found, loaded, query, tick, answer>>

\* Any storage read may fail, and ends the whole call.
ReadFails ==
    /\ \/ status = "search" /\ answer = <<>>
       \/ status = "load" /\ found # DOMAIN loaded
    /\ status' = "failed"
    /\ UNCHANGED <<load, ct, found, loaded, query, tick, answer>>

Next ==
    \/ NextRound \/ SearchStep \/ TakeAnswer
    \/ LoadTickData \/ Finish
    \/ ReadFails

Spec == Init /\ [][Next]_vars

\* The future is awaited to its end.
FairSpec == Spec /\ WF_vars(Next)

-------------------------------------------------------------------------------
\* The position and every key fit an I24, only ticks that were found are loaded,
\* and the position is the start or one of them.
TypeOK ==
    /\ status \in {"range", "search", "load", "done", "failed"}
    /\ ct \in I24 /\ found \subseteq I24
    /\ DOMAIN loaded \subseteq found
    /\ ct \in found \cup {StartTick}

\* The map the call returns: of the keys up to the end of the range, exactly
\* the initialized ticks above its start; beyond the end exactly one more key,
\* where the last search arrived, unless the range is empty.  Each entry says
\* truly whether its tick is initialized.
InitializedTicks == {c * load.spacing : c \in load.initialized}
MapIsRange ==
    status = "done" =>
        /\ {t \in DOMAIN loaded : t <= EndTick} =
               {t \in InitializedTicks : StartTick < t /\ t <= EndTick}
        /\ Cardinality({t \in DOMAIN loaded : t > EndTick}) = (IF StartTick <= EndTick THEN 1 ELSE 0)
        /\ \A t \in DOMAIN loaded : loaded[t] <=> t \in InitializedTicks

Ended == status \in {"done", "failed"}

\* The call comes to its end, or goes round for ever: that only at a tick less
\* than a spacing below MAX_TICK that the range still includes, which the search
\* answers with itself.  A range that does not reach there is loaded in the end.
Circling == AtUpperBound(ct, load.spacing) /\ ct <= EndTick
EndsOrCircles == <>[](Ended \/ Circling)
===============================================================================
