-------------------------- MODULE ForEachOrderedProofs --------------------------
(***************************************************************************)
(* Theorems about ForEachOrdered, for any number of calls, items and       *)
(* threads.                                                                *)
(***************************************************************************)
EXTENDS ForEachOrdered, TLAPS

Yielded(c, i) == item[c][i] \in {"written", "notified"}

\* A slot holds exactly the item that was written and not yet taken.
SlotInv(c) ==
    \A i \in Index :
        slot[c][i] = IF Yielded(c, i) /\ i >= Len(out[c]) THEN i ELSE Empty

\* What f was called with is a prefix of the items, all of them produced.
OutInv(c) ==
    /\ Len(out[c]) <= N
    /\ \A k \in 1 .. Len(out[c]) : out[c][k] = k - 1
    /\ \A i \in Index : i < Len(out[c]) => Yielded(c, i)

\* A leaf is processed from its start, one item after the other.
LeafInv(c) ==
    \A i, j \in Index :
        j < i /\ SameLeaf(c, j, i) /\ item[c][i] # "todo"
            => item[c][j] = "notified"

\* The flag is set only after the last write.
FlagInv(c) == panicked[c] => Produced(c)

\* Where the caller is: an empty slot stays empty while the caller holds its
\* lock, which is what makes the flag it then reads decisive.
CallerInv(c) ==
    /\ pc[c] \in {"take", "checked", "parking", "parked", "stopped"}
           => Len(out[c]) < N
    /\ pc[c] \in {"checked", "parking"} => slot[c][Len(out[c])] = Empty
    /\ pc[c] = "stopped" => panicked[c] /\ slot[c][Len(out[c])] = Empty
    /\ pc[c] \in {"finished", "returned"} => Len(out[c]) = N
    /\ pc[c] = "idle" => \A i \in Index : item[c][i] = "todo"

CallInv(c) ==
    SlotInv(c) /\ OutInv(c) /\ LeafInv(c) /\ FlagInv(c) /\ CallerInv(c)

IInv == TypeOK /\ \A c \in Calls : CallInv(c)

USE SizesAssumption

CallVars(d) == <<cuts[d], item[d], slot[d], panicked[d], pc[d], out[d]>>

Step(c) ==
    \/ \E p \in {"pool", "outside"} : Call(c, p)
    \/ \E i \in Index : Write(c, i) \/ Notify(c, i) \/ ItemPanics(c, i)
    \/ RaiseFlag(c) \/ SoundAlarm(c)
    \/ Look(c) \/ LoadPanicked(c) \/ Park(c) \/ CallEnds(c) \/ Leave(c)

LEMMA InitIInv == Init => IInv
<1> SUFFICES ASSUME Init PROVE IInv
  OBVIOUS
<1>1. TypeOK
  BY DEF Init, TypeOK, Index, Empty
<1>2. ASSUME NEW c \in Calls
      PROVE  CallInv(c)
  <2>1. /\ out[c] = <<>> /\ pc[c] = "idle" /\ panicked[c] = FALSE
        /\ \A i \in Index : item[c][i] = "todo" /\ slot[c][i] = Empty
    BY DEF Init
  <2>2. SlotInv(c) /\ OutInv(c)
    <3>1. Len(out[c]) = 0
      BY <2>1
    <3>2. \A i \in Index : ~Yielded(c, i) /\ ~(i < 0)
      BY <2>1 DEF Yielded, Index
    <3>3. QED
      BY <2>1, <3>1, <3>2 DEF SlotInv, OutInv
  <2>3. LeafInv(c) /\ FlagInv(c) /\ CallerInv(c)
    BY <2>1 DEF LeafInv, FlagInv, CallerInv
  <2>4. QED
    BY <2>2, <2>3 DEF CallInv
<1>3. QED
  BY <1>1, <1>2 DEF IInv

\* A step of one call leaves the others' variables alone.
LEMMA OthersUnchanged ==
    ASSUME TypeOK, NEW c \in Calls, Step(c), NEW d \in Calls, d # c
    PROVE  UNCHANGED CallVars(d)
BY DEF TypeOK, Step, CallVars, Call, Write, Notify, ItemPanics, RaiseFlag,
   SoundAlarm, Look, LoadPanicked, Park, CallEnds, Leave, Woken

\* The invariant of a call depends on its own variables.
LEMMA CallFrame ==
    ASSUME NEW d \in Calls, CallInv(d), UNCHANGED CallVars(d)
    PROVE  CallInv(d)'
BY DEF CallVars, CallInv, SlotInv, OutInv, LeafInv, FlagInv, CallerInv, Yielded,
   Produced, Skipped, SameLeaf

\* Once every leaf has ended, no item of the call can run any more.
LEMMA ProducedIsFinal ==
    ASSUME TypeOK, NEW c \in Calls, LeafInv(c), Produced(c), NEW i \in Index
    PROVE  ~CanRun(c, i)
<1> SUFFICES ASSUME CanRun(c, i) PROVE FALSE
  OBVIOUS
<1>1. item[c][i] = "todo"
  BY DEF CanRun
<1>2. PICK j \in 0 .. i - 1 : item[c][j] = "panicked" /\ SameLeaf(c, j, i)
  BY <1>1 DEF Produced, Skipped
<1>3. ~LeafStart(c, i)
  BY <1>2 DEF LeafStart, SameLeaf, Index
<1>4. item[c][i - 1] = "notified"
  BY <1>3 DEF CanRun
<1>5. j # i - 1
  BY <1>2, <1>4
<1>6. /\ i - 1 \in Index /\ j \in Index /\ j < i - 1
      /\ SameLeaf(c, j, i - 1)
  BY <1>2, <1>5 DEF Index, SameLeaf, TypeOK
<1>7. item[c][j] = "notified"
  BY <1>4, <1>6 DEF LeafInv
<1>8. QED
  BY <1>2, <1>7

\* An update of one entry of a table keeps its type.
LEMMA TableUpdate ==
    ASSUME NEW S, NEW D, NEW R, NEW f \in [S -> [D -> R]],
           NEW a \in S, NEW b \in D, NEW v \in R
    PROVE  [f EXCEPT ![a][b] = v] \in [S -> [D -> R]]
<1>1. [f[a] EXCEPT ![b] = v] \in [D -> R]
  OBVIOUS
<1>2. QED
  BY <1>1

\* In particular of the items and of the slots.
LEMMA EntryTypes ==
    ASSUME TypeOK, NEW c \in Calls, NEW i \in Index
    PROVE  /\ \A v \in {"written", "notified", "panicked"} :
                  [item EXCEPT ![c][i] = v]
                     \in [Calls -> [Index -> {"todo", "written", "notified", "panicked"}]]
           /\ \A v \in Index \cup {Empty} :
                  [slot EXCEPT ![c][i] = v]
                     \in [Calls -> [Index -> Index \cup {Empty}]]
<1>1. /\ item \in [Calls -> [Index -> {"todo", "written", "notified", "panicked"}]]
      /\ slot \in [Calls -> [Index -> Index \cup {Empty}]]
  BY DEF TypeOK
<1>2. ASSUME NEW v \in {"written", "notified", "panicked"}
      PROVE  [item EXCEPT ![c][i] = v]
                 \in [Calls -> [Index -> {"todo", "written", "notified", "panicked"}]]
  BY <1>1, TableUpdate, Zenon
<1>3. ASSUME NEW v \in Index \cup {Empty}
      PROVE  [slot EXCEPT ![c][i] = v] \in [Calls -> [Index -> Index \cup {Empty}]]
  BY <1>1, TableUpdate, Zenon
<1>4. QED
  BY <1>2, <1>3

\* Each action keeps the types.
LEMMA TypeStep ==
    ASSUME IInv, NEW c \in Calls, Step(c)
    PROVE  TypeOK'
<1> USE DEF IInv, Taking
<1>1. CallInv(c)
  OBVIOUS
<1>2. ASSUME NEW p \in {"pool", "outside"}, Call(c, p)
      PROVE  TypeOK'
  BY <1>2 DEF TypeOK, Call
<1>3. ASSUME NEW i \in Index, Write(c, i) \/ Notify(c, i) \/ ItemPanics(c, i)
      PROVE  TypeOK'
  <2>1. item' \in [Calls -> [Index -> {"todo", "written", "notified", "panicked"}]]
    <3>1. \E v \in {"written", "notified", "panicked"} :
              item' = [item EXCEPT ![c][i] = v]
      BY <1>3 DEF Write, Notify, ItemPanics
    <3>2. QED
      BY <3>1, EntryTypes
  <2>2. slot' \in [Calls -> [Index -> Index \cup {Empty}]]
    <3>1. slot' = slot \/ slot' = [slot EXCEPT ![c][i] = i]
      BY <1>3 DEF Write, Notify, ItemPanics
    <3>2. slot \in [Calls -> [Index -> Index \cup {Empty}]]
      BY DEF TypeOK
    <3>3. [slot EXCEPT ![c][i] = i] \in [Calls -> [Index -> Index \cup {Empty}]]
      BY EntryTypes
    <3>4. QED
      BY <3>1, <3>2, <3>3
  <2>3. pc' = pc \/ pc' = [pc EXCEPT ![c] = "take"]
    BY <1>3 DEF Write, Notify, ItemPanics, Woken
  <2>4. UNCHANGED <<cuts, panicked, alarm, place, out>>
    BY <1>3 DEF Write, Notify, ItemPanics
  <2>5. QED
    BY <2>1, <2>2, <2>3, <2>4 DEF TypeOK
<1>4. CASE RaiseFlag(c)
  BY <1>4 DEF TypeOK, RaiseFlag
<1>5. CASE SoundAlarm(c)
  BY <1>5 DEF TypeOK, SoundAlarm, Woken
<1>6. CASE Look(c)
  <2>1. Len(out[c]) \in Index
    BY <1>1, <1>6 DEF TypeOK, Look, CallInv, CallerInv, Index
  <2>2. CASE slot[c][Len(out[c])] # Empty
    <3>1. slot[c][Len(out[c])] \in Index
      BY <2>1, <2>2 DEF TypeOK
    <3>2. Append(out[c], slot[c][Len(out[c])]) \in Seq(Index)
      BY <3>1 DEF TypeOK
    <3>3. out' \in [Calls -> Seq(Index)]
      BY <1>6, <2>2, <3>2 DEF TypeOK, Look
    <3>4. slot' \in [Calls -> [Index -> Index \cup {Empty}]]
      <4>1. slot' = [slot EXCEPT ![c][Len(out[c])] = Empty]
        BY <1>6, <2>2 DEF Look
      <4>2. QED
        BY <2>1, <4>1, EntryTypes
    <3>5. QED
      BY <1>6, <2>2, <3>3, <3>4 DEF TypeOK, Look
  <2>3. CASE slot[c][Len(out[c])] = Empty
    BY <1>6, <2>3 DEF TypeOK, Look
  <2>4. QED
    BY <2>2, <2>3
<1>7. CASE LoadPanicked(c) \/ Park(c) \/ CallEnds(c) \/ Leave(c)
  <2>1. /\ \E p \in Taking \cup {"finished", "stopped", "unwinding", "returned",
                                 "raised"} : pc' = [pc EXCEPT ![c] = p]
        /\ UNCHANGED <<cuts, item, slot, panicked, alarm, place, out>>
    BY <1>7 DEF LoadPanicked, Park, CallEnds, Leave
  <2>2. QED
    BY <2>1 DEF TypeOK
<1>8. QED
  BY <1>2, <1>3, <1>4, <1>5, <1>6, <1>7 DEF Step

\* And the invariant of the call that takes it.
LEMMA CallStep ==
    ASSUME IInv, NEW c \in Calls, Step(c)
    PROVE  CallInv(c)'
<1>0. TypeOK /\ CallInv(c) /\ Len(out[c]) \in Nat
  BY DEF IInv, TypeOK
<1>1. ASSUME NEW p \in {"pool", "outside"}, Call(c, p)
      PROVE  CallInv(c)'
  <2>1. /\ pc[c] = "idle" /\ pc'[c] = "take"
        /\ UNCHANGED <<item, slot, panicked, out>>
    BY <1>0, <1>1 DEF Call, TypeOK
  <2>2. \A i \in Index : item[c][i] = "todo"
    BY <1>0, <2>1 DEF CallInv, CallerInv
  <2>3. Len(out[c]) = 0
    BY <1>0, <2>2 DEF CallInv, OutInv, Yielded, Index
  <2>4. ~panicked[c]
    <3>1. 0 \in Index /\ ~Skipped(c, 0)
      BY DEF Index, Skipped
    <3>2. QED
      BY <1>0, <2>2, <3>1 DEF CallInv, FlagInv, Produced
  <2>5. SlotInv(c)' /\ OutInv(c)'
    BY <1>0, <2>1 DEF CallInv, SlotInv, OutInv, Yielded
  <2>6. LeafInv(c)' /\ FlagInv(c)'
    BY <2>1, <2>2, <2>4 DEF LeafInv, FlagInv
  <2>7. CallerInv(c)'
    BY <2>1, <2>3 DEF CallerInv
  <2>8. QED
    BY <2>5, <2>6, <2>7 DEF CallInv
<1>2. ASSUME NEW i \in Index, Write(c, i)
      PROVE  CallInv(c)'
  <2>1. /\ CanRun(c, i) /\ ~Locked(c, i)
        /\ slot' = [slot EXCEPT ![c][i] = i]
        /\ item' = [item EXCEPT ![c][i] = "written"]
        /\ UNCHANGED <<cuts, panicked, pc, out>>
    BY <1>2 DEF Write
  <2>2. ~Produced(c) /\ item[c][i] = "todo" /\ pc[c] # "idle"
    BY <1>0, <2>1, ProducedIsFinal DEF CallInv, CanRun
  <2>3. i >= Len(out[c])
    BY <1>0, <2>2 DEF CallInv, OutInv, Yielded, Index
  <2>4. /\ item'[c][i] = "written" /\ slot'[c][i] = i
        /\ \A j \in Index : j # i => /\ item'[c][j] = item[c][j]
                                     /\ slot'[c][j] = slot[c][j]
    BY <1>0, <2>1 DEF TypeOK
  <2>5. SlotInv(c)' /\ OutInv(c)'
    BY <1>0, <2>1, <2>2, <2>3, <2>4 DEF CallInv, SlotInv, OutInv, Yielded
  <2>6. LeafInv(c)'
    <3> SUFFICES ASSUME NEW k \in Index, NEW j \in Index, j < k,
                        SameLeaf(c, j, k), item'[c][k] # "todo"
                 PROVE  item'[c][j] = "notified"
      BY <2>1 DEF LeafInv, SameLeaf
    <3>1. CASE k # i
      BY <1>0, <2>2, <2>4, <3>1 DEF CallInv, LeafInv
    <3>2. CASE k = i
      <4>1. item[c][i - 1] = "notified"
        BY <2>1, <3>2 DEF CanRun, LeafStart, SameLeaf, Index
      <4>2. j # i - 1 => item[c][j] = "notified"
        <5>1. j # i - 1 => i - 1 \in Index /\ j < i - 1 /\ SameLeaf(c, j, i - 1)
          BY <1>0, <3>2 DEF Index, SameLeaf, TypeOK
        <5>2. QED
          BY <1>0, <4>1, <5>1 DEF CallInv, LeafInv
      <4>3. j # i /\ item[c][j] = "notified"
        BY <3>2, <4>1, <4>2 DEF Index
      <4>4. QED
        BY <2>4, <4>3
    <3>3. QED
      BY <3>1, <3>2
  <2>7. FlagInv(c)'
    BY <1>0, <2>1, <2>2 DEF CallInv, FlagInv
  <2>8. CallerInv(c)'
    <3>1. pc[c] \in {"checked", "parking"} => i # Len(out[c])
      BY <2>1 DEF Locked
    <3>2. pc[c] # "stopped"
      BY <1>0, <2>2 DEF CallInv, CallerInv, FlagInv
    <3>3. pc[c] \in {"checked", "parking"} => Len(out[c]) \in Index
      BY <1>0 DEF CallInv, CallerInv, Index
    <3>4. QED
      BY <1>0, <2>1, <2>2, <2>4, <3>1, <3>2, <3>3 DEF CallInv, CallerInv
  <2>9. QED
    BY <2>5, <2>6, <2>7, <2>8 DEF CallInv
<1>3. ASSUME NEW i \in Index, Notify(c, i)
      PROVE  CallInv(c)'
  <2>1. /\ item[c][i] = "written"
        /\ item'[c][i] = "notified"
        /\ \A j \in Index : j # i => item'[c][j] = item[c][j]
        /\ \/ pc'[c] = pc[c]
           \/ pc[c] = "parked" /\ pc'[c] = "take"
        /\ UNCHANGED <<cuts, slot, panicked, out>>
    BY <1>0, <1>3 DEF Notify, Woken, TypeOK
  <2>2. SlotInv(c)' /\ OutInv(c)'
    BY <1>0, <2>1 DEF CallInv, SlotInv, OutInv, Yielded
  <2>3. LeafInv(c)'
    BY <1>0, <2>1 DEF CallInv, LeafInv, SameLeaf
  <2>4. ~Produced(c)
    BY <2>1 DEF Produced
  <2>5. FlagInv(c)'
    BY <1>0, <2>1, <2>4 DEF CallInv, FlagInv
  <2>6. CallerInv(c)'
    BY <1>0, <2>1 DEF CallInv, CallerInv
  <2>7. QED
    BY <2>2, <2>3, <2>5, <2>6 DEF CallInv
<1>4. ASSUME NEW i \in Index, ItemPanics(c, i)
      PROVE  CallInv(c)'
  <2>1. /\ CanRun(c, i)
        /\ item'[c][i] = "panicked"
        /\ \A j \in Index : j # i => item'[c][j] = item[c][j]
        /\ UNCHANGED <<cuts, slot, panicked, pc, out>>
    BY <1>0, <1>4 DEF ItemPanics, TypeOK
  <2>2. ~Produced(c) /\ item[c][i] = "todo" /\ pc[c] # "idle"
    BY <1>0, <2>1, ProducedIsFinal DEF CallInv, CanRun
  <2>3. SlotInv(c)' /\ OutInv(c)'
    BY <1>0, <2>1, <2>2 DEF CallInv, SlotInv, OutInv, Yielded
  <2>4. LeafInv(c)'
    <3> SUFFICES ASSUME NEW k \in Index, NEW j \in Index, j < k,
                        SameLeaf(c, j, k), item'[c][k] # "todo"
                 PROVE  item'[c][j] = "notified"
      BY <2>1 DEF LeafInv, SameLeaf
    <3>1. CASE k # i
      BY <1>0, <2>1, <2>2, <3>1 DEF CallInv, LeafInv
    <3>2. CASE k = i
      <4>1. item[c][i - 1] = "notified"
        BY <2>1, <3>2 DEF CanRun, LeafStart, SameLeaf, Index
      <4>2. j # i - 1 => item[c][j] = "notified"
        <5>1. j # i - 1 => i - 1 \in Index /\ j < i - 1 /\ SameLeaf(c, j, i - 1)
          BY <1>0, <3>2 DEF Index, SameLeaf, TypeOK
        <5>2. QED
          BY <1>0, <4>1, <5>1 DEF CallInv, LeafInv
      <4>3. j # i /\ item[c][j] = "notified"
        BY <3>2, <4>1, <4>2 DEF Index
      <4>4. QED
        BY <2>1, <4>3
    <3>3. QED
      BY <3>1, <3>2
  <2>5. FlagInv(c)'
    BY <1>0, <2>1, <2>2 DEF CallInv, FlagInv
  <2>6. CallerInv(c)'
    BY <1>0, <2>1, <2>2 DEF CallInv, CallerInv
  <2>7. QED
    BY <2>3, <2>4, <2>5, <2>6 DEF CallInv
<1>5. CASE RaiseFlag(c)
  <2>1. /\ Produced(c) /\ UNCHANGED <<cuts, item, slot, pc, out>>
        /\ panicked'[c] = TRUE
    BY <1>0, <1>5 DEF RaiseFlag, TypeOK
  <2>2. SlotInv(c)' /\ OutInv(c)' /\ LeafInv(c)'
    BY <1>0, <2>1 DEF CallInv, SlotInv, OutInv, LeafInv, Yielded, SameLeaf
  <2>3. FlagInv(c)'
    BY <2>1 DEF FlagInv, Produced, Skipped, SameLeaf
  <2>4. CallerInv(c)'
    BY <1>0, <2>1 DEF CallInv, CallerInv
  <2>5. QED
    BY <2>2, <2>3, <2>4 DEF CallInv
<1>6. CASE SoundAlarm(c)
  <2>1. /\ UNCHANGED <<cuts, item, slot, panicked, out>>
        /\ \/ pc'[c] = pc[c]
           \/ pc[c] = "parked" /\ pc'[c] = "take"
    BY <1>0, <1>6 DEF SoundAlarm, Woken, TypeOK
  <2>2. SlotInv(c)' /\ OutInv(c)' /\ LeafInv(c)'
    BY <1>0, <2>1 DEF CallInv, SlotInv, OutInv, LeafInv, Yielded, SameLeaf
  <2>3. FlagInv(c)'
    BY <1>0, <2>1 DEF CallInv, FlagInv, Produced, Skipped, SameLeaf
  <2>4. CallerInv(c)'
    BY <1>0, <2>1 DEF CallInv, CallerInv
  <2>5. QED
    BY <2>2, <2>3, <2>4 DEF CallInv
<1>7. CASE Look(c)
  <2> DEFINE n == Len(out[c])
  <2>1. /\ n \in Index /\ pc[c] = "take"
        /\ UNCHANGED <<cuts, item, panicked>>
    BY <1>0, <1>7 DEF Look, CallInv, CallerInv, Index
  <2>2. LeafInv(c)' /\ FlagInv(c)'
    BY <1>0, <2>1 DEF CallInv, LeafInv, FlagInv, Produced, Skipped, SameLeaf
  <2>3. CASE slot[c][n] # Empty
    <3>1. slot[c][n] = n /\ Yielded(c, n)
      BY <1>0, <2>1, <2>3 DEF CallInv, SlotInv
    <3>2. /\ out'[c] = Append(out[c], n)
          /\ slot'[c][n] = Empty
          /\ \A j \in Index : j # n => slot'[c][j] = slot[c][j]
          /\ pc'[c] = "calling"
      BY <1>0, <1>7, <2>1, <2>3, <3>1 DEF Look, TypeOK
    <3>3. /\ Len(out'[c]) = n + 1
          /\ out'[c][n + 1] = n
          /\ \A k \in 1 .. n : out'[c][k] = out[c][k]
      BY <1>0, <3>2 DEF TypeOK
    <3>4. SlotInv(c)'
      BY <1>0, <2>1, <3>2, <3>3 DEF CallInv, SlotInv, Yielded, Index
    <3>5. OutInv(c)'
      <4>1. n \in Nat /\ n + 1 <= N
        BY <2>1 DEF Index
      <4>2. /\ \A k \in 1 .. n : out[c][k] = k - 1
            /\ \A i \in Index : i < n => Yielded(c, i)
        BY <1>0 DEF CallInv, OutInv
      <4>3. \A k \in 1 .. n + 1 : out'[c][k] = k - 1
        BY <3>3, <4>1, <4>2
      <4>4. \A i \in Index : i < n + 1 => Yielded(c, i)
        BY <3>1, <4>1, <4>2 DEF Index
      <4>5. \A i \in Index : Yielded(c, i)' <=> Yielded(c, i)
        BY <2>1 DEF Yielded
      <4>6. QED
        BY <3>3, <4>1, <4>3, <4>4, <4>5 DEF OutInv
    <3>6. CallerInv(c)'
      BY <3>2 DEF CallerInv
    <3>7. QED
      BY <2>2, <3>4, <3>5, <3>6 DEF CallInv
  <2>4. CASE slot[c][n] = Empty
    <3>1. UNCHANGED <<slot, out>> /\ pc'[c] = "checked"
      BY <1>0, <1>7, <2>4 DEF Look, TypeOK
    <3>2. SlotInv(c)' /\ OutInv(c)'
      BY <1>0, <2>1, <3>1 DEF CallInv, SlotInv, OutInv, Yielded
    <3>3. CallerInv(c)'
      BY <1>0, <2>1, <2>4, <3>1 DEF CallInv, CallerInv
    <3>4. QED
      BY <2>2, <3>2, <3>3 DEF CallInv
  <2>5. QED
    BY <2>3, <2>4
<1>8. CASE LoadPanicked(c) \/ Park(c) \/ CallEnds(c) \/ Leave(c)
  <2>1. UNCHANGED <<cuts, item, slot, panicked, out>>
    BY <1>8 DEF LoadPanicked, Park, CallEnds, Leave
  <2>2. SlotInv(c)' /\ OutInv(c)' /\ LeafInv(c)' /\ FlagInv(c)'
    BY <1>0, <2>1 DEF CallInv, SlotInv, OutInv, LeafInv, FlagInv, Yielded,
       Produced, Skipped, SameLeaf
  <2>3. CallerInv(c)'
    <3>1. CASE LoadPanicked(c)
      BY <1>0, <2>1, <3>1 DEF LoadPanicked, TypeOK, CallInv, CallerInv
    <3>2. CASE Park(c)
      BY <1>0, <2>1, <3>2 DEF Park, TypeOK, CallInv, CallerInv
    <3>3. CASE CallEnds(c)
      BY <1>0, <2>1, <3>3 DEF CallEnds, TypeOK, CallInv, CallerInv, OutInv
    <3>4. CASE Leave(c)
      BY <1>0, <2>1, <3>4 DEF Leave, TypeOK, CallInv, CallerInv
    <3>5. QED
      BY <1>8, <3>1, <3>2, <3>3, <3>4
  <2>4. QED
    BY <2>2, <2>3 DEF CallInv
<1>9. QED
  BY <1>1, <1>2, <1>3, <1>4, <1>5, <1>6, <1>7, <1>8 DEF Step

LEMMA NextIInv == IInv /\ [Next]_vars => IInv'
<1> SUFFICES ASSUME IInv, [Next]_vars
             PROVE  IInv'
  OBVIOUS
<1>1. ASSUME NEW c \in Calls, Step(c)
      PROVE  IInv'
  <2>1. ASSUME NEW d \in Calls
        PROVE  CallInv(d)'
    BY <1>1, <2>1, CallStep, OthersUnchanged, CallFrame DEF IInv
  <2>2. QED
    BY <1>1, <2>1, TypeStep DEF IInv
<1>2. CASE UNCHANGED vars
  <2>1. TypeOK'
    BY <1>2 DEF vars, IInv, TypeOK
  <2>2. ASSUME NEW d \in Calls
        PROVE  CallInv(d)'
    BY <1>2, CallFrame DEF vars, CallVars, IInv
  <2>3. QED
    BY <2>1, <2>2 DEF IInv
<1>3. QED
  BY <1>1, <1>2 DEF Next, Step

LEMMA Invariance == Spec => []IInv
  BY InitIInv, NextIInv, PTL DEF Spec

\* Type correctness.
THEOREM TypeCorrect == Spec => []TypeOK
  BY Invariance, PTL DEF IInv

\* A caller that gives up has reached an item that was never produced, however
\* the items were split and wherever they panicked: nothing that could be
\* delivered is lost.
THEOREM StopsCorrect == Spec => []StopsAtFirstGap
<1>1. IInv => StopsAtFirstGap
  <2> SUFFICES ASSUME IInv, NEW c \in Calls, pc[c] = "stopped"
               PROVE  LET i == Len(out[c]) IN
                      \/ item[c][i] = "panicked"
                      \/ item[c][i] = "todo" /\ Skipped(c, i)
    BY DEF StopsAtFirstGap
  <2>1. CallInv(c) /\ Len(out[c]) \in Index /\ Produced(c)
    BY DEF IInv, TypeOK, CallInv, CallerInv, FlagInv, Index
  <2>2. ~Yielded(c, Len(out[c]))
    BY <2>1 DEF CallInv, SlotInv, CallerInv, Empty, Index
  <2>3. QED
    BY <2>1, <2>2 DEF Produced, Yielded
<1>2. QED
  BY <1>1, Invariance, PTL

-------------------------------------------------------------------------------
(* ForEachOrdered implements OrderedLoop.                                  *)

Result == [c \in Calls |-> IF pc[c] \in {"returned", "raised"} THEN pc[c]
                                                               ELSE "running"]

LEMMA StepLoop ==
    ASSUME IInv, NEW c \in Calls, Step(c)
    PROVE  [Loop!Next]_(Loop!vars)
<1>0. TypeOK /\ CallInv(c)
  BY DEF IInv
<1>1. CASE Look(c) /\ slot[c][Len(out[c])] # Empty
  <2> DEFINE n == Len(out[c])
  <2>1. n \in Index /\ n < N /\ pc[c] = "take"
    BY <1>0, <1>1 DEF Look, TypeOK, CallInv, CallerInv, Index
  <2>2. slot[c][n] = n
    BY <1>0, <1>1, <2>1 DEF CallInv, SlotInv
  <2>3. out' = [out EXCEPT ![c] = Append(@, Len(@))]
    BY <1>1, <2>2 DEF Look
  <2>4. Result' = Result /\ Result[c] = "running"
    BY <1>0, <1>1, <2>1 DEF Look, TypeOK, Result
  <2>5. Loop!Deliver(c)
    BY <2>1, <2>3, <2>4 DEF Loop!Deliver, Result
  <2>6. QED
    BY <2>5 DEF Loop!Next
<1>2. CASE Leave(c)
  <2>1. /\ UNCHANGED out
        /\ pc[c] \in {"finished", "stopped", "unwinding"}
        /\ \/ pc[c] = "finished" /\ pc' = [pc EXCEPT ![c] = "returned"]
           \/ pc' = [pc EXCEPT ![c] = "raised"]
    BY <1>2 DEF Leave
  <2>2. CASE pc[c] = "finished" /\ pc' = [pc EXCEPT ![c] = "returned"]
    <3>1. Len(out[c]) = N
      BY <1>0, <2>2 DEF CallInv, CallerInv
    <3>2. Result[c] = "running" /\ Result' = [Result EXCEPT ![c] = "returned"]
      BY <1>0, <2>2 DEF TypeOK, Result
    <3>3. Loop!Return(c)
      BY <2>1, <3>1, <3>2 DEF Loop!Return, Result
    <3>4. QED
      BY <3>3 DEF Loop!Next
  <2>3. CASE pc' = [pc EXCEPT ![c] = "raised"]
    <3>1. Result[c] = "running" /\ Result' = [Result EXCEPT ![c] = "raised"]
      BY <1>0, <2>1, <2>3 DEF TypeOK, Result
    <3>2. Loop!Raise(c)
      BY <2>1, <3>1 DEF Loop!Raise, Result
    <3>3. QED
      BY <3>2 DEF Loop!Next
  <2>4. QED
    BY <2>1, <2>2, <2>3
<1>3. CASE ~Leave(c) /\ ~(Look(c) /\ slot[c][Len(out[c])] # Empty)
  <2> DEFINE Silent ==
        /\ UNCHANGED out
        /\ \/ UNCHANGED pc
           \/ \E p \in Taking \cup {"finished", "stopped", "unwinding"} :
                  /\ pc[c] \notin {"returned", "raised"}
                  /\ pc' = [pc EXCEPT ![c] = p]
  <2>1. Silent
    <3>1. ASSUME NEW p \in {"pool", "outside"}, Call(c, p) PROVE Silent
      BY <3>1 DEF Call, Taking
    <3>2. ASSUME NEW i \in Index, Write(c, i) \/ Notify(c, i) \/ ItemPanics(c, i)
          PROVE  Silent
      BY <3>2 DEF Write, Notify, ItemPanics, Woken, Taking
    <3>3. CASE RaiseFlag(c) \/ SoundAlarm(c)
      BY <3>3 DEF RaiseFlag, SoundAlarm, Woken, Taking
    <3>4. CASE Look(c)
      BY <1>3, <3>4 DEF Look, Taking
    <3>5. CASE LoadPanicked(c) \/ Park(c) \/ CallEnds(c)
      BY <3>5 DEF LoadPanicked, Park, CallEnds, Taking
    <3>6. QED
      BY <1>3, <3>1, <3>2, <3>3, <3>4, <3>5 DEF Step
  <2>2. Result' = Result
    BY <1>0, <2>1 DEF TypeOK, Result, Taking
  <2>3. QED
    BY <2>1, <2>2 DEF Loop!vars, Result
<1>4. QED
  BY <1>1, <1>2, <1>3

\* Every call is the sequential loop: items in order, each once, none skipped,
\* and a normal return only after the last one.
THEOREM Implements == Spec => ImplementsLoop
<1>1. Init => Loop!Init
  BY DEF Init, Loop!Init
<1>2. IInv /\ [Next]_vars => [Loop!Next]_(Loop!vars)
  <2> SUFFICES ASSUME IInv, [Next]_vars
               PROVE  [Loop!Next]_(Loop!vars)
    OBVIOUS
  <2>1. CASE UNCHANGED vars
    BY <2>1 DEF vars, Loop!vars
  <2>2. QED
    BY <2>1, StepLoop DEF Next, Step
<1>3. Spec => Loop!Init /\ [][Loop!Next]_(Loop!vars)
  BY <1>1, <1>2, Invariance, PTL DEF Spec
<1>4. QED
  BY <1>3 DEF ImplementsLoop, Loop!Spec
===============================================================================
