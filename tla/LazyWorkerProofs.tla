---------------------------- MODULE LazyWorkerProofs ----------------------------
(***************************************************************************)
(* The invariants of LazyWorker, for any number of threads, closures,      *)
(* names and clones.                                                       *)
(***************************************************************************)
EXTENDS LazyWorker, SequenceTheorems, TLAPS

Types ==
    /\ worker \in [Names -> {"absent", "waiting", "running", "ended"}]
    /\ cur \in [Names -> Tasks \cup {None}]
    /\ queue \in [Names -> Seq(Tasks)] /\ order \in [Names -> Seq(Tasks)]
    /\ txOpen \in [Names -> BOOLEAN]
    /\ chan \in [Tasks -> {"none", "open", "value", "closed", "ready"}]
    /\ cell \in [Tasks -> {"empty", "busy", "set"}]
    /\ rx \in [Tasks -> {"some", "none", "poisoned"}]
    /\ holds \in [Tasks -> SUBSET Actors] /\ moved \subseteq Tasks
    /\ runtimes \subseteq Actors /\ dropped \in BOOLEAN
    /\ doing \in [Actors -> {"idle", "enter", "recv", "unwrap", "join"}]
    /\ on \in [Actors -> Tasks \cup Names \cup {None}]
    /\ into \in [Actors -> BOOLEAN]

Busy(n) == IF cur[n] = None THEN 0 ELSE 1
Done(n) == Len(order[n]) - Len(queue[n]) - Busy(n)

\* InOrder, element by element.
Line(n) ==
    /\ Done(n) \in Nat
    /\ cur[n] # None => cur[n] = order[n][Done(n) + 1]
    /\ \A i \in 1 .. Len(queue[n]) : queue[n][i] = order[n][Done(n) + Busy(n) + i]
    /\ \A i \in 1 .. Len(order[n]) :
           /\ chan[order[n][i]] \in {"open", "value", "closed"}
           /\ chan[order[n][i]] = "open" <=> i > Done(n)
    /\ worker[n] = "running" <=> cur[n] # None

\* A task is sent once, to one name, and an open one has been.
SentOnce ==
    /\ \A n, m \in Names : \A i \in 1 .. Len(order[n]), j \in 1 .. Len(order[m]) :
           order[n][i] = order[m][j] => n = m /\ i = j
    /\ \A t \in Tasks : chan[t] = "open" =>
           \E n \in Names : \E i \in 1 .. Len(order[n]) : order[n][i] = t

LineInv == (\A n \in Names : Line(n)) /\ SentOnce

\* What an actor has for the call it is in.
InCall(a) ==
    /\ doing[a] = "idle" => on[a] = None /\ ~into[a]
    /\ doing[a] = "join" => on[a] \in Names \cup {None} /\ ~into[a] /\ runtimes = {}
    /\ doing[a] \in {"enter", "recv", "unwrap"} =>
           on[a] \in Tasks /\ a \in holds[on[a]] /\ (a \in Tasks => a \notin runtimes)

\* A closure owns and calls something only while it is in a line; a handle that
\* has not been made has no clones.
Owning(u) ==
    /\ doing[u] # "idle" \/ u \in runtimes => chan[u] = "open"
    /\ \A t \in Tasks : u \in holds[t] => chan[u] = "open"
    /\ chan[u] = "none" => holds[u] = {}

Owners == (\A a \in Actors : InCall(a)) /\ (\A u \in Tasks : Owning(u))

\* The life of a cell.
CellOf(t) ==
    /\ cell[t] = "busy" => \E a \in Actors : doing[a] = "recv" /\ on[a] = t
    /\ cell[t] = "set" => chan[t] \in {"value", "ready"}
    /\ rx[t] # "some" => cell[t] \in {"busy", "set"} \/ chan[t] = "closed"
    /\ rx[t] = "poisoned" => chan[t] = "closed"
    /\ t \in moved => cell[t] = "set" /\ holds[t] = {}

Cells ==
    /\ \A t \in Tasks : CellOf(t)
    /\ \A a \in Actors : doing[a] = "unwrap" => cell[on[a]] = "set"

\* The drop of the map.
Drained(n) == worker[n] \in {"absent", "ended"}

Draining ==
    /\ \A a, b \in Actors : doing[a] = "join" /\ doing[b] = "join" => a = b
    /\ \A a \in Actors : doing[a] = "join" =>
           /\ ~dropped
           /\ \A n \in Names : Drained(n) \/ txOpen[n] \/ on[a] = n
    /\ dropped => runtimes = {} /\ \A n \in Names : Drained(n)
    /\ \A n \in Names : Drained(n) => ~txOpen[n] /\ queue[n] = <<>>
    /\ runtimes # {} => \A n \in Names : worker[n] = "absent" \/ txOpen[n]

Inv == Types /\ LineInv /\ Owners /\ Cells /\ Draining

-------------------------------------------------------------------------------
LEMMA InitInv == Init => Inv
  <1> SUFFICES ASSUME Init PROVE Inv
    OBVIOUS
  <1>1. Types
    <2>1. <<>> \in Seq(Tasks) /\ Spawners \subseteq Actors /\ {} \in SUBSET Actors
      BY ActorsAssumption DEF Actors
    <2>2. /\ queue \in [Names -> Seq(Tasks)] /\ order \in [Names -> Seq(Tasks)]
          /\ runtimes \subseteq Actors /\ dropped \in BOOLEAN
      BY <2>1 DEF Init
    <2>3. /\ worker \in [Names -> {"absent", "waiting", "running", "ended"}]
          /\ cur \in [Names -> Tasks \cup {None}] /\ txOpen \in [Names -> BOOLEAN]
      BY DEF Init
    <2>4. /\ chan \in [Tasks -> {"none", "open", "value", "closed", "ready"}]
          /\ cell \in [Tasks -> {"empty", "busy", "set"}]
          /\ rx \in [Tasks -> {"some", "none", "poisoned"}]
          /\ holds \in [Tasks -> SUBSET Actors] /\ moved \subseteq Tasks
      BY DEF Init
    <2>5. /\ doing \in [Actors -> {"idle", "enter", "recv", "unwrap", "join"}]
          /\ on \in [Actors -> Tasks \cup Names \cup {None}]
          /\ into \in [Actors -> BOOLEAN]
      BY DEF Init
    <2> QED
      BY <2>2, <2>3, <2>4, <2>5 DEF Types
  <1>2. LineInv
    <2>1. ASSUME NEW n \in Names PROVE order[n] = <<>> /\ queue[n] = <<>> /\ cur[n] = None
      BY DEF Init
    <2>2. ASSUME NEW n \in Names PROVE Busy(n) = 0 /\ Done(n) = 0 /\ Len(order[n]) = 0
      <3>1. Len(order[n]) = 0 /\ Len(queue[n]) = 0 /\ Busy(n) = 0
        BY <2>1 DEF Busy
      <3> QED
        BY <3>1 DEF Done
    <2>3. ASSUME NEW n \in Names PROVE Line(n)
      BY <2>1, <2>2 DEF Init, Line
    <2>4. SentOnce
      BY <2>2 DEF Init, SentOnce
    <2> QED
      BY <2>3, <2>4 DEF LineInv
  <1>3. Owners
    BY ActorsAssumption, NoneAssumption DEF Init, Owners, InCall, Owning, Actors
  <1>4. Cells
    BY DEF Init, Cells, CellOf
  <1>5. Draining
    BY DEF Init, Draining, Drained
  <1> QED
    BY <1>1, <1>2, <1>3, <1>4, <1>5 DEF Inv
-------------------------------------------------------------------------------
(* The lines, under each effect a step can have on them.                   *)

Quiet == UNCHANGED <<worker, cur, queue, order, chan>>

Sends(t, n) ==
    /\ chan[t] = "none"
    /\ SpawnOn(n, t)
    /\ order' = [order EXCEPT ![n] = Append(@, t)]
    /\ chan' = [chan EXCEPT ![t] = "open"]
    /\ cur' = cur

Makes(t) == chan[t] = "none" /\ chan' = [chan EXCEPT ![t] = "ready"] /\ UNCHANGED workerVars

Takes(n) ==
    /\ worker[n] = "waiting" /\ queue[n] # <<>>
    /\ worker' = [worker EXCEPT ![n] = "running"]
    /\ cur' = [cur EXCEPT ![n] = Head(queue[n])]
    /\ queue' = [queue EXCEPT ![n] = Tail(@)]
    /\ UNCHANGED <<order, chan>>

Leaves(n) ==
    /\ worker[n] = "waiting"
    /\ worker' = [worker EXCEPT ![n] = "ended"]
    /\ UNCHANGED <<cur, queue, order, chan>>

Stops(t, n, end) ==
    /\ cur[n] = t
    /\ chan' = [chan EXCEPT ![t] = end]
    /\ worker' = [worker EXCEPT ![n] = "waiting"]
    /\ cur' = [cur EXCEPT ![n] = None]
    /\ UNCHANGED <<queue, order>>

LEMMA NoneIsNoTask == None \notin Tasks /\ None \notin Actors /\ None \notin Names
  BY NoneAssumption DEF Actors

LEMMA LineFacts ==
    ASSUME Types, LineInv, NEW n \in Names
    PROVE  /\ Line(n)
           /\ order[n] \in Seq(Tasks) /\ queue[n] \in Seq(Tasks)
           /\ Len(order[n]) \in Nat /\ Len(queue[n]) \in Nat /\ Done(n) \in Nat
           /\ Busy(n) = IF cur[n] = None THEN 0 ELSE 1
           /\ Len(order[n]) = Done(n) + Busy(n) + Len(queue[n])
           /\ \A i \in 1 .. Len(order[n]) :
                  /\ order[n][i] \in Tasks
                  /\ chan[order[n][i]] \in {"open", "value", "closed"}
                  /\ chan[order[n][i]] = "open" <=> i > Done(n)
           /\ \A i \in 1 .. Len(queue[n]) : queue[n][i] \in Tasks
  <1>1. Line(n) /\ order[n] \in Seq(Tasks) /\ queue[n] \in Seq(Tasks)
    BY DEF LineInv, Types
  <1>2. /\ Len(order[n]) \in Nat /\ Len(queue[n]) \in Nat
        /\ \A i \in 1 .. Len(order[n]) : order[n][i] \in Tasks
        /\ \A i \in 1 .. Len(queue[n]) : queue[n][i] \in Tasks
    BY <1>1
  <1>3. Done(n) \in Nat /\ \A i \in 1 .. Len(order[n]) :
            /\ chan[order[n][i]] \in {"open", "value", "closed"}
            /\ chan[order[n][i]] = "open" <=> i > Done(n)
    BY <1>1 DEF Line
  <1>4. Busy(n) = IF cur[n] = None THEN 0 ELSE 1
    BY DEF Busy
  <1>5. Len(order[n]) = Done(n) + Busy(n) + Len(queue[n])
    BY <1>2, <1>4 DEF Done
  <1> QED
    BY <1>1, <1>2, <1>3, <1>4, <1>5

LEMMA LineSizes ==
    ASSUME Types, LineInv, NEW n \in Names
    PROVE  /\ Len(order[n]) \in Nat /\ Len(queue[n]) \in Nat /\ Done(n) \in Nat
           /\ Busy(n) \in Nat
           /\ Len(order[n]) = Done(n) + Busy(n) + Len(queue[n])
           /\ \A i \in 1 .. Len(queue[n]) : queue[n][i] = order[n][Done(n) + Busy(n) + i]
  BY LineFacts DEF Line, Busy

\* What runs or is queued is open, and a worker runs exactly with a task.
LEMMA LineIsOpen ==
    ASSUME Types, LineInv, NEW n \in Names
    PROVE  /\ cur[n] # None => chan[cur[n]] = "open" /\ worker[n] = "running"
           /\ \A u \in Range(queue[n]) : chan[u] = "open"
  <1> USE LineFacts
  <1>1. ASSUME cur[n] # None PROVE chan[cur[n]] = "open" /\ worker[n] = "running"
    <2>1. Done(n) + 1 \in 1 .. Len(order[n]) /\ Done(n) + 1 > Done(n)
      BY <1>1
    <2>2. cur[n] = order[n][Done(n) + 1] /\ worker[n] = "running"
      BY <1>1 DEF Line
    <2> QED
      BY <2>1, <2>2
  <1>2. ASSUME NEW i \in 1 .. Len(queue[n]) PROVE chan[queue[n][i]] = "open"
    <2>1. Done(n) + Busy(n) + i \in 1 .. Len(order[n]) /\ Done(n) + Busy(n) + i > Done(n)
      OBVIOUS
    <2>2. queue[n][i] = order[n][Done(n) + Busy(n) + i]
      BY DEF Line
    <2> QED
      BY <2>1, <2>2
  <1>3. DOMAIN queue[n] = 1 .. Len(queue[n])
    OBVIOUS
  <1>4. \A u \in Range(queue[n]) : chan[u] = "open"
    BY <1>2, <1>3 DEF Range
  <1> QED
    BY <1>1, <1>4

LEMMA QuietLine == ASSUME LineInv, Quiet PROVE LineInv'
  <1>1. \A m \in Names : Done(m)' = Done(m) /\ Busy(m)' = Busy(m)
    BY DEF Quiet, Done, Busy
  <1>2. ASSUME NEW m \in Names PROVE Line(m)'
    BY <1>1 DEF Quiet, LineInv, Line
  <1>3. SentOnce'
    BY DEF Quiet, LineInv, SentOnce
  <1> QED
    BY <1>2, <1>3 DEF LineInv

LEMMA LeavesLine ==
    ASSUME Types, LineInv, NEW n \in Names, Leaves(n)
    PROVE  LineInv'
  <1>1. \A m \in Names : Done(m)' = Done(m) /\ Busy(m)' = Busy(m)
    BY DEF Leaves, Done, Busy
  <1>2. \A m \in Names : worker'[m] = "running" <=> worker[m] = "running"
    BY DEF Leaves, Types
  <1>3. ASSUME NEW m \in Names PROVE Line(m)'
    BY <1>1, <1>2 DEF Leaves, LineInv, Line
  <1>4. SentOnce'
    BY DEF Leaves, LineInv, SentOnce
  <1> QED
    BY <1>3, <1>4 DEF LineInv

LEMMA MakesLine ==
    ASSUME Types, LineInv, NEW t \in Tasks, Makes(t)
    PROVE  LineInv'
  <1>1. \A m \in Names : Done(m)' = Done(m) /\ Busy(m)' = Busy(m)
    BY DEF Makes, Done, Busy, workerVars
  <1>2. ASSUME NEW m \in Names, NEW i \in 1 .. Len(order[m])
        PROVE  chan'[order[m][i]] = chan[order[m][i]]
    <2>1. chan[order[m][i]] # "none" /\ order[m][i] \in Tasks
      BY LineFacts
    <2> QED
      BY <2>1 DEF Makes, Types
  <1>3. ASSUME NEW m \in Names PROVE Line(m)'
    BY <1>1, <1>2 DEF Makes, LineInv, Line, workerVars
  <1>4. SentOnce'
    BY DEF Makes, LineInv, SentOnce, workerVars, Types
  <1> QED
    BY <1>3, <1>4 DEF LineInv
LEMMA TakesLine ==
    ASSUME Types, LineInv, NEW n \in Names, Takes(n)
    PROVE  LineInv'
  <1>1. /\ Len(queue[n]) > 0 /\ cur[n] = None /\ Busy(n) = 0
        /\ Head(queue[n]) = queue[n][1] /\ Head(queue[n]) \in Tasks
        /\ Len(Tail(queue[n])) = Len(queue[n]) - 1
        /\ \A i \in 1 .. Len(queue[n]) - 1 : Tail(queue[n])[i] = queue[n][i + 1]
    <2>1. queue[n] \in Seq(Tasks) /\ queue[n] # <<>>
      BY LineFacts DEF Takes
    <2>2. cur[n] = None
      BY LineFacts DEF Takes, Line
    <2>3. Busy(n) = 0
      BY <2>2 DEF Busy
    <2>4. Len(queue[n]) > 0
      BY <2>1, EmptySeq
    <2>5. Head(queue[n]) = queue[n][1] /\ Head(queue[n]) \in Tasks
      BY <2>1, <2>4
    <2> QED
      BY <2>1, <2>2, <2>3, <2>4, <2>5
  <1>2. /\ cur'[n] = queue[n][1] /\ queue'[n] = Tail(queue[n]) /\ order' = order /\ chan' = chan
        /\ worker'[n] = "running" /\ Busy(n)' = 1 /\ cur'[n] # None
    <2>1. /\ cur'[n] = queue[n][1] /\ queue'[n] = Tail(queue[n]) /\ order' = order
          /\ chan' = chan /\ worker'[n] = "running"
      BY <1>1 DEF Takes, Types
    <2>2. cur'[n] # None
      BY <1>1, <2>1, NoneIsNoTask
    <2> QED
      BY <2>1, <2>2 DEF Busy
  <1>3. Done(n)' = Done(n)
    <2>1. Len(order'[n]) = Len(order[n]) /\ Len(queue'[n]) = Len(queue[n]) - 1
      BY <1>1, <1>2
    <2>2. Len(order[n]) = Done(n) + 0 + Len(queue[n]) /\ Len(queue[n]) \in Nat /\ Done(n) \in Nat
      BY <1>1, LineSizes
    <2>3. Done(n)' = Len(order'[n]) - Len(queue'[n]) - Busy(n)'
      BY DEF Done
    <2>4. Done(n)' = Len(order[n]) - (Len(queue[n]) - 1) - 1
      BY <1>2, <2>1, <2>3
    <2> QED
      BY <2>2, <2>4
  <1>4. Line(n)'
    <2>1. cur'[n] = order'[n][Done(n)' + 1]
      BY <1>1, <1>2, <1>3, LineFacts DEF Line
    <2>2. ASSUME NEW i \in 1 .. Len(queue'[n])
          PROVE  queue'[n][i] = order'[n][Done(n)' + Busy(n)' + i]
      <3> USE LineSizes
      <3>1. i + 1 \in 1 .. Len(queue[n]) /\ queue'[n][i] = queue[n][i + 1]
        BY <1>1, <1>2
      <3>2. queue[n][i + 1] = order[n][Done(n) + Busy(n) + (i + 1)]
        BY <3>1
      <3>3. Done(n) + Busy(n) + (i + 1) = Done(n)' + Busy(n)' + i
        <4>1. Done(n)' = Done(n) /\ Busy(n)' = 1 /\ Busy(n) = 0
          BY <1>1, <1>2, <1>3
        <4>2. Done(n) + 0 + (i + 1) = Done(n) + 1 + i
          <5>1. Done(n) \in Nat /\ i \in Nat
            BY LineSizes
          <5> QED
            BY <5>1
        <4> QED
          BY <4>1, <4>2
      <3> QED
        BY <1>2, <3>1, <3>2, <3>3
    <2> QED
      BY <1>2, <1>3, <2>1, <2>2, LineFacts DEF Line
  <1>5. ASSUME NEW m \in Names, m # n PROVE Line(m)'
    <2>1. UNCHANGED <<cur[m], queue[m], worker[m]>> /\ order' = order /\ chan' = chan
      BY <1>5 DEF Takes, Types
    <2>2. Done(m)' = Done(m) /\ Busy(m)' = Busy(m)
      BY <2>1 DEF Done, Busy
    <2> QED
      BY <2>1, <2>2, LineFacts DEF Line
  <1>6. SentOnce'
    BY <1>2 DEF LineInv, SentOnce
  <1> QED
    BY <1>4, <1>5, <1>6 DEF LineInv

LEMMA StopsLine ==
    ASSUME Types, LineInv, NEW n \in Names, NEW t \in Tasks, NEW end \in {"value", "closed"},
           Stops(t, n, end)
    PROVE  LineInv'
  <1>1. /\ cur[n] # None /\ Busy(n) = 1 /\ t = order[n][Done(n) + 1]
        /\ Done(n) + 1 \in 1 .. Len(order[n])
    BY NoneIsNoTask, LineFacts DEF Stops, Line
  <1>2. /\ cur'[n] = None /\ queue' = queue /\ order' = order /\ worker'[n] = "waiting"
        /\ Busy(n)' = 0
    BY DEF Stops, Types, Busy
  <1>3. Done(n)' = Done(n) + 1
    <2>1. Len(order[n]) = Done(n) + 1 + Len(queue[n]) /\ Len(queue[n]) \in Nat /\ Done(n) \in Nat
      BY <1>1, LineSizes
    <2>2. Done(n)' = Len(order[n]) - Len(queue[n]) - 0
      BY <1>2 DEF Done
    <2> QED
      BY <2>1, <2>2
  <1>4. ASSUME NEW m \in Names, NEW i \in 1 .. Len(order[m])
        PROVE  chan'[order[m][i]] = IF m = n /\ i = Done(n) + 1 THEN end
                                    ELSE chan[order[m][i]]
    <2>1. order[m][i] = t <=> m = n /\ i = Done(n) + 1
      BY <1>1 DEF LineInv, SentOnce
    <2>2. order[m][i] \in Tasks
      BY LineFacts
    <2> QED
      BY <2>1, <2>2 DEF Stops, Types
  <1>5. Line(n)'
    <2>1. ASSUME NEW i \in 1 .. Len(queue'[n])
          PROVE  queue'[n][i] = order'[n][Done(n)' + Busy(n)' + i]
      <3>1. queue[n][i] = order[n][Done(n) + Busy(n) + i]
        BY <1>2, LineSizes
      <3> QED
        <4>1. Done(n)' = Done(n) + 1 /\ Busy(n)' = 0 /\ Busy(n) = 1
          BY <1>1, <1>2, <1>3
        <4>2. (Done(n) + 1) + 0 + i = Done(n) + 1 + i
          BY <1>2, LineSizes
        <4> QED
          BY <1>2, <3>1, <4>1, <4>2
    <2>2. ASSUME NEW i \in 1 .. Len(order'[n])
          PROVE  /\ chan'[order'[n][i]] \in {"open", "value", "closed"}
                 /\ chan'[order'[n][i]] = "open" <=> i > Done(n)'
      <3>1. /\ i \in 1 .. Len(order[n]) /\ order'[n][i] = order[n][i]
            /\ chan'[order[n][i]] = IF i = Done(n) + 1 THEN end ELSE chan[order[n][i]]
        BY <1>2, <1>4
      <3>2. /\ chan[order[n][i]] \in {"open", "value", "closed"}
            /\ chan[order[n][i]] = "open" <=> i > Done(n)
        BY <3>1, LineFacts
      <3>3. i \in Int /\ Done(n) \in Nat
        BY LineSizes
      <3> QED
        BY <1>3, <3>1, <3>2, <3>3
    <2>3. Done(n)' \in Nat
      BY <1>3, LineFacts
    <2> QED
      BY <1>2, <2>1, <2>2, <2>3 DEF Line
  <1>6. ASSUME NEW m \in Names, m # n PROVE Line(m)'
    <2>1. UNCHANGED <<cur[m], queue[m], worker[m], order[m]>>
      BY <1>6 DEF Stops, Types
    <2>2. Done(m)' = Done(m) /\ Busy(m)' = Busy(m)
      BY <2>1 DEF Done, Busy
    <2>3. ASSUME NEW i \in 1 .. Len(order'[m])
          PROVE  /\ chan'[order'[m][i]] \in {"open", "value", "closed"}
                 /\ chan'[order'[m][i]] = "open" <=> i > Done(m)'
      <3>1. i \in 1 .. Len(order[m]) /\ chan'[order'[m][i]] = chan[order[m][i]]
        BY <1>4, <1>6, <2>1
      <3> QED
        BY <2>2, <3>1, LineFacts
    <2> QED
      BY <2>1, <2>2, <2>3, LineFacts DEF Line
  <1>7. SentOnce'
    BY <1>2 DEF LineInv, SentOnce, Stops, Types
  <1> QED
    BY <1>5, <1>6, <1>7 DEF LineInv

LEMMA SendsLine ==
    ASSUME Types, LineInv, NEW n \in Names, NEW t \in Tasks, Sends(t, n)
    PROVE  LineInv'
  <1>1. /\ queue'[n] = Append(queue[n], t) /\ order'[n] = Append(order[n], t)
        /\ chan' = [chan EXCEPT ![t] = "open"] /\ cur' = cur
        /\ worker'[n] = "running" <=> worker[n] = "running"
    BY DEF Sends, SpawnOn, Types
  <1>2. ASSUME NEW m \in Names, m # n
        PROVE  UNCHANGED <<cur[m], queue[m], worker[m], order[m]>>
    BY <1>2 DEF Sends, SpawnOn, Types
  <1>3. /\ Len(queue'[n]) = Len(queue[n]) + 1 /\ Len(order'[n]) = Len(order[n]) + 1
        /\ \A i \in 1 .. Len(queue[n]) : queue'[n][i] = queue[n][i]
        /\ \A i \in 1 .. Len(order[n]) : order'[n][i] = order[n][i]
        /\ queue'[n][Len(queue[n]) + 1] = t /\ order'[n][Len(order[n]) + 1] = t
    BY <1>1, LineFacts
  <1>4. \A m \in Names : Busy(m)' = Busy(m) /\ Done(m)' = Done(m)
    <2>1. \A m \in Names : Busy(m)' = Busy(m)
      BY <1>1 DEF Busy
    <2>2. Done(n)' = Done(n)
      <3>1. /\ Done(n) = Len(order[n]) - Len(queue[n]) - Busy(n)
            /\ Done(n)' = Len(order'[n]) - Len(queue'[n]) - Busy(n)'
        BY DEF Done
      <3> QED
        <4>1. Done(n)' = (Len(order[n]) + 1) - (Len(queue[n]) + 1) - Busy(n)
          BY <1>3, <2>1, <3>1
        <4>2. (Len(order[n]) + 1) - (Len(queue[n]) + 1) - Busy(n)
                = Len(order[n]) - Len(queue[n]) - Busy(n)
          <5>1. Len(order[n]) \in Nat /\ Len(queue[n]) \in Nat /\ Busy(n) \in Nat
            BY LineSizes
          <5>2. \A a, b, c \in Nat : (a + 1) - (b + 1) - c = a - b - c
            OBVIOUS
          <5> QED
            BY <5>1, <5>2
        <4> QED
          BY <3>1, <4>1, <4>2
    <2> QED
      BY <1>2, <2>1, <2>2 DEF Done
  <1>5. ASSUME NEW m \in Names, NEW i \in 1 .. Len(order[m])
        PROVE  chan'[order[m][i]] = chan[order[m][i]] /\ order[m][i] # t
    <2>1. chan[order[m][i]] # "none" /\ order[m][i] \in Tasks
      BY LineFacts
    <2> QED
      BY <1>1, <2>1 DEF Sends, Types
  <1>6. chan'[t] = "open"
    BY <1>1 DEF Types
  <1>7. Line(n)'
    <2>1. cur'[n] # None => cur'[n] = order'[n][Done(n)' + 1]
      <3>1. cur[n] # None => Busy(n) = 1 /\ cur[n] = order[n][Done(n) + 1]
        BY LineFacts DEF Line
      <3>2. cur[n] # None => Done(n) + 1 \in 1 .. Len(order[n])
        BY <3>1, LineSizes
      <3> QED
        BY <1>1, <1>3, <1>4, <3>1, <3>2
    <2>2. ASSUME NEW i \in 1 .. Len(queue'[n])
          PROVE  queue'[n][i] = order'[n][Done(n)' + Busy(n)' + i]
      <3> USE LineSizes
      <3>1. CASE i \in 1 .. Len(queue[n])
        <4>1. queue[n][i] = order[n][Done(n) + Busy(n) + i]
          BY <3>1
        <4>2. Done(n) + Busy(n) + i \in 1 .. Len(order[n])
          BY <3>1
        <4> QED
          BY <1>3, <1>4, <3>1, <4>1, <4>2
      <3>2. CASE i = Len(queue[n]) + 1
        <4>1. Done(n)' + Busy(n)' + i = Len(order[n]) + 1
          <5>1. Done(n)' = Done(n) /\ Busy(n)' = Busy(n)
            BY <1>4
          <5>2. Done(n) + Busy(n) + i = Len(order[n]) + 1
            <6>1. /\ Len(order[n]) \in Nat /\ Len(queue[n]) \in Nat /\ Done(n) \in Nat
                  /\ Busy(n) \in Nat /\ Len(order[n]) = Done(n) + Busy(n) + Len(queue[n])
              BY LineSizes
            <6> QED
              BY <3>2, <6>1
          <5> QED
            BY <5>1, <5>2
        <4> QED
          BY <1>3, <3>2, <4>1
      <3> QED
        BY <1>3, <3>1, <3>2
    <2>3. ASSUME NEW i \in 1 .. Len(order'[n])
          PROVE  /\ chan'[order'[n][i]] \in {"open", "value", "closed"}
                 /\ chan'[order'[n][i]] = "open" <=> i > Done(n)'
      <3>1. CASE i \in 1 .. Len(order[n])
        <4>1. chan'[order'[n][i]] = chan[order[n][i]]
          BY <1>3, <1>5, <3>1
        <4> QED
          BY <1>4, <3>1, <4>1, LineFacts
      <3>2. CASE i = Len(order[n]) + 1
        <4>1. chan'[order'[n][i]] = "open"
          BY <1>3, <1>6, <3>2
        <4>2. i > Done(n)
          <5>1. /\ Len(order[n]) \in Nat /\ Len(queue[n]) \in Nat /\ Done(n) \in Nat
                /\ Busy(n) \in Nat /\ Len(order[n]) = Done(n) + Busy(n) + Len(queue[n])
            BY LineSizes
          <5> QED
            BY <3>2, <5>1
        <4> QED
          BY <1>4, <4>1, <4>2
      <3>3. i \in 1 .. Len(order[n]) \/ i = Len(order[n]) + 1
        <4>1. Len(order[n]) \in Nat /\ i \in 1 .. Len(order[n]) + 1
          BY <1>3, LineSizes
        <4> QED
          BY <4>1
      <3> QED
        BY <3>1, <3>2, <3>3
    <2> QED
      <3>1. Done(n)' \in Nat
        BY <1>4, LineSizes
      <3>2. worker'[n] = "running" <=> cur'[n] # None
        BY <1>1, LineFacts DEF Line
      <3> QED
        BY <2>1, <2>2, <2>3, <3>1, <3>2 DEF Line
  <1>8. ASSUME NEW m \in Names, m # n PROVE Line(m)'
    <2>1. \A i \in 1 .. Len(order'[m]) : chan'[order'[m][i]] = chan[order[m][i]]
      BY <1>2, <1>5, <1>8
    <2>2. UNCHANGED <<cur[m], queue[m], worker[m], order[m]>> /\ Done(m)' = Done(m)
          /\ Busy(m)' = Busy(m)
      BY <1>2, <1>4, <1>8
    <2>3. Line(m)
      BY LineFacts
    <2> QED
      BY <2>1, <2>2, <2>3 DEF Line
  <1>9. SentOnce'
    <2>1. ASSUME NEW l \in Names, NEW m \in Names,
                 NEW i \in 1 .. Len(order'[l]), NEW j \in 1 .. Len(order'[m]),
                 order'[l][i] = order'[m][j]
          PROVE  l = m /\ i = j
      <3>1. \A k \in Names : \A p \in 1 .. Len(order'[k]) :
               \/ p \in 1 .. Len(order[k]) /\ order'[k][p] = order[k][p] /\ order'[k][p] # t
               \/ k = n /\ p = Len(order[n]) + 1 /\ order'[k][p] = t
        <4> SUFFICES ASSUME NEW k \in Names, NEW p \in 1 .. Len(order'[k])
            PROVE  \/ p \in 1 .. Len(order[k]) /\ order'[k][p] = order[k][p] /\ order'[k][p] # t
                   \/ k = n /\ p = Len(order[n]) + 1 /\ order'[k][p] = t
          OBVIOUS
        <4>1. CASE k # n
          BY <1>2, <1>5, <4>1
        <4>2. CASE k = n /\ p \in 1 .. Len(order[n])
          BY <1>3, <1>5, <4>2
        <4>3. CASE k = n /\ p = Len(order[n]) + 1
          BY <1>3, <4>3
        <4>4. k = n => p \in 1 .. Len(order[n]) \/ p = Len(order[n]) + 1
          <5>1. Len(order[n]) \in Nat
            BY LineFacts
          <5>2. k = n => p \in 1 .. Len(order[n]) + 1
            BY <1>3
          <5> QED
            BY <5>1, <5>2
        <4> QED
          BY <4>1, <4>2, <4>3, <4>4
      <3>2. CASE order'[l][i] = t
        BY <2>1, <3>1, <3>2
      <3>3. CASE order'[l][i] # t
        BY <2>1, <3>1, <3>3 DEF LineInv, SentOnce
      <3> QED
        BY <3>2, <3>3
    <2>2. ASSUME NEW u \in Tasks, chan'[u] = "open"
          PROVE  \E m \in Names : \E i \in 1 .. Len(order'[m]) : order'[m][i] = u
      <3>1. CASE u = t
        BY <1>3, <3>1, LineFacts
      <3>2. CASE u # t
        <4>1. chan[u] = "open"
          BY <1>1, <2>2, <3>2 DEF Types
        <4>2. PICK m \in Names : \E i \in 1 .. Len(order[m]) : order[m][i] = u
          BY <4>1 DEF LineInv, SentOnce
        <4>3. PICK i \in 1 .. Len(order[m]) : order[m][i] = u
          BY <4>2
        <4>4. CASE m # n
          BY <1>2, <4>3, <4>4
        <4>5. CASE m = n
          <5>1. Len(order[n]) \in Nat
            BY LineFacts
          <5>2. i \in 1 .. Len(order'[n]) /\ order'[n][i] = u
            BY <1>3, <4>3, <4>5, <5>1
          <5> QED
            BY <4>5, <5>2
        <4> QED
          BY <4>4, <4>5
      <3> QED
        BY <3>1, <3>2
    <2> QED
      BY <2>1, <2>2 DEF SentOnce
  <1> QED
    BY <1>7, <1>8, <1>9 DEF LineInv

-------------------------------------------------------------------------------
(* Types.                                                                  *)

LEMMA TypesNext ==
    ASSUME Types, Owners, Next
    PROVE  Types'
  <1> USE DEF Types
  <1>1. ASSUME NEW a \in Actors, NEW t \in Tasks, NEW n \in Names,
               NEW keep, NEW owning, keep = {} \/ keep = {a}, owning = {} \/ owning = {t},
               Spawn(a, t, n, keep, owning)
        PROVE  Types'
    <2>1. Append(queue[n], t) \in Seq(Tasks) /\ Append(order[n], t) \in Seq(Tasks)
      OBVIOUS
    <2>2. /\ worker' \in [Names -> {"absent", "waiting", "running", "ended"}]
          /\ queue' \in [Names -> Seq(Tasks)] /\ order' \in [Names -> Seq(Tasks)]
          /\ txOpen' \in [Names -> BOOLEAN]
      BY <1>1, <2>1 DEF Spawn, SpawnOn
    <2>3. runtimes' \subseteq Actors /\ holds' \in [Tasks -> SUBSET Actors]
      BY <1>1 DEF Spawn, Actors
    <2>4. chan' \in [Tasks -> {"none", "open", "value", "closed", "ready"}]
      BY <1>1 DEF Spawn
    <2> QED
      BY <1>1, <2>2, <2>3, <2>4 DEF Spawn, callVars
  <1>2. ASSUME NEW a \in Actors, NEW t \in Tasks, Ready(a, t) PROVE Types'
    BY <1>2 DEF Ready, workerVars, mapVars, callVars
  <1>3. ASSUME NEW a \in Actors, NEW b \in Actors, NEW t \in Tasks, Share(a, b, t) PROVE Types'
    BY <1>3 DEF Share, workerVars, mapVars, callVars
  <1>4. ASSUME NEW a \in Actors, NEW t \in Tasks, DropHandle(a, t) PROVE Types'
    BY <1>4 DEF DropHandle, workerVars, mapVars, callVars
  <1>5. ASSUME NEW a \in Actors, NEW t \in Tasks, NEW c \in BOOLEAN, Asks(a, t, c) PROVE Types'
    BY <1>5 DEF Asks, workerVars, mapVars, handleVars
  <1>6. ASSUME NEW a \in Actors, Fails(a)
        PROVE  /\ worker' \in [Names -> {"absent", "waiting", "running", "ended"}]
               /\ cur' \in [Names -> Tasks \cup {None}] /\ UNCHANGED <<queue, order>>
               /\ chan' \in [Tasks -> {"none", "open", "value", "closed", "ready"}]
               /\ holds' \in [Tasks -> SUBSET Actors]
               /\ doing' \in [Actors -> {"idle", "enter", "recv", "unwrap", "join"}]
               /\ on' \in [Actors -> Tasks \cup Names \cup {None}]
               /\ into' \in [Actors -> BOOLEAN]
               /\ UNCHANGED <<txOpen, moved, mapVars>>
    <2>1. /\ doing' \in [Actors -> {"idle", "enter", "recv", "unwrap", "join"}]
          /\ on' \in [Actors -> Tasks \cup Names \cup {None}]
          /\ into' \in [Actors -> BOOLEAN]
      BY <1>6 DEF Fails, Answered
    <2>2. UNCHANGED <<txOpen, moved, mapVars>>
      BY <1>6 DEF Fails
    <2>3. CASE /\ holds' = IF into[a] THEN [holds EXCEPT ![on[a]] = @ \ {a}] ELSE holds
               /\ UNCHANGED <<worker, cur, queue, order, chan>>
      <3>1. holds' \in [Tasks -> SUBSET Actors]
        <4>1. CASE into[a]
          BY <2>3, <4>1
        <4>2. CASE ~into[a]
          BY <2>3, <4>2
        <4> QED
          BY <4>1, <4>2
      <3> QED
        BY <2>1, <2>2, <2>3, <3>1
    <2>4. ASSUME NEW n \in Names, Unwind(a, n)
          PROVE  /\ worker' \in [Names -> {"absent", "waiting", "running", "ended"}]
                 /\ cur' \in [Names -> Tasks \cup {None}] /\ UNCHANGED <<queue, order>>
                 /\ chan' \in [Tasks -> {"none", "open", "value", "closed", "ready"}]
                 /\ holds' \in [Tasks -> SUBSET Actors]
      BY <2>4 DEF Unwind
    <2> QED
      BY <1>6, <2>1, <2>2, <2>3, <2>4 DEF Fails
  <1>7. ASSUME NEW a \in Actors, HasValue(a)
        PROVE  /\ doing' \in [Actors -> {"idle", "enter", "recv", "unwrap", "join"}]
               /\ on' \in [Actors -> Tasks \cup Names \cup {None}]
               /\ into' \in [Actors -> BOOLEAN]
    <2>1. CASE Answered(a)
      BY <2>1 DEF Answered
    <2>2. CASE doing' = [doing EXCEPT ![a] = "unwrap"] /\ UNCHANGED <<on, into>>
      BY <2>2
    <2> QED
      BY <1>7, <2>1, <2>2 DEF HasValue
  <1>8. ASSUME NEW a \in Actors, Enter(a) PROVE Types'
    <2>1. CASE cell[on[a]] = "set" /\ HasValue(a) /\ UNCHANGED <<workerVars, chan, handleVars, mapVars>>
      BY <1>7, <2>1 DEF workerVars, handleVars, mapVars
    <2>2. CASE TakeReceiver(a) /\ rx[on[a]] = "some"
      <3>1. /\ rx' = [rx EXCEPT ![on[a]] = "none"] /\ cell' = [cell EXCEPT ![on[a]] = "busy"]
            /\ doing' = [doing EXCEPT ![a] = "recv"]
            /\ UNCHANGED <<workerVars, chan, holds, moved, mapVars, on, into>>
        BY <2>2 DEF TakeReceiver
      <3>2. /\ rx' \in [Tasks -> {"some", "none", "poisoned"}]
            /\ cell' \in [Tasks -> {"empty", "busy", "set"}]
        BY <3>1
      <3> QED
        BY <3>1, <3>2 DEF workerVars, mapVars
    <2>3. CASE TakeReceiver(a) /\ rx[on[a]] # "some"
      <3>1. Fails(a) /\ cell' = cell /\ rx' \in [Tasks -> {"some", "none", "poisoned"}]
        BY <2>3 DEF TakeReceiver
      <3> QED
        BY <1>6, <3>1 DEF mapVars
    <2> QED
      BY <1>8, <2>1, <2>2, <2>3 DEF Enter
  <1>9. ASSUME NEW a \in Actors, Receive(a) PROVE Types'
    <2>1. CASE HasValue(a) /\ cell' = [cell EXCEPT ![on[a]] = "set"]
               /\ UNCHANGED <<workerVars, chan, rx, holds, moved, mapVars>>
      <3>1. cell' \in [Tasks -> {"empty", "busy", "set"}]
        BY <2>1
      <3> QED
        BY <1>7, <2>1, <3>1 DEF workerVars, mapVars
    <2>2. CASE Fails(a) /\ cell' = [cell EXCEPT ![on[a]] = "empty"] /\ rx' = rx
      <3>1. cell' \in [Tasks -> {"empty", "busy", "set"}]
        BY <2>2
      <3> QED
        BY <1>6, <2>2, <3>1 DEF mapVars
    <2> QED
      BY <1>9, <2>1, <2>2 DEF Receive
  <1>10. ASSUME NEW a \in Actors, Unwrap(a) PROVE Types'
    <2>1. /\ doing' \in [Actors -> {"idle", "enter", "recv", "unwrap", "join"}]
          /\ on' \in [Actors -> Tasks \cup Names \cup {None}] /\ into' \in [Actors -> BOOLEAN]
      <3>1. Answered(a)
        BY <1>10 DEF Unwrap
      <3> QED
        BY <3>1 DEF Answered
    <2>2. holds' \in [Tasks -> SUBSET Actors] /\ moved' \subseteq Tasks
      <3>1. on[a] \in Tasks
        BY <1>10 DEF Unwrap, Owners, InCall
      <3>2. CASE holds' = [holds EXCEPT ![on[a]] = {}] /\ moved' = moved \cup {on[a]}
        BY <3>1, <3>2
      <3>3. CASE UNCHANGED <<holds, moved>>
        BY <3>3
      <3> QED
        BY <1>10, <3>2, <3>3 DEF Unwrap
    <2> QED
      BY <1>10, <2>1, <2>2 DEF Unwrap, workerVars, mapVars
  <1>11. ASSUME NEW a \in Actors, DropRuntime(a) PROVE Types'
    BY <1>11 DEF DropRuntime, workerVars, handleVars
  <1>12. ASSUME NEW a \in Actors, NEW n \in Names, CloseWorker(a, n) PROVE Types'
    BY <1>12 DEF CloseWorker, handleVars, mapVars
  <1>13. ASSUME NEW a \in Actors, Joined(a) PROVE Types'
    BY <1>13 DEF Joined, workerVars, handleVars, mapVars
  <1>14. ASSUME NEW a \in Actors, JoinSelf(a) PROVE Types'
    BY <1>14 DEF JoinSelf, Unwind, mapVars
  <1>15. ASSUME NEW a \in Actors, DropEnds(a) PROVE Types'
    BY <1>15 DEF DropEnds, workerVars, handleVars
  <1>16. ASSUME NEW n \in Names, WorkerTake(n) PROVE Types'
    <2>1. Head(queue[n]) \in Tasks /\ Tail(queue[n]) \in Seq(Tasks)
      BY <1>16, HeadTailProperties DEF WorkerTake
    <2> QED
      BY <1>16, <2>1 DEF WorkerTake, handleVars, mapVars, callVars
  <1>17. ASSUME NEW n \in Names, WorkerEnd(n) PROVE Types'
    BY <1>17 DEF WorkerEnd, handleVars, mapVars, callVars
  <1>18. ASSUME NEW n \in Names, Finish(n) PROVE Types'
    BY <1>18 DEF Finish, handleVars, mapVars, callVars
  <1>19. ASSUME NEW n \in Names, ClosurePanics(n) PROVE Types'
    BY <1>19 DEF ClosurePanics, Unwind, mapVars, callVars
  <1> HIDE DEF Types
  <1>20. ASSUME NEW a \in Actors, SpawnStep(a) PROVE Types'
    <2>1. PICK t \in Tasks :
              \/ \E n \in Names, keep \in {{}, {a}}, owning \in {{}, {t}} :
                     Spawn(a, t, n, keep, owning)
              \/ Ready(a, t)
      BY <1>20 DEF SpawnStep
    <2>2. ASSUME NEW n \in Names, NEW keep \in {{}, {a}}, NEW owning \in {{}, {t}},
                 Spawn(a, t, n, keep, owning)
          PROVE  Types'
      <3>1. (keep = {} \/ keep = {a}) /\ (owning = {} \/ owning = {t})
        OBVIOUS
      <3> QED
        BY <1>1, <2>2, <3>1
    <2> QED
      BY <1>2, <2>1, <2>2
  <1>21. ASSUME NEW a \in Actors, OwnerStep(a) PROVE Types'
    BY <1>3, <1>4, <1>5, <1>21 DEF OwnerStep
  <1>22. ASSUME NEW a \in Actors, CallStep(a) \/ DropStep(a) PROVE Types'
    BY <1>8, <1>9, <1>10, <1>12, <1>13, <1>14, <1>15, <1>22 DEF CallStep, DropStep
  <1>23. ASSUME NEW n \in Names, WorkerStep(n) PROVE Types'
    BY <1>16, <1>17, <1>18, <1>19, <1>23 DEF WorkerStep
  <1> QED
    BY <1>11, <1>20, <1>21, <1>22, <1>23 DEF Next

-------------------------------------------------------------------------------
(* Lines.                                                                  *)

\* A call that panics leaves the lines alone, or ends the closure it is in.
LEMMA FailsLine ==
    ASSUME Types, LineInv, NEW a \in Actors, Fails(a)
    PROVE  LineInv' /\ \A t \in Tasks : chan'[t] = IF t = a THEN "closed" ELSE chan[t]
  <1>1. CASE a \in Clients /\ UNCHANGED <<worker, cur, queue, order, chan>>
    BY <1>1, QuietLine, ActorsAssumption DEF Quiet
  <1>2. ASSUME NEW n \in Names, Unwind(a, n)
        PROVE  LineInv' /\ \A t \in Tasks : chan'[t] = IF t = a THEN "closed" ELSE chan[t]
    <2>1. a \in Tasks /\ Stops(a, n, "closed")
      BY <1>2, NoneIsNoTask DEF Unwind, Stops, Types
    <2> QED
      BY <2>1, StopsLine DEF Stops, Types
  <1> QED
    BY <1>1, <1>2 DEF Fails

LEMMA LineNext ==
    ASSUME Types, LineInv, Next
    PROVE  LineInv'
  <1>1. ASSUME NEW a \in Actors, NEW t \in Tasks, NEW n \in Names, NEW keep, NEW owning,
               Spawn(a, t, n, keep, owning)
        PROVE  LineInv'
    BY <1>1, SendsLine DEF Spawn, Sends
  <1>2. ASSUME NEW a \in Actors, NEW t \in Tasks, Ready(a, t) PROVE LineInv'
    BY <1>2, MakesLine DEF Ready, Makes
  <1>3. ASSUME NEW a \in Actors, OwnerStep(a) PROVE LineInv'
    <2>1. Quiet
      BY <1>3 DEF OwnerStep, Share, DropHandle, Asks, Quiet, workerVars
    <2> QED
      BY <2>1, QuietLine
  <1>4. ASSUME NEW a \in Actors, CallStep(a) PROVE LineInv'
    <2>1. Quiet \/ Fails(a)
      BY <1>4 DEF CallStep, Enter, TakeReceiver, Receive, Unwrap, Quiet, workerVars
    <2> QED
      BY <2>1, QuietLine, FailsLine
  <1>5. ASSUME NEW a \in Actors, DropRuntime(a) PROVE LineInv'
    BY <1>5, QuietLine DEF DropRuntime, Quiet, workerVars
  <1>6. ASSUME NEW a \in Actors, DropStep(a) PROVE LineInv'
    <2>1. CASE JoinSelf(a)
      <3>1. on[a] \in Names /\ a = cur[on[a]] /\ a \in Tasks /\ Stops(a, on[a], "closed")
        BY <2>1, NoneIsNoTask DEF JoinSelf, Unwind, Stops, Types
      <3> QED
        BY <3>1, StopsLine
    <2>2. CASE ~JoinSelf(a)
      <3>1. Quiet
        BY <1>6, <2>2 DEF DropStep, CloseWorker, Joined, DropEnds, Quiet, workerVars
      <3> QED
        BY <3>1, QuietLine
    <2> QED
      BY <2>1, <2>2
  <1>7. ASSUME NEW n \in Names, WorkerTake(n) PROVE LineInv'
    BY <1>7, TakesLine DEF WorkerTake, Takes
  <1>8. ASSUME NEW n \in Names, WorkerEnd(n) PROVE LineInv'
    BY <1>8, LeavesLine DEF WorkerEnd, Leaves
  <1>9. ASSUME NEW n \in Names, Finish(n) \/ ClosurePanics(n) PROVE LineInv'
    <2>1. cur[n] \in Tasks
      <3>1. cur[n] # None
        BY <1>9, LineFacts DEF Finish, ClosurePanics, Line
      <3> QED
        BY <3>1 DEF Types
    <2>2. \E end \in {"value", "closed"} : Stops(cur[n], n, end)
      BY <1>9 DEF Finish, ClosurePanics, Unwind, Stops
    <2> QED
      BY <2>1, <2>2, StopsLine
  <1>10. ASSUME NEW a \in Actors, SpawnStep(a) PROVE LineInv'
    BY <1>1, <1>2, <1>10 DEF SpawnStep
  <1>11. ASSUME NEW n \in Names, WorkerStep(n) PROVE LineInv'
    BY <1>7, <1>8, <1>9, <1>11 DEF WorkerStep
  <1> QED
    BY <1>3, <1>4, <1>5, <1>6, <1>10, <1>11 DEF Next

-------------------------------------------------------------------------------
(* Who owns what.                                                          *)

LEMMA ActorIsOpen ==
    ASSUME Types, LineInv, NEW a \in Actors, CanAct(a)
    PROVE  a \in Tasks => chan[a] = "open"
  BY LineIsOpen, NoneIsNoTask DEF CanAct, Running

\* The same for a call that panics: its closure is gone, with all it had.
LEMMA FailsOwners ==
    ASSUME Types, LineInv, Owners, NEW a \in Actors, Fails(a), doing[a] \in {"enter", "recv"}
    PROVE  Owners'
  <1>1. /\ doing' = [doing EXCEPT ![a] = "idle"] /\ on' = [on EXCEPT ![a] = None]
        /\ into' = [into EXCEPT ![a] = FALSE] /\ runtimes' = runtimes
        /\ on[a] \in Tasks /\ a \in holds[on[a]] /\ (a \in Tasks => a \notin runtimes)
    BY DEF Fails, Answered, mapVars, Owners, InCall
  <1>2. \A t \in Tasks : chan'[t] = IF t = a THEN "closed" ELSE chan[t]
    BY FailsLine
  <1>3. \A t \in Tasks : /\ holds'[t] \subseteq holds[t] /\ holds[t] \subseteq holds'[t] \cup {a}
                         /\ a \in Tasks => a \notin holds'[t]
    <2>1. CASE /\ a \in Clients
               /\ holds' = IF into[a] THEN [holds EXCEPT ![on[a]] = @ \ {a}] ELSE holds
      <3>1. \A t \in Tasks : holds'[t] = holds[t] \/ holds'[t] = holds[t] \ {a}
        BY <1>1, <2>1 DEF Types
      <3> QED
        BY <2>1, <3>1, ActorsAssumption
    <2>2. ASSUME NEW n \in Names, Unwind(a, n)
          PROVE  \A t \in Tasks : holds'[t] = holds[t] \ {a}
      BY <2>2 DEF Unwind
    <2> QED
      BY <2>1, <2>2 DEF Fails
  <1>4. ASSUME NEW b \in Actors PROVE InCall(b)'
    BY <1>1, <1>3, <1>4 DEF Types, Owners, InCall
  <1>5. ASSUME NEW u \in Tasks PROVE Owning(u)'
    BY <1>1, <1>2, <1>3, <1>5 DEF Types, Owners, Owning, Actors
  <1> QED
    BY <1>4, <1>5 DEF Owners

LEMMA OwnersNext ==
    ASSUME Types, LineInv, Owners, Next
    PROVE  Owners'
  <1>1. ASSUME NEW a \in Actors, NEW t \in Tasks, NEW n \in Names, NEW keep, NEW owning,
               keep = {} \/ keep = {a}, owning = {} \/ owning = {t},
               Spawn(a, t, n, keep, owning)
        PROVE  Owners'
    <2>1. /\ runtimes' = runtimes \cup owning /\ a \in runtimes /\ chan[t] = "none"
          /\ chan' = [chan EXCEPT ![t] = "open"] /\ holds' = [holds EXCEPT ![t] = keep]
          /\ UNCHANGED <<doing, on, into>> /\ holds[t] = {} /\ doing[t] = "idle"
          /\ (a \in Tasks => chan[a] = "open")
      BY <1>1, ActorIsOpen DEF Spawn, callVars, Owners, Owning
    <2>2. ASSUME NEW b \in Actors PROVE InCall(b)'
      BY <1>1, <2>1, <2>2 DEF Types, Owners, InCall
    <2>3. ASSUME NEW u \in Tasks PROVE Owning(u)'
      BY <1>1, <2>1, <2>3 DEF Types, Owners, Owning, Actors
    <2> QED
      BY <2>2, <2>3 DEF Owners
  <1>2. ASSUME NEW a \in Actors, NEW t \in Tasks, Ready(a, t) PROVE Owners'
    <2>1. /\ runtimes' = runtimes /\ chan[t] = "none"
          /\ chan' = [chan EXCEPT ![t] = "ready"] /\ holds' = [holds EXCEPT ![t] = {a}]
          /\ UNCHANGED <<doing, on, into>> /\ holds[t] = {} /\ doing[t] = "idle"
          /\ (a \in Tasks => chan[a] = "open")
      BY <1>2, ActorIsOpen DEF Ready, callVars, mapVars, Owners, Owning
    <2>2. ASSUME NEW b \in Actors PROVE InCall(b)'
      BY <2>1, <2>2 DEF Types, Owners, InCall
    <2>3. ASSUME NEW u \in Tasks PROVE Owning(u)'
      BY <2>1, <2>3 DEF Types, Owners, Owning, Actors
    <2> QED
      BY <2>2, <2>3 DEF Owners
  <1>3. ASSUME NEW a \in Actors, NEW b \in Actors, NEW t \in Tasks, Share(a, b, t) PROVE Owners'
    <2>1. /\ UNCHANGED <<runtimes, chan, doing, on, into>> /\ a \in holds[t]
          /\ holds' = [holds EXCEPT ![t] = @ \cup {b}]
      BY <1>3 DEF Share, callVars, mapVars
    <2>2. b \in Tasks => chan[b] = "open"
      BY <1>3, LineIsOpen, ActorsAssumption DEF Share
    <2>3. ASSUME NEW c \in Actors PROVE InCall(c)'
      BY <2>1, <2>3 DEF Types, Owners, InCall
    <2>4. ASSUME NEW u \in Tasks PROVE Owning(u)'
      BY <2>1, <2>2, <2>4 DEF Types, Owners, Owning, Actors
    <2> QED
      BY <2>3, <2>4 DEF Owners
  <1>4. ASSUME NEW a \in Actors, NEW t \in Tasks, DropHandle(a, t) PROVE Owners'
    <2>1. /\ UNCHANGED <<runtimes, chan, doing, on, into>> /\ doing[a] = "idle"
          /\ holds' = [holds EXCEPT ![t] = @ \ {a}]
      BY <1>4 DEF DropHandle, CanAct, callVars, mapVars
    <2>2. ASSUME NEW c \in Actors PROVE InCall(c)'
      BY <2>1, <2>2 DEF Types, Owners, InCall
    <2>3. ASSUME NEW u \in Tasks PROVE Owning(u)'
      BY <2>1, <2>3 DEF Types, Owners, Owning, Actors
    <2> QED
      BY <2>2, <2>3 DEF Owners
  <1>5. ASSUME NEW a \in Actors, NEW t \in Tasks, NEW c \in BOOLEAN, Asks(a, t, c) PROVE Owners'
    <2>1. /\ UNCHANGED <<runtimes, chan, holds>> /\ a \in holds[t] /\ (a \in Tasks => a \notin runtimes)
          /\ doing' = [doing EXCEPT ![a] = "enter"] /\ on' = [on EXCEPT ![a] = t]
          /\ into' = [into EXCEPT ![a] = c] /\ (a \in Tasks => chan[a] = "open")
      BY <1>5, ActorIsOpen DEF Asks, handleVars, mapVars
    <2>2. ASSUME NEW b \in Actors PROVE InCall(b)'
      BY <2>1, <2>2 DEF Types, Owners, InCall
    <2>3. ASSUME NEW u \in Tasks PROVE Owning(u)'
      BY <2>1, <2>3 DEF Types, Owners, Owning, Actors
    <2> QED
      BY <2>2, <2>3 DEF Owners
  <1>6. ASSUME NEW a \in Actors, HasValue(a), doing[a] \in {"enter", "recv"},
               UNCHANGED <<chan, holds, runtimes>>
        PROVE  Owners'
    <2>1. \/ /\ doing' = [doing EXCEPT ![a] = "idle"] /\ on' = [on EXCEPT ![a] = None]
             /\ into' = [into EXCEPT ![a] = FALSE]
          \/ doing' = [doing EXCEPT ![a] = "unwrap"] /\ UNCHANGED <<on, into>>
      BY <1>6 DEF HasValue, Answered
    <2>2. ASSUME NEW b \in Actors PROVE InCall(b)'
      BY <1>6, <2>1, <2>2 DEF Types, Owners, InCall
    <2>3. ASSUME NEW u \in Tasks PROVE Owning(u)'
      BY <1>6, <2>1, <2>3 DEF Types, Owners, Owning, Actors
    <2> QED
      BY <2>2, <2>3 DEF Owners
  <1>7. ASSUME NEW a \in Actors, doing[a] = "enter", doing' = [doing EXCEPT ![a] = "recv"],
               UNCHANGED <<chan, holds, runtimes, on, into>>
        PROVE  Owners'
    BY <1>7 DEF Types, Owners, InCall, Owning, Actors
  <1>8. ASSUME NEW a \in Actors, Enter(a) \/ Receive(a) PROVE Owners'
    <2>1. \/ HasValue(a) /\ doing[a] \in {"enter", "recv"} /\ UNCHANGED <<chan, holds, runtimes>>
          \/ Fails(a) /\ doing[a] \in {"enter", "recv"}
          \/ /\ doing[a] = "enter" /\ doing' = [doing EXCEPT ![a] = "recv"]
             /\ UNCHANGED <<chan, holds, runtimes, on, into>>
      BY <1>8 DEF Enter, Receive, TakeReceiver, handleVars, mapVars
    <2> QED
      BY <1>6, <1>7, <2>1, FailsOwners
  <1>9. ASSUME NEW a \in Actors, Unwrap(a) PROVE Owners'
    <2>1. /\ UNCHANGED <<runtimes, chan>> /\ on[a] \in Tasks
          /\ doing' = [doing EXCEPT ![a] = "idle"] /\ on' = [on EXCEPT ![a] = None]
          /\ into' = [into EXCEPT ![a] = FALSE]
          /\ \A u \in Tasks : holds'[u] = holds[u] \/ (holds[u] = {a} /\ holds'[u] = {})
      <3>1. on[a] \in Tasks
        BY <1>9 DEF Unwrap, Owners, InCall
      <3>2. Answered(a) /\ UNCHANGED <<runtimes, chan>>
        BY <1>9 DEF Unwrap, mapVars
      <3>3. holds' = holds \/ (holds[on[a]] = {a} /\ holds' = [holds EXCEPT ![on[a]] = {}])
        BY <1>9 DEF Unwrap
      <3>4. \A u \in Tasks : holds'[u] = holds[u] \/ (holds[u] = {a} /\ holds'[u] = {})
        BY <3>1, <3>3 DEF Types
      <3> QED
        BY <3>1, <3>2, <3>4 DEF Answered
    <2>2. ASSUME NEW b \in Actors PROVE InCall(b)'
      <3>1. CASE b = a
        BY <2>1, <3>1 DEF Types, InCall
      <3>2. CASE b # a
        <4>1. \A u \in Tasks : b \in holds[u] => b \in holds'[u]
          BY <2>1, <3>2
        <4>2. doing'[b] = doing[b] /\ on'[b] = on[b] /\ into'[b] = into[b]
          BY <2>1, <3>2 DEF Types
        <4> QED
          BY <2>1, <4>1, <4>2 DEF Owners, InCall
      <3> QED
        BY <3>1, <3>2
    <2>3. ASSUME NEW u \in Tasks PROVE Owning(u)'
      BY <2>1, <2>3 DEF Types, Owners, Owning, Actors
    <2> QED
      BY <2>2, <2>3 DEF Owners
  <1>10. ASSUME NEW a \in Actors, DropRuntime(a) PROVE Owners'
    <2>1. /\ UNCHANGED <<chan, holds, on, into>> /\ a \in runtimes /\ doing[a] = "idle"
          /\ runtimes' = runtimes \ {a} /\ (a \in Tasks => chan[a] = "open")
          /\ doing' = [doing EXCEPT ![a] = IF runtimes = {a} THEN "join" ELSE @]
      BY <1>10, ActorIsOpen DEF DropRuntime, CanAct, handleVars
    <2>2. ASSUME NEW b \in Actors PROVE InCall(b)'
      BY <2>1, <2>2 DEF Types, Owners, InCall
    <2>3. ASSUME NEW u \in Tasks PROVE Owning(u)'
      BY <2>1, <2>3 DEF Types, Owners, Owning, Actors
    <2> QED
      BY <2>2, <2>3 DEF Owners
  <1>11. ASSUME NEW a \in Actors, \/ \E n \in Names : CloseWorker(a, n)
                                  \/ Joined(a) \/ DropEnds(a)
         PROVE  Owners'
    <2>1. /\ UNCHANGED <<chan, holds, into, runtimes>> /\ doing[a] = "join"
          /\ \/ doing' = doing /\ \E v \in Names \cup {None} : on' = [on EXCEPT ![a] = v]
             \/ doing' = [doing EXCEPT ![a] = "idle"] /\ on' = on /\ on[a] = None
      BY <1>11 DEF CloseWorker, Joined, DropEnds, handleVars, mapVars
    <2>2. ASSUME NEW b \in Actors PROVE InCall(b)'
      BY <2>1, <2>2 DEF Types, Owners, InCall
    <2>3. ASSUME NEW u \in Tasks PROVE Owning(u)'
      BY <2>1, <2>3 DEF Types, Owners, Owning, Actors
    <2> QED
      BY <2>2, <2>3 DEF Owners
  <1>12. ASSUME NEW a \in Actors, JoinSelf(a) PROVE Owners'
    <2>1. /\ UNCHANGED <<into, runtimes>> /\ doing[a] = "join" /\ a \in Tasks /\ runtimes = {}
          /\ doing' = [doing EXCEPT ![a] = "idle"] /\ on' = [on EXCEPT ![a] = None]
          /\ chan' = [chan EXCEPT ![a] = "closed"] /\ holds' = [u \in Tasks |-> holds[u] \ {a}]
      BY <1>12, NoneIsNoTask DEF JoinSelf, Unwind, mapVars, Types, Owners, InCall
    <2>2. ASSUME NEW b \in Actors PROVE InCall(b)'
      BY <2>1, <2>2 DEF Types, Owners, InCall
    <2>3. ASSUME NEW u \in Tasks PROVE Owning(u)'
      BY <2>1, <2>3 DEF Types, Owners, Owning, Actors
    <2> QED
      BY <2>2, <2>3 DEF Owners
  <1>13. ASSUME NEW n \in Names, WorkerTake(n) \/ WorkerEnd(n) PROVE Owners'
    <2>1. UNCHANGED <<chan, holds, runtimes, doing, on, into>>
      BY <1>13 DEF WorkerTake, WorkerEnd, handleVars, mapVars, callVars
    <2> QED
      BY <2>1 DEF Owners, InCall, Owning
  <1>14. ASSUME NEW n \in Names, Finish(n) \/ ClosurePanics(n) PROVE Owners'
    <2> DEFINE t == cur[n]
    <2>1. t \in Tasks
      <3>1. cur[n] # None
        BY <1>14, LineFacts DEF Finish, ClosurePanics, Line
      <3> QED
        BY <3>1 DEF Types
    <2>2. /\ UNCHANGED <<runtimes, doing, on, into>> /\ doing[t] = "idle" /\ t \notin runtimes
          /\ \E end \in {"value", "closed"} : chan' = [chan EXCEPT ![t] = end]
          /\ \A u \in Tasks : holds'[u] = holds[u] \ {t}
      BY <1>14, <2>1 DEF Finish, ClosurePanics, Unwind, handleVars, mapVars, callVars, Types
    <2> HIDE DEF t
    <2>3. ASSUME NEW b \in Actors PROVE InCall(b)'
      BY <2>1, <2>2, <2>3 DEF Types, Owners, InCall
    <2>4. ASSUME NEW u \in Tasks PROVE Owning(u)'
      BY <2>1, <2>2, <2>4 DEF Types, Owners, Owning, Actors
    <2> QED
      BY <2>3, <2>4 DEF Owners
  <1>15. ASSUME NEW a \in Actors, SpawnStep(a) PROVE Owners'
    <2>1. PICK t \in Tasks :
              \/ \E n \in Names, keep \in {{}, {a}}, owning \in {{}, {t}} :
                     Spawn(a, t, n, keep, owning)
              \/ Ready(a, t)
      BY <1>15 DEF SpawnStep
    <2>2. ASSUME NEW n \in Names, NEW keep \in {{}, {a}}, NEW owning \in {{}, {t}},
                 Spawn(a, t, n, keep, owning)
          PROVE  Owners'
      <3>1. (keep = {} \/ keep = {a}) /\ (owning = {} \/ owning = {t})
        OBVIOUS
      <3> QED
        BY <1>1, <2>2, <3>1
    <2> QED
      BY <1>2, <2>1, <2>2
  <1>16. ASSUME NEW a \in Actors, OwnerStep(a) PROVE Owners'
    BY <1>3, <1>4, <1>5, <1>16 DEF OwnerStep
  <1>17. ASSUME NEW a \in Actors, CallStep(a) \/ DropStep(a) PROVE Owners'
    BY <1>8, <1>9, <1>11, <1>12, <1>17 DEF CallStep, DropStep
  <1>18. ASSUME NEW n \in Names, WorkerStep(n) PROVE Owners'
    BY <1>13, <1>14, <1>18 DEF WorkerStep
  <1> QED
    BY <1>10, <1>15, <1>16, <1>17, <1>18 DEF Next

-------------------------------------------------------------------------------
(* Cells and receivers.                                                    *)

\* What a step that leaves the cells, receivers and calls alone may change.
LEMMA CellsKept ==
    ASSUME Types, Cells, UNCHANGED <<cell, rx, moved>>,
           \A a \in Actors : doing[a] = "recv" => doing'[a] = "recv" /\ on'[a] = on[a],
           \A a \in Actors : doing'[a] = "unwrap" => doing[a] = "unwrap" /\ on'[a] = on[a],
           \A t \in Tasks : chan[t] # "none" /\ holds[t] = {} => holds'[t] = {},
           \A t \in Tasks : chan[t] \notin {"none", "open"} => chan'[t] = chan[t]
    PROVE  Cells'
  <1>1. ASSUME NEW t \in Tasks PROVE CellOf(t)'
    <2>1. CellOf(t)
      BY DEF Cells
    <2>2. cell[t] = "busy" => \E a \in Actors : doing'[a] = "recv" /\ on'[a] = t
      BY <2>1 DEF CellOf
    <2> QED
      BY <2>1, <2>2 DEF CellOf
  <1>2. ASSUME NEW a \in Actors, doing'[a] = "unwrap" PROVE cell'[on'[a]] = "set"
    BY <1>2 DEF Cells
  <1> QED
    BY <1>1, <1>2 DEF Cells

\* After a call has panicked its cell is empty, or as it was.
LEMMA FailsCells ==
    ASSUME Types, LineInv, Owners, Cells, NEW a \in Actors, Fails(a),
           doing[a] \in {"enter", "recv"},
           \/ doing[a] = "enter" /\ cell' = cell /\ rx' = [rx EXCEPT ![on[a]] = "poisoned"]
              /\ cell[on[a]] = "empty" /\ rx[on[a]] # "some"
           \/ cell' = [cell EXCEPT ![on[a]] = "empty"] /\ rx' = rx
              /\ chan[on[a]] = "closed"
    PROVE  Cells'
  <1>1. /\ doing' = [doing EXCEPT ![a] = "idle"] /\ on' = [on EXCEPT ![a] = None]
        /\ moved' = moved /\ on[a] \in Tasks /\ (a \in Tasks => chan[a] = "open")
    BY DEF Fails, Answered, Owners, InCall, Owning
  <1>2. \A t \in Tasks : chan'[t] = IF t = a THEN "closed" ELSE chan[t]
    BY FailsLine
  <1>3. \A t \in Tasks : holds[t] = {} => holds'[t] = {}
    <2>1. CASE holds' = IF into[a] THEN [holds EXCEPT ![on[a]] = @ \ {a}] ELSE holds
      BY <1>1, <2>1 DEF Types
    <2>2. ASSUME NEW n \in Names, Unwind(a, n)
          PROVE  \A t \in Tasks : holds[t] = {} => holds'[t] = {}
      BY <2>2 DEF Unwind
    <2> QED
      BY <2>1, <2>2 DEF Fails
  <1>4. \A b \in Actors : b # a => doing'[b] = doing[b] /\ on'[b] = on[b]
    BY <1>1 DEF Types
  <1>5. ASSUME NEW t \in Tasks PROVE CellOf(t)'
    <2>1. CellOf(t)
      BY DEF Cells
    <2>2. ASSUME cell'[t] = "busy" PROVE \E b \in Actors : doing'[b] = "recv" /\ on'[b] = t
      <3>1. cell[t] = "busy" /\ (doing[a] = "recv" => t # on[a])
        BY <1>1, <2>2 DEF Types
      <3>2. PICK b \in Actors : doing[b] = "recv" /\ on[b] = t
        BY <2>1, <3>1 DEF CellOf
      <3>3. b # a
        BY <3>1, <3>2
      <3> QED
        BY <1>4, <3>2, <3>3
    <2>3. cell'[t] = "set" => chan'[t] \in {"value", "ready"}
      BY <1>1, <1>2, <2>1 DEF CellOf, Types
    <2>4. chan[t] = "closed" => chan'[t] = "closed"
      BY <1>2
    <2>5. rx'[t] # "some" => cell'[t] \in {"busy", "set"} \/ chan'[t] = "closed"
      BY <1>1, <2>1, <2>4 DEF CellOf, Types
    <2>6. rx'[t] = "poisoned" => chan'[t] = "closed"
      BY <1>1, <2>1, <2>4 DEF CellOf, Types
    <2>7. t \in moved' => cell'[t] = "set" /\ holds'[t] = {}
      BY <1>1, <1>3, <2>1 DEF CellOf, Types
    <2> QED
      BY <2>2, <2>3, <2>5, <2>6, <2>7 DEF CellOf
  <1>6. ASSUME NEW b \in Actors, doing'[b] = "unwrap" PROVE cell'[on'[b]] = "set"
    <2>1. doing[b] = "unwrap" /\ on'[b] = on[b] /\ cell[on[b]] = "set" /\ on[b] \in Tasks
      BY <1>1, <1>4, <1>6 DEF Types, Cells, Owners, InCall
    <2>2. chan[on[b]] # "closed"
      BY <2>1 DEF Cells, CellOf
    <2> QED
      BY <1>1, <2>1, <2>2 DEF Types
  <1> QED
    BY <1>5, <1>6 DEF Cells

LEMMA CellsNext ==
    ASSUME Types, LineInv, Owners, Cells, Next
    PROVE  Cells'
  <1>1. ASSUME NEW a \in Actors, NEW t \in Tasks, NEW n \in Names, NEW keep, NEW owning,
               Spawn(a, t, n, keep, owning)
        PROVE  Cells'
    BY <1>1, CellsKept DEF Spawn, callVars, Types
  <1>2. ASSUME NEW a \in Actors, NEW t \in Tasks, Ready(a, t) PROVE Cells'
    <2>1. /\ chan[t] = "none" /\ chan' = [chan EXCEPT ![t] = "ready"]
          /\ cell' = [cell EXCEPT ![t] = "set"] /\ rx' = [rx EXCEPT ![t] = "none"]
          /\ holds' = [holds EXCEPT ![t] = {a}] /\ UNCHANGED <<moved, doing, on>>
      BY <1>2 DEF Ready, callVars
    <2>2. ASSUME NEW u \in Tasks PROVE CellOf(u)'
      BY <2>1, <2>2 DEF Cells, CellOf, Types
    <2>3. ASSUME NEW b \in Actors, doing'[b] = "unwrap" PROVE cell'[on'[b]] = "set"
      BY <2>1, <2>3 DEF Cells, Types, Owners, InCall
    <2> QED
      BY <2>2, <2>3 DEF Cells
  <1>3. ASSUME NEW a \in Actors, OwnerStep(a) PROVE Cells'
    <2>1. PICK t \in Tasks : \/ \E b \in Actors : Share(a, b, t)
                             \/ DropHandle(a, t)
                             \/ \E c \in BOOLEAN : Asks(a, t, c)
      BY <1>3 DEF OwnerStep
    <2>2. ASSUME NEW b \in Actors, Share(a, b, t) PROVE Cells'
      BY <2>2, CellsKept DEF Share, mapVars, callVars, Types
    <2>3. CASE DropHandle(a, t)
      BY <2>3, CellsKept DEF DropHandle, mapVars, callVars, Types
    <2>4. ASSUME NEW c \in BOOLEAN, Asks(a, t, c) PROVE Cells'
      <3>1. /\ UNCHANGED <<cell, rx, moved, holds, chan>> /\ doing[a] = "idle"
            /\ doing' = [doing EXCEPT ![a] = "enter"] /\ on' = [on EXCEPT ![a] = t]
        BY <2>4 DEF Asks, CanAct, handleVars
      <3> QED
        BY <3>1, CellsKept DEF Types
    <2> QED
      BY <2>1, <2>2, <2>3, <2>4
  <1>4. ASSUME NEW a \in Actors, Enter(a) PROVE Cells'
    <2>1. doing[a] = "enter" /\ on[a] \in Tasks
      BY <1>4 DEF Enter, Owners, InCall
    <2>2. CASE cell[on[a]] = "set" /\ HasValue(a)
               /\ UNCHANGED <<workerVars, chan, handleVars, mapVars>>
      <3>1. /\ UNCHANGED <<cell, rx, moved, holds, chan>>
            /\ \/ doing' = [doing EXCEPT ![a] = "idle"] /\ on' = [on EXCEPT ![a] = None]
               \/ doing' = [doing EXCEPT ![a] = "unwrap"] /\ on' = on
        BY <2>2 DEF HasValue, Answered, handleVars
      <3>2. ASSUME NEW t \in Tasks PROVE CellOf(t)'
        BY <2>1, <3>1, <3>2 DEF Cells, CellOf, Types
      <3>3. ASSUME NEW b \in Actors, doing'[b] = "unwrap" PROVE cell'[on'[b]] = "set"
        BY <2>1, <2>2, <3>1, <3>3 DEF Cells, Types
      <3> QED
        BY <3>2, <3>3 DEF Cells
    <2>3. CASE cell[on[a]] = "empty" /\ rx[on[a]] = "some" /\ TakeReceiver(a)
      <3>1. /\ rx' = [rx EXCEPT ![on[a]] = "none"] /\ cell' = [cell EXCEPT ![on[a]] = "busy"]
            /\ doing' = [doing EXCEPT ![a] = "recv"] /\ UNCHANGED <<moved, holds, chan, on>>
        BY <2>3 DEF TakeReceiver
      <3>2. ASSUME NEW t \in Tasks PROVE CellOf(t)'
        BY <2>1, <2>3, <3>1, <3>2 DEF Cells, CellOf, Types
      <3>3. ASSUME NEW b \in Actors, doing'[b] = "unwrap" PROVE cell'[on'[b]] = "set"
        BY <2>1, <2>3, <3>1, <3>3 DEF Cells, Types, Owners, InCall
      <3> QED
        BY <3>2, <3>3 DEF Cells
    <2>4. CASE cell[on[a]] = "empty" /\ rx[on[a]] # "some" /\ TakeReceiver(a)
      BY <2>1, <2>4, FailsCells DEF TakeReceiver
    <2> QED
      BY <1>4, <2>2, <2>3, <2>4 DEF Enter
  <1>5. ASSUME NEW a \in Actors, Receive(a) PROVE Cells'
    <2>1. doing[a] = "recv" /\ on[a] \in Tasks
      BY <1>5 DEF Receive, Owners, InCall
    <2>2. CASE /\ chan[on[a]] = "value" /\ cell' = [cell EXCEPT ![on[a]] = "set"] /\ HasValue(a)
               /\ UNCHANGED <<workerVars, chan, rx, holds, moved, mapVars>>
      <3>1. \/ doing' = [doing EXCEPT ![a] = "idle"] /\ on' = [on EXCEPT ![a] = None]
            \/ doing' = [doing EXCEPT ![a] = "unwrap"] /\ on' = on
        BY <2>2 DEF HasValue, Answered
      <3>2. ASSUME NEW t \in Tasks PROVE CellOf(t)'
        <4>1. CellOf(t)
          BY DEF Cells
        <4>2. CASE t = on[a]
          BY <2>1, <2>2, <4>1, <4>2 DEF CellOf, Types
        <4>3. CASE t # on[a]
          <5>1. UNCHANGED <<cell[t], rx, holds, moved, chan>>
            BY <2>2, <4>3 DEF Types
          <5>2. \A b \in Actors : doing[b] = "recv" /\ on[b] = t => doing'[b] = "recv" /\ on'[b] = t
            BY <3>1, <4>3 DEF Types
          <5> QED
            BY <4>1, <5>1, <5>2 DEF CellOf
        <4> QED
          BY <4>2, <4>3
      <3>3. ASSUME NEW b \in Actors, doing'[b] = "unwrap" PROVE cell'[on'[b]] = "set"
        BY <2>1, <2>2, <3>1, <3>3 DEF Cells, Types, Owners, InCall
      <3> QED
        BY <3>2, <3>3 DEF Cells
    <2>3. CASE /\ chan[on[a]] = "closed" /\ cell' = [cell EXCEPT ![on[a]] = "empty"]
               /\ UNCHANGED rx /\ Fails(a)
      BY <2>1, <2>3, FailsCells
    <2> QED
      BY <1>5, <2>2, <2>3 DEF Receive
  <1>6. ASSUME NEW a \in Actors, Unwrap(a) PROVE Cells'
    <2>1. doing[a] = "unwrap" /\ on[a] \in Tasks /\ cell[on[a]] = "set"
      BY <1>6 DEF Unwrap, Owners, InCall, Cells
    <2>2. Answered(a) /\ UNCHANGED <<chan, cell, rx>>
      BY <1>6 DEF Unwrap
    <2>3. /\ doing' = [doing EXCEPT ![a] = "idle"] /\ on' = [on EXCEPT ![a] = None]
          /\ UNCHANGED <<chan, cell, rx>>
      BY <2>2 DEF Answered
    <2>4. \A t \in Tasks : /\ holds[t] = {} => holds'[t] = {}
                           /\ t \in moved' => t \in moved \/ (t = on[a] /\ holds'[t] = {})
      BY <1>6, <2>1 DEF Unwrap, Types
    <2>5. ASSUME NEW t \in Tasks PROVE CellOf(t)'
      <3>1. CellOf(t)
        BY DEF Cells
      <3>2. cell'[t] = "busy" => \E b \in Actors : doing'[b] = "recv" /\ on'[b] = t
        BY <2>1, <2>3, <3>1 DEF CellOf, Types
      <3> QED
        BY <2>1, <2>3, <2>4, <3>1, <3>2 DEF CellOf
    <2>6. ASSUME NEW b \in Actors, doing'[b] = "unwrap" PROVE cell'[on'[b]] = "set"
      BY <2>3, <2>6 DEF Cells, Types
    <2> QED
      BY <2>5, <2>6 DEF Cells
  <1>7. ASSUME NEW a \in Actors, DropRuntime(a) PROVE Cells'
    <2>1. /\ UNCHANGED <<cell, rx, moved, holds, chan, on>> /\ doing[a] = "idle"
          /\ doing' = [doing EXCEPT ![a] = IF runtimes = {a} THEN "join" ELSE @]
      BY <1>7 DEF DropRuntime, CanAct, handleVars
    <2> QED
      BY <2>1, CellsKept DEF Types
  <1>8. ASSUME NEW a \in Actors, DropStep(a) PROVE Cells'
    <2>1. CASE JoinSelf(a)
      <3>1. /\ UNCHANGED <<cell, rx, moved>> /\ a \in Tasks /\ chan[a] = "open" /\ doing[a] = "join"
            /\ doing' = [doing EXCEPT ![a] = "idle"] /\ on' = [on EXCEPT ![a] = None]
            /\ chan' = [chan EXCEPT ![a] = "closed"]
            /\ holds' = [u \in Tasks |-> holds[u] \ {a}]
        BY <2>1, NoneIsNoTask DEF JoinSelf, Unwind, mapVars, Types, Owners, Owning
      <3> QED
        BY <3>1, CellsKept DEF Types
    <2>2. CASE \/ \E n \in Names : CloseWorker(a, n)
               \/ Joined(a) \/ DropEnds(a)
      <3>1. /\ UNCHANGED <<cell, rx, moved, holds, chan>> /\ doing[a] = "join"
            /\ \/ doing' = doing /\ \E v : on' = [on EXCEPT ![a] = v]
               \/ doing' = [doing EXCEPT ![a] = "idle"] /\ on' = on
        BY <2>2 DEF CloseWorker, Joined, DropEnds, handleVars
      <3> QED
        BY <3>1, CellsKept DEF Types
    <2> QED
      BY <1>8, <2>1, <2>2 DEF DropStep
  <1>9. ASSUME NEW n \in Names, WorkerTake(n) \/ WorkerEnd(n) PROVE Cells'
    <2>1. UNCHANGED <<chan, cell, rx, holds, moved, doing, on>>
      BY <1>9 DEF WorkerTake, WorkerEnd, handleVars, callVars
    <2> QED
      BY <2>1, CellsKept
  <1>10. ASSUME NEW n \in Names, Finish(n) \/ ClosurePanics(n) PROVE Cells'
    <2> DEFINE t == cur[n]
    <2>1. cur[n] # None /\ chan[t] = "open"
      BY <1>10, LineFacts, LineIsOpen DEF Finish, ClosurePanics, Line
    <2>2. /\ UNCHANGED <<cell, rx, moved, doing, on>>
          /\ \E end \in {"value", "closed"} : chan' = [chan EXCEPT ![t] = end]
          /\ \A u \in Tasks : holds[u] = {} => holds'[u] = {}
      BY <1>10 DEF Finish, ClosurePanics, Unwind, handleVars, callVars, Types
    <2> QED
      BY <2>1, <2>2, CellsKept DEF Types
  <1>11. ASSUME NEW a \in Actors, SpawnStep(a) PROVE Cells'
    BY <1>1, <1>2, <1>11 DEF SpawnStep
  <1>12. ASSUME NEW a \in Actors, CallStep(a) PROVE Cells'
    BY <1>4, <1>5, <1>6, <1>12 DEF CallStep
  <1>13. ASSUME NEW n \in Names, WorkerStep(n) PROVE Cells'
    BY <1>9, <1>10, <1>13 DEF WorkerStep
  <1> QED
    BY <1>3, <1>7, <1>8, <1>11, <1>12, <1>13 DEF Next

-------------------------------------------------------------------------------
(* The drop of the map.                                                    *)

\* Steps that begin no call of the drop, close no channel and fill none, and
\* let go of threads only when their work is done.
LEMMA DrainingKept ==
    ASSUME Draining, UNCHANGED <<txOpen, runtimes, dropped>>,
           \A a \in Actors : doing'[a] = "join" => doing[a] = "join" /\ on'[a] = on[a],
           \A n \in Names : Drained(n) => Drained(n)' /\ worker'[n] = worker[n]
                                          /\ queue'[n] = queue[n],
           \A n \in Names : Drained(n)' => Drained(n) \/ (queue'[n] = <<>> /\ ~txOpen[n])
    PROVE  Draining'
  <1>1. runtimes' # {} => \A n \in Names : worker'[n] = "absent" \/ txOpen'[n]
    BY DEF Draining, Drained
  <1>2. \A n \in Names : Drained(n)' => ~txOpen'[n] /\ queue'[n] = <<>>
    BY DEF Draining
  <1>3. \A a, b \in Actors : doing'[a] = "join" /\ doing'[b] = "join" => a = b
    BY DEF Draining
  <1>4. ASSUME NEW a \in Actors, doing'[a] = "join"
        PROVE  ~dropped' /\ \A n \in Names : Drained(n)' \/ txOpen'[n] \/ on'[a] = n
    BY <1>4 DEF Draining
  <1>5. dropped' => runtimes' = {} /\ \A n \in Names : Drained(n)'
    BY DEF Draining
  <1> QED
    BY <1>1, <1>2, <1>3, <1>4, <1>5 DEF Draining

\* A closure that ends leaves its worker waiting.
LEMMA StopsDraining ==
    ASSUME Types, LineInv, Draining, NEW n \in Names, cur[n] # None,
           worker' = [worker EXCEPT ![n] = "waiting"], queue' = queue,
           UNCHANGED <<txOpen, runtimes, dropped>>,
           \A a \in Actors : doing'[a] = "join" => doing[a] = "join" /\ on'[a] = on[a]
    PROVE  Draining'
  <1>1. worker[n] = "running"
    BY LineIsOpen
  <1>2. \A m \in Names : Drained(m)' <=> Drained(m)
    BY <1>1 DEF Drained, Types
  <1>3. \A m \in Names : Drained(m) => worker'[m] = worker[m] /\ queue'[m] = queue[m]
    BY <1>1 DEF Drained, Types
  <1> QED
    BY <1>2, <1>3, DrainingKept

LEMMA DrainingNext ==
    ASSUME Types, LineInv, Owners, Draining, Next
    PROVE  Draining'
  <1>1. ASSUME NEW a \in Actors, NEW t \in Tasks, NEW n \in Names, NEW keep, NEW owning,
               owning \subseteq {t}, Spawn(a, t, n, keep, owning)
        PROVE  Draining'
    <2>1. /\ runtimes # {} /\ ~dropped /\ UNCHANGED <<doing, on, dropped>>
          /\ \A b \in Actors : doing[b] # "join"
      BY <1>1 DEF Spawn, callVars, Draining, Owners, InCall
    <2>2. /\ worker[n] # "ended" /\ worker'[n] \in {"waiting", "running"} /\ txOpen'[n]
      <3>1. worker[n] = "absent" \/ txOpen[n]
        BY <2>1 DEF Draining
      <3>2. worker[n] # "ended"
        BY <3>1 DEF Draining, Drained
      <3> QED
        BY <1>1, <3>2 DEF Spawn, SpawnOn, Types
    <2>3. ASSUME NEW m \in Names, m # n PROVE UNCHANGED <<worker[m], queue[m], txOpen[m]>>
      BY <1>1, <2>3 DEF Spawn, SpawnOn, Types
    <2>4. \A m \in Names : Drained(m)' => m # n /\ Drained(m)
      BY <2>2, <2>3 DEF Drained
    <2>5. \A m \in Names : Drained(m)' => ~txOpen'[m] /\ queue'[m] = <<>>
      BY <2>3, <2>4 DEF Draining
    <2>6. \A m \in Names : worker'[m] = "absent" \/ txOpen'[m]
      BY <2>1, <2>2, <2>3 DEF Draining
    <2> QED
      BY <2>1, <2>5, <2>6 DEF Draining
  <1>2. ASSUME NEW a \in Actors, NEW t \in Tasks, Ready(a, t) PROVE Draining'
    BY <1>2, DrainingKept DEF Ready, workerVars, mapVars, callVars, Drained
  <1>3. ASSUME NEW a \in Actors, OwnerStep(a) PROVE Draining'
    <2>1. /\ UNCHANGED <<workerVars, mapVars>>
          /\ \/ UNCHANGED <<doing, on>>
             \/ /\ doing' = [doing EXCEPT ![a] = "enter"]
                /\ \E t \in Tasks : on' = [on EXCEPT ![a] = t]
      BY <1>3 DEF OwnerStep, Share, DropHandle, Asks, callVars
    <2>2. \A b \in Actors : doing'[b] = "join" => doing[b] = "join" /\ on'[b] = on[b]
      BY <2>1 DEF Types
    <2> QED
      BY <2>1, <2>2, DrainingKept DEF workerVars, mapVars, Drained
  <1>4. ASSUME NEW a \in Actors, doing[a] \in {"enter", "recv"}, Fails(a) PROVE Draining'
    <2>1. /\ UNCHANGED <<txOpen, runtimes, dropped>>
          /\ doing' = [doing EXCEPT ![a] = "idle"] /\ on' = [on EXCEPT ![a] = None]
      BY <1>4 DEF Fails, Answered, mapVars
    <2>2. \A b \in Actors : doing'[b] = "join" => doing[b] = "join" /\ on'[b] = on[b]
      BY <2>1 DEF Types
    <2>3. CASE UNCHANGED <<worker, cur, queue, order, chan>>
      BY <2>1, <2>2, <2>3, DrainingKept DEF Drained
    <2>4. ASSUME NEW n \in Names, Unwind(a, n) PROVE Draining'
      <3>1. cur[n] # None /\ worker' = [worker EXCEPT ![n] = "waiting"] /\ queue' = queue
        BY <2>4, NoneIsNoTask DEF Unwind
      <3> QED
        BY <2>1, <2>2, <3>1, StopsDraining
    <2> QED
      BY <1>4, <2>3, <2>4 DEF Fails
  <1>5. ASSUME NEW a \in Actors, CallStep(a) PROVE Draining'
    <2>1. doing[a] \in {"enter", "recv", "unwrap"}
      BY <1>5 DEF CallStep, Enter, Receive, Unwrap
    <2>2. CASE doing[a] \in {"enter", "recv"} /\ Fails(a)
      BY <1>4, <2>2
    <2>3. CASE ~(doing[a] \in {"enter", "recv"} /\ Fails(a))
      <3>1. UNCHANGED <<workerVars, mapVars>>
        BY <1>5, <2>3 DEF CallStep, Enter, Receive, Unwrap, TakeReceiver
      <3>2. \/ /\ doing' = [doing EXCEPT ![a] = "idle"]
               /\ on' = [on EXCEPT ![a] = None]
            \/ \E d \in {"recv", "unwrap"} : doing' = [doing EXCEPT ![a] = d] /\ on' = on
        <4>1. ASSUME HasValue(a) \/ Answered(a)
              PROVE  \/ /\ doing' = [doing EXCEPT ![a] = "idle"]
                        /\ on' = [on EXCEPT ![a] = None]
                     \/ doing' = [doing EXCEPT ![a] = "unwrap"] /\ on' = on
          BY <4>1 DEF HasValue, Answered
        <4>2. \/ HasValue(a) \/ Answered(a)
              \/ doing' = [doing EXCEPT ![a] = "recv"] /\ on' = on
          BY <1>5, <2>3 DEF CallStep, Enter, Receive, Unwrap, TakeReceiver
        <4> QED
          BY <4>1, <4>2
      <3>3. \A b \in Actors : doing'[b] = "join" => doing[b] = "join" /\ on'[b] = on[b]
        BY <2>1, <3>2 DEF Types
      <3> QED
        BY <3>1, <3>3, DrainingKept DEF workerVars, mapVars, Drained
    <2> QED
      BY <2>2, <2>3
  <1>6. ASSUME NEW a \in Actors, DropRuntime(a) PROVE Draining'
    <2>1. /\ UNCHANGED <<workerVars, dropped, on>> /\ runtimes # {} /\ runtimes' \subseteq runtimes
          /\ doing' = [doing EXCEPT ![a] = IF runtimes = {a} THEN "join" ELSE @]
          /\ ~dropped /\ \A b \in Actors : doing[b] # "join"
      BY <1>6 DEF DropRuntime, Draining, Owners, InCall
    <2>2. \A b \in Actors : doing'[b] = "join" => b = a
      BY <2>1 DEF Types
    <2>3. \A n \in Names : worker[n] = "absent" \/ txOpen[n]
      BY <2>1 DEF Draining
    <2> QED
      BY <2>1, <2>2, <2>3 DEF Draining, Drained, workerVars
  <1>7. ASSUME NEW a \in Actors, NEW n \in Names, CloseWorker(a, n) PROVE Draining'
    <2>1. /\ doing[a] = "join" /\ on[a] = None /\ runtimes = {} /\ txOpen[n]
          /\ txOpen' = [txOpen EXCEPT ![n] = FALSE] /\ on' = [on EXCEPT ![a] = n]
          /\ UNCHANGED <<worker, queue, runtimes, dropped, doing>>
      BY <1>7 DEF CloseWorker, mapVars, Owners, InCall
    <2>2. \A b \in Actors : doing'[b] = "join" => b = a
      BY <2>1 DEF Draining
    <2>3. \A m \in Names : Drained(m) \/ txOpen'[m] \/ m = n
      BY <2>1, NoneIsNoTask DEF Draining, Types
    <2>4. \A m \in Names : Drained(m) => ~txOpen'[m] /\ queue[m] = <<>>
      BY <2>1 DEF Draining, Types
    <2>5. on'[a] = n
      BY <2>1 DEF Types
    <2> QED
      BY <2>1, <2>2, <2>3, <2>4, <2>5 DEF Draining, Drained
  <1>8. ASSUME NEW a \in Actors, Joined(a) PROVE Draining'
    <2>1. /\ doing[a] = "join" /\ on[a] \in Names /\ Drained(on[a])
          /\ on' = [on EXCEPT ![a] = None] /\ UNCHANGED <<workerVars, mapVars, doing>>
      BY <1>8 DEF Joined, Drained
    <2>2. \A b \in Actors : doing'[b] = "join" => b = a
      BY <2>1 DEF Draining
    <2>3. \A m \in Names : Drained(m) \/ txOpen[m]
      BY <2>1 DEF Draining
    <2> QED
      BY <2>1, <2>2, <2>3 DEF Draining, Drained, workerVars, mapVars
  <1>9. ASSUME NEW a \in Actors, JoinSelf(a) PROVE Draining'
    <2> DEFINE n == on[a]
    <2>1. /\ n \in Names /\ cur[n] # None /\ doing[a] = "join" /\ runtimes = {}
          /\ doing' = [doing EXCEPT ![a] = "idle"] /\ txOpen' = [m \in Names |-> FALSE]
          /\ worker' = [worker EXCEPT ![n] = "waiting"]
          /\ UNCHANGED <<queue, runtimes, dropped>> /\ ~dropped
      BY <1>9, NoneIsNoTask DEF JoinSelf, Unwind, mapVars, Owners, InCall, Draining
    <2>2. worker[n] = "running"
      BY <2>1, LineIsOpen
    <2>3. \A b \in Actors : doing'[b] # "join"
      BY <2>1 DEF Draining, Types
    <2>4. \A m \in Names : Drained(m)' => Drained(m) /\ ~txOpen'[m]
      BY <2>1, <2>2 DEF Drained, Types
    <2> QED
      BY <2>1, <2>3, <2>4 DEF Draining
  <1>10. ASSUME NEW a \in Actors, DropEnds(a) PROVE Draining'
    <2>1. /\ doing[a] = "join" /\ on[a] = None /\ runtimes = {} /\ \A n \in Names : ~txOpen[n]
          /\ doing' = [doing EXCEPT ![a] = "idle"] /\ UNCHANGED <<workerVars, runtimes>>
      BY <1>10 DEF DropEnds, Owners, InCall
    <2>2. \A n \in Names : Drained(n)
      BY <2>1, NoneIsNoTask DEF Draining
    <2>3. \A b \in Actors : doing'[b] # "join"
      BY <2>1 DEF Draining, Types
    <2> QED
      BY <2>1, <2>2, <2>3 DEF Draining, Drained, workerVars
  <1>11. ASSUME NEW n \in Names, WorkerTake(n) PROVE Draining'
    <2>1. /\ worker[n] = "waiting" /\ worker' = [worker EXCEPT ![n] = "running"]
          /\ \E q : queue' = [queue EXCEPT ![n] = q]
          /\ UNCHANGED <<txOpen, runtimes, dropped, doing, on>>
      BY <1>11 DEF WorkerTake, mapVars, callVars
    <2>2. \A m \in Names : /\ Drained(m)' <=> Drained(m)
                           /\ Drained(m) => worker'[m] = worker[m] /\ queue'[m] = queue[m]
      BY <2>1 DEF Drained, Types
    <2> QED
      BY <2>1, <2>2, DrainingKept
  <1>12. ASSUME NEW n \in Names, WorkerEnd(n) PROVE Draining'
    <2>1. /\ worker[n] = "waiting" /\ worker' = [worker EXCEPT ![n] = "ended"]
          /\ queue[n] = <<>> /\ ~txOpen[n]
          /\ UNCHANGED <<queue, txOpen, runtimes, dropped, doing, on>>
      BY <1>12 DEF WorkerEnd, mapVars, callVars
    <2>2. \A m \in Names : /\ Drained(m) => Drained(m)' /\ worker'[m] = worker[m]
                           /\ Drained(m)' => Drained(m) \/ m = n
      BY <2>1 DEF Drained, Types
    <2> QED
      BY <2>1, <2>2, DrainingKept
  <1>13. ASSUME NEW n \in Names, Finish(n) \/ ClosurePanics(n) PROVE Draining'
    <2>1. cur[n] # None
      BY <1>13, LineFacts DEF Finish, ClosurePanics, Line
    <2>2. /\ worker' = [worker EXCEPT ![n] = "waiting"] /\ queue' = queue
          /\ UNCHANGED <<txOpen, runtimes, dropped, doing, on>>
      BY <1>13 DEF Finish, ClosurePanics, Unwind, mapVars, callVars
    <2> QED
      BY <2>1, <2>2, StopsDraining
  <1>14. ASSUME NEW a \in Actors, SpawnStep(a) PROVE Draining'
    <2>1. PICK t \in Tasks :
              \/ \E n \in Names, keep \in {{}, {a}}, owning \in {{}, {t}} :
                     Spawn(a, t, n, keep, owning)
              \/ Ready(a, t)
      BY <1>14 DEF SpawnStep
    <2>2. ASSUME NEW n \in Names, NEW keep \in {{}, {a}}, NEW owning \in {{}, {t}},
                 Spawn(a, t, n, keep, owning)
          PROVE  Draining'
      <3>1. owning \subseteq {t}
        OBVIOUS
      <3> QED
        BY <1>1, <2>2, <3>1
    <2> QED
      BY <1>2, <2>1, <2>2
  <1>15. ASSUME NEW a \in Actors, DropStep(a) PROVE Draining'
    BY <1>7, <1>8, <1>9, <1>10, <1>15 DEF DropStep
  <1>16. ASSUME NEW n \in Names, WorkerStep(n) PROVE Draining'
    BY <1>11, <1>12, <1>13, <1>16 DEF WorkerStep
  <1> QED
    BY <1>3, <1>5, <1>6, <1>14, <1>15, <1>16 DEF Next

-------------------------------------------------------------------------------
(* Who waits, and for what.                                                *)

\* Only closures that run are in a call.
CallsRun == \A u \in Tasks : doing[u] # "idle" => Running(u)

\* The getter that has the receiver is alone with it and keeps the cell busy;
\* a handle made with its value never waits.
Getters ==
    /\ \A a \in Actors : doing[a] = "recv" => cell[on[a]] = "busy"
    /\ \A a, b \in Actors : doing[a] = "recv" /\ doing[b] = "recv" /\ on[a] = on[b] => a = b
    /\ \A t \in Tasks : chan[t] = "ready" => cell[t] = "set"

\* A worker that is joined was told to end.
Joins ==
    \A a \in Actors : doing[a] = "join" /\ on[a] # None =>
        worker[on[a]] # "absent" /\ ~txOpen[on[a]]

WaitInv == CallsRun /\ Getters /\ Joins

\* Before anything is called, nobody waits.
LEMMA InitWait == Init => WaitInv
  BY ActorsAssumption DEF Init, WaitInv, CallsRun, Getters, Joins, Actors

\* A step that takes no closure in a call from its worker, and begins calls only
\* in those that run.
LEMMA CallsRunKept ==
    ASSUME CallsRun,
           \A n \in Names : \A u \in Tasks : cur[n] = u /\ doing'[u] # "idle" => cur'[n] = u,
           \A u \in Tasks : doing'[u] # "idle" => doing[u] # "idle" \/ Running(u)
    PROVE  CallsRun'
  <1>1. ASSUME NEW u \in Tasks, doing'[u] # "idle" PROVE \E n \in Names : cur'[n] = u
    <2>1. Running(u)
      BY <1>1 DEF CallsRun
    <2>2. PICK n \in Names : cur[n] = u
      BY <2>1 DEF Running
    <2> QED
      BY <1>1, <2>2
  <1> QED
    BY <1>1 DEF CallsRun, Running

\* The closure of actor a comes to its end with the call it was in.
LEMMA UnwindCallsRun ==
    ASSUME Types, CallsRun, NEW a \in Actors, NEW n \in Names, Unwind(a, n),
           doing' = [doing EXCEPT ![a] = "idle"]
    PROVE  CallsRun'
  <1>1. cur[n] = a /\ cur' = [cur EXCEPT ![n] = None]
    BY DEF Unwind
  <1>2. \A u \in Tasks : doing'[u] # "idle" => u # a /\ doing[u] # "idle"
    BY ActorsAssumption DEF Types, Actors
  <1>3. ASSUME NEW m \in Names, NEW u \in Tasks, cur[m] = u, doing'[u] # "idle"
        PROVE  cur'[m] = u
    <2>1. m # n
      BY <1>1, <1>2, <1>3
    <2> QED
      BY <1>1, <1>3, <2>1 DEF Types
  <1> QED
    BY <1>2, <1>3, CallsRunKept

\* Every step leaves calls to closures that run.
LEMMA CallsRunNext ==
    ASSUME Types, LineInv, CallsRun, Next
    PROVE  CallsRun'
  <1>1. ASSUME NEW a \in Actors, cur' = cur, a \in Tasks => Running(a),
               \A b \in Actors : b # a => doing'[b] = doing[b]
        PROVE  CallsRun'
    BY <1>1, CallsRunKept DEF Actors
  <1>2. ASSUME NEW a \in Actors, CanAct(a) \/ doing[a] # "idle"
        PROVE  a \in Tasks => Running(a)
    BY <1>2 DEF CallsRun, CanAct
  <1>3. ASSUME NEW a \in Actors, SpawnStep(a) \/ OwnerStep(a) \/ DropRuntime(a) PROVE CallsRun'
    <2>1. CanAct(a) /\ cur' = cur
      BY <1>3 DEF SpawnStep, Spawn, Ready, OwnerStep, Share, DropHandle, Asks, DropRuntime,
                  workerVars
    <2>2. doing' = doing \/ \E d : doing' = [doing EXCEPT ![a] = d]
      BY <1>3 DEF SpawnStep, Spawn, Ready, OwnerStep, Share, DropHandle, Asks, DropRuntime,
                  callVars
    <2>3. \A b \in Actors : b # a => doing'[b] = doing[b]
      BY <2>2 DEF Types
    <2> QED
      BY <1>1, <1>2, <2>1, <2>3
  <1>4. ASSUME NEW a \in Actors, Fails(a), doing[a] # "idle" PROVE CallsRun'
    <2>1. doing' = [doing EXCEPT ![a] = "idle"]
      BY <1>4 DEF Fails, Answered
    <2>2. CASE cur' = cur
      <3>1. \A b \in Actors : b # a => doing'[b] = doing[b]
        BY <2>1 DEF Types
      <3> QED
        BY <1>1, <1>2, <1>4, <2>2, <3>1
    <2>3. ASSUME NEW n \in Names, Unwind(a, n) PROVE CallsRun'
      BY <2>1, <2>3, UnwindCallsRun
    <2> QED
      BY <1>4, <2>2, <2>3 DEF Fails
  <1>5. ASSUME NEW a \in Actors, CallStep(a) PROVE CallsRun'
    <2>1. doing[a] # "idle"
      BY <1>5 DEF CallStep, Enter, Receive, Unwrap
    <2>2. CASE cur' = cur /\ \E d : doing' = [doing EXCEPT ![a] = d]
      <3>1. \A b \in Actors : b # a => doing'[b] = doing[b]
        BY <2>2 DEF Types
      <3> QED
        BY <1>1, <1>2, <2>1, <2>2, <3>1
    <2>3. Fails(a) \/ (cur' = cur /\ \E d : doing' = [doing EXCEPT ![a] = d])
      BY <1>5 DEF CallStep, Enter, Receive, Unwrap, TakeReceiver, HasValue, Answered, workerVars
    <2> QED
      BY <1>4, <2>1, <2>2, <2>3
  <1>6. ASSUME NEW a \in Actors, DropStep(a) PROVE CallsRun'
    <2>1. CASE JoinSelf(a)
      <3>1. on[a] \in Names /\ Unwind(a, on[a]) /\ doing' = [doing EXCEPT ![a] = "idle"]
        BY <2>1 DEF JoinSelf
      <3> QED
        BY <3>1, UnwindCallsRun
    <2>2. CASE (\E n \in Names : CloseWorker(a, n)) \/ Joined(a) \/ DropEnds(a)
      <3>1. /\ cur' = cur /\ doing[a] # "idle"
            /\ doing' = doing \/ doing' = [doing EXCEPT ![a] = "idle"]
        BY <2>2 DEF CloseWorker, Joined, DropEnds, workerVars
      <3>2. \A b \in Actors : b # a => doing'[b] = doing[b]
        BY <3>1 DEF Types
      <3> QED
        BY <1>1, <1>2, <3>1, <3>2
    <2> QED
      BY <1>6, <2>1, <2>2 DEF DropStep
  <1>7. ASSUME NEW n \in Names, WorkerTake(n) PROVE CallsRun'
    <2>1. doing' = doing /\ \E t : cur' = [cur EXCEPT ![n] = t]
      BY <1>7 DEF WorkerTake, callVars
    <2>2. cur[n] = None
      BY <1>7, LineFacts DEF WorkerTake, Line
    <2>3. \A m \in Names : \A u \in Tasks : cur[m] = u => cur'[m] = u
      BY <2>1, <2>2, NoneIsNoTask DEF Types
    <2> QED
      BY <2>1, <2>3, CallsRunKept
  <1>8. ASSUME NEW n \in Names, WorkerEnd(n) PROVE CallsRun'
    <2>1. doing' = doing /\ cur' = cur
      BY <1>8 DEF WorkerEnd, callVars
    <2> QED
      BY <2>1, CallsRunKept
  <1>9. ASSUME NEW n \in Names, Finish(n) \/ ClosurePanics(n) PROVE CallsRun'
    <2>1. doing' = doing /\ doing[cur[n]] = "idle" /\ cur' = [cur EXCEPT ![n] = None]
      BY <1>9 DEF Finish, ClosurePanics, Unwind, callVars
    <2>2. \A m \in Names : \A u \in Tasks : cur[m] = u /\ doing'[u] # "idle" => cur'[m] = u
      BY <2>1 DEF Types
    <2> QED
      BY <2>1, <2>2, CallsRunKept
  <1>10. ASSUME NEW n \in Names, WorkerStep(n) PROVE CallsRun'
    BY <1>7, <1>8, <1>9, <1>10 DEF WorkerStep
  <1> QED
    BY <1>3, <1>5, <1>6, <1>10 DEF Next

\* A step that takes no receiver and fills no channel.
LEMMA GettersKept ==
    ASSUME Getters, UNCHANGED cell,
           \A a \in Actors : doing'[a] = "recv" => doing[a] = "recv" /\ on'[a] = on[a],
           \A t \in Tasks : chan'[t] = "ready" => chan[t] = "ready"
    PROVE  Getters'
  BY DEF Getters

\* Every step leaves one getter at most with a receiver.
LEMMA GettersNext ==
    ASSUME Types, LineInv, Owners, Getters, Next
    PROVE  Getters'
  <1>1. ASSUME NEW a \in Actors, NEW t \in Tasks, NEW n \in Names, NEW keep, NEW owning,
               Spawn(a, t, n, keep, owning)
        PROVE  Getters'
    BY <1>1, GettersKept DEF Spawn, callVars, Types
  <1>2. ASSUME NEW a \in Actors, NEW t \in Tasks, Ready(a, t) PROVE Getters'
    <2>1. /\ chan[t] = "none" /\ chan' = [chan EXCEPT ![t] = "ready"]
          /\ cell' = [cell EXCEPT ![t] = "set"] /\ UNCHANGED <<doing, on>>
      BY <1>2 DEF Ready, callVars
    <2>2. \A b \in Actors : doing[b] = "recv" => on[b] # t
      BY <2>1 DEF Owners, InCall, Owning
    <2>3. \A b \in Actors : doing[b] = "recv" => cell'[on[b]] = cell[on[b]]
      BY <2>1, <2>2 DEF Types, Owners, InCall
    <2>4. \A u \in Tasks : chan'[u] = "ready" => cell'[u] = "set"
      BY <2>1 DEF Types, Getters
    <2> QED
      BY <2>1, <2>3, <2>4 DEF Getters
  <1>3. ASSUME NEW a \in Actors, OwnerStep(a) \/ DropRuntime(a) PROVE Getters'
    <2>1. UNCHANGED <<cell, chan>>
      BY <1>3 DEF OwnerStep, Share, DropHandle, Asks, DropRuntime, handleVars
    <2>2. \/ UNCHANGED <<doing, on>>
          \/ on' = on /\ \E d \in {"join", doing[a]} : doing' = [doing EXCEPT ![a] = d]
          \/ doing' = [doing EXCEPT ![a] = "enter"] /\ \E t : on' = [on EXCEPT ![a] = t]
      BY <1>3 DEF OwnerStep, Share, DropHandle, Asks, DropRuntime, callVars
    <2>3. \A b \in Actors : doing'[b] = "recv" => doing[b] = "recv" /\ on'[b] = on[b]
      BY <2>2 DEF Types
    <2> QED
      BY <2>1, <2>3, GettersKept
  <1>4. ASSUME NEW a \in Actors, Fails(a)
        PROVE  /\ doing' = [doing EXCEPT ![a] = "idle"] /\ on' = [on EXCEPT ![a] = None]
               /\ \A t \in Tasks : chan'[t] = "ready" => chan[t] = "ready"
    <2>1. doing' = [doing EXCEPT ![a] = "idle"] /\ on' = [on EXCEPT ![a] = None]
      BY <1>4 DEF Fails, Answered
    <2>2. chan' = chan \/ chan' = [chan EXCEPT ![a] = "closed"]
      BY <1>4 DEF Fails, Unwind
    <2> QED
      BY <2>1, <2>2 DEF Types
  <1>5. ASSUME NEW a \in Actors, UNCHANGED <<cell, chan>>,
               \/ doing' = [doing EXCEPT ![a] = "idle"] /\ on' = [on EXCEPT ![a] = None]
               \/ doing' = [doing EXCEPT ![a] = "unwrap"] /\ on' = on
        PROVE  Getters'
    <2>1. \A b \in Actors : doing'[b] = "recv" => doing[b] = "recv" /\ on'[b] = on[b]
      BY <1>5 DEF Types
    <2> QED
      BY <1>5, <2>1, GettersKept
  <1>6. ASSUME NEW a \in Actors, Enter(a) PROVE Getters'
    <2>1. doing[a] = "enter" /\ on[a] \in Tasks
      BY <1>6 DEF Enter, Owners, InCall
    <2>2. CASE cell[on[a]] = "set" /\ HasValue(a)
               /\ UNCHANGED <<workerVars, chan, handleVars, mapVars>>
      <3>1. \/ doing' = [doing EXCEPT ![a] = "idle"] /\ on' = [on EXCEPT ![a] = None]
            \/ doing' = [doing EXCEPT ![a] = "unwrap"] /\ on' = on
        BY <2>2 DEF HasValue, Answered
      <3>2. UNCHANGED <<cell, chan>>
        BY <2>2 DEF handleVars
      <3> QED
        BY <1>5, <3>1, <3>2
    <2>3. CASE cell[on[a]] = "empty" /\ rx[on[a]] = "some" /\ TakeReceiver(a)
      <3>1. /\ cell' = [cell EXCEPT ![on[a]] = "busy"]
            /\ doing' = [doing EXCEPT ![a] = "recv"] /\ UNCHANGED <<chan, on>>
        BY <2>3 DEF TakeReceiver
      <3>2. \A b \in Actors : doing[b] = "recv" => on[b] # on[a] /\ b # a
        BY <2>1, <2>3 DEF Getters
      <3>3. \A b \in Actors : doing'[b] = "recv" => b = a \/ doing[b] = "recv"
        BY <3>1 DEF Types
      <3>4. ASSUME NEW b \in Actors, doing'[b] = "recv" PROVE cell'[on'[b]] = "busy"
        <4>1. CASE b = a
          BY <2>1, <3>1, <4>1 DEF Types
        <4>2. CASE b # a
          <5>1. doing[b] = "recv" /\ on[b] \in Tasks /\ cell[on[b]] = "busy"
            BY <3>3, <3>4, <4>2 DEF Owners, InCall, Getters
          <5> QED
            BY <2>1, <3>1, <5>1 DEF Types
        <4> QED
          BY <4>1, <4>2
      <3>5. ASSUME NEW b \in Actors, NEW c \in Actors,
                   doing'[b] = "recv", doing'[c] = "recv", on'[b] = on'[c]
            PROVE  b = c
        BY <3>1, <3>2, <3>3, <3>5 DEF Getters
      <3>6. ASSUME NEW t \in Tasks, chan'[t] = "ready" PROVE cell'[t] = "set"
        BY <2>1, <2>3, <3>1, <3>6 DEF Types, Getters
      <3> QED
        BY <3>4, <3>5, <3>6 DEF Getters
    <2>4. CASE cell[on[a]] = "empty" /\ rx[on[a]] # "some" /\ TakeReceiver(a)
      <3>1. Fails(a) /\ cell' = cell
        BY <2>4 DEF TakeReceiver
      <3>2. \A b \in Actors : doing'[b] = "recv" => doing[b] = "recv" /\ on'[b] = on[b]
        BY <1>4, <3>1 DEF Types
      <3> QED
        BY <1>4, <3>1, <3>2, GettersKept
    <2> QED
      BY <1>6, <2>2, <2>3, <2>4 DEF Enter
  <1>7. ASSUME NEW a \in Actors, Receive(a) PROVE Getters'
    <2> DEFINE t == on[a]
    <2>1. /\ doing[a] = "recv" /\ t \in Tasks
          /\ \A b \in Actors : doing[b] = "recv" /\ b # a => on[b] # t
      BY <1>7 DEF Receive, Owners, InCall, Getters
    <2>2. \/ chan[t] = "value" /\ cell' = [cell EXCEPT ![t] = "set"] /\ HasValue(a) /\ chan' = chan
          \/ chan[t] = "closed" /\ cell' = [cell EXCEPT ![t] = "empty"] /\ Fails(a)
      BY <1>7 DEF Receive
    <2>3. \A u \in Tasks : chan'[u] = "ready" => chan[u] = "ready" /\ u # t
      BY <1>4, <2>2
    <2>4. \/ doing' = [doing EXCEPT ![a] = "idle"] /\ on' = [on EXCEPT ![a] = None]
          \/ doing' = [doing EXCEPT ![a] = "unwrap"] /\ on' = on
      BY <2>2 DEF HasValue, Fails, Answered
    <2>5. \A b \in Actors : doing'[b] = "recv" => b # a /\ doing[b] = "recv" /\ on'[b] = on[b]
      BY <2>4 DEF Types
    <2> HIDE DEF t
    <2>6. \A u \in Tasks : u # t => cell'[u] = cell[u]
      BY <2>2 DEF Types
    <2>7. ASSUME NEW b \in Actors, doing'[b] = "recv" PROVE cell'[on'[b]] = "busy"
      <3>1. doing[b] = "recv" /\ on'[b] = on[b] /\ on[b] # t /\ on[b] \in Tasks
        BY <2>1, <2>5, <2>7 DEF Owners, InCall
      <3> QED
        BY <2>6, <3>1 DEF Getters
    <2>8. ASSUME NEW b \in Actors, NEW c \in Actors,
                 doing'[b] = "recv", doing'[c] = "recv", on'[b] = on'[c]
          PROVE  b = c
      BY <2>5, <2>8 DEF Getters
    <2>9. ASSUME NEW u \in Tasks, chan'[u] = "ready" PROVE cell'[u] = "set"
      BY <2>3, <2>6, <2>9 DEF Getters
    <2> QED
      BY <2>7, <2>8, <2>9 DEF Getters
  <1>8. ASSUME NEW a \in Actors, Unwrap(a) PROVE Getters'
    <2>1. Answered(a) /\ UNCHANGED <<chan, cell>>
      BY <1>8 DEF Unwrap
    <2> QED
      BY <1>5, <2>1 DEF Answered
  <1>9. ASSUME NEW a \in Actors, DropStep(a) PROVE Getters'
    <2>1. doing[a] = "join" /\ cell' = cell
      BY <1>9 DEF DropStep, CloseWorker, Joined, JoinSelf, DropEnds, handleVars
    <2>2. chan' = chan \/ chan' = [chan EXCEPT ![a] = "closed"]
      BY <1>9 DEF DropStep, CloseWorker, Joined, JoinSelf, Unwind, DropEnds
    <2>3. /\ doing' = doing \/ doing' = [doing EXCEPT ![a] = "idle"]
          /\ on' = on \/ \E n : on' = [on EXCEPT ![a] = n]
      BY <1>9 DEF DropStep, CloseWorker, Joined, JoinSelf, DropEnds
    <2>4. \A b \in Actors : doing'[b] = "recv" => doing[b] = "recv" /\ on'[b] = on[b]
      BY <2>1, <2>3 DEF Types
    <2>5. \A t \in Tasks : chan'[t] = "ready" => chan[t] = "ready"
      BY <2>2 DEF Types
    <2> QED
      BY <2>1, <2>4, <2>5, GettersKept
  <1>10. ASSUME NEW n \in Names, WorkerStep(n) PROVE Getters'
    <2>1. UNCHANGED <<cell, doing, on>>
      BY <1>10 DEF WorkerStep, WorkerTake, WorkerEnd, Finish, ClosurePanics, handleVars, callVars
    <2>2. \/ chan' = chan
          \/ \E end \in {"value", "closed"} : chan' = [chan EXCEPT ![cur[n]] = end]
      BY <1>10 DEF WorkerStep, WorkerTake, WorkerEnd, Finish, ClosurePanics, Unwind
    <2>3. \A t \in Tasks : chan'[t] = "ready" => chan[t] = "ready"
      BY <2>2 DEF Types
    <2> QED
      BY <2>1, <2>3, GettersKept
  <1>11. ASSUME NEW a \in Actors, SpawnStep(a) PROVE Getters'
    BY <1>1, <1>2, <1>11 DEF SpawnStep
  <1>12. ASSUME NEW a \in Actors, CallStep(a) PROVE Getters'
    BY <1>6, <1>7, <1>8, <1>12 DEF CallStep
  <1> QED
    BY <1>3, <1>9, <1>10, <1>11, <1>12 DEF Next

\* A step that reopens no channel of a worker, and begins no join of one.
LEMMA JoinsKept ==
    ASSUME Owners, Joins,
           \A a \in Actors : doing'[a] = "join" => on'[a] = None \/ doing[a] = "join",
           \A a \in Actors : doing'[a] = "join" => on'[a] = None \/ on'[a] = on[a],
           \A n \in Names : worker[n] # "absent" => worker'[n] # "absent",
           \A n \in Names : ~txOpen[n] => ~txOpen'[n]
    PROVE  Joins'
  <1>1. ASSUME NEW a \in Actors, doing'[a] = "join", on'[a] # None
        PROVE  worker'[on'[a]] # "absent" /\ ~txOpen'[on'[a]]
    <2>1. doing[a] = "join" /\ on'[a] = on[a] /\ on[a] \in Names
      BY <1>1 DEF Owners, InCall
    <2> QED
      BY <1>1, <2>1 DEF Joins
  <1> QED
    BY <1>1 DEF Joins

\* Every step leaves joins to workers that were told to end.
LEMMA JoinsNext ==
    ASSUME Types, Owners, Draining, Joins, Next
    PROVE  Joins'
  <1>1. ASSUME NEW a \in Actors, NEW t \in Tasks, NEW n \in Names, NEW keep, NEW owning,
               Spawn(a, t, n, keep, owning)
        PROVE  Joins'
    <2>1. runtimes # {} /\ UNCHANGED <<doing, on>>
      BY <1>1 DEF Spawn, callVars
    <2>2. \A b \in Actors : doing'[b] # "join"
      BY <2>1 DEF Owners, InCall
    <2> QED
      BY <2>2 DEF Joins
  <1>2. ASSUME NEW a \in Actors, NEW t \in Tasks, Ready(a, t) PROVE Joins'
    BY <1>2, JoinsKept DEF Ready, workerVars, callVars
  <1>3. ASSUME NEW a \in Actors, OwnerStep(a) PROVE Joins'
    <2>1. UNCHANGED workerVars
      BY <1>3 DEF OwnerStep, Share, DropHandle, Asks
    <2>2. \/ UNCHANGED <<doing, on>>
          \/ doing' = [doing EXCEPT ![a] = "enter"] /\ \E t : on' = [on EXCEPT ![a] = t]
      BY <1>3 DEF OwnerStep, Share, DropHandle, Asks, callVars
    <2>3. \A b \in Actors : doing'[b] = "join" => doing[b] = "join" /\ on'[b] = on[b]
      BY <2>2 DEF Types
    <2> QED
      BY <2>1, <2>3, JoinsKept DEF workerVars
  <1>4. ASSUME NEW a \in Actors, DropRuntime(a) PROVE Joins'
    <2>1. /\ UNCHANGED <<workerVars, on>> /\ doing[a] = "idle"
          /\ \E d : doing' = [doing EXCEPT ![a] = d]
      BY <1>4 DEF DropRuntime, CanAct
    <2>2. on[a] = None
      BY <2>1 DEF Owners, InCall
    <2>3. \A b \in Actors : doing'[b] = "join" => on'[b] = None \/ doing[b] = "join"
      BY <2>1, <2>2 DEF Types
    <2> QED
      BY <2>1, <2>3, JoinsKept DEF workerVars
  <1>5. ASSUME NEW a \in Actors, CallStep(a) PROVE Joins'
    <2>1. txOpen' = txOpen /\ (worker' = worker \/ \E n : worker' = [worker EXCEPT ![n] = "waiting"])
      BY <1>5 DEF CallStep, Enter, Receive, Unwrap, TakeReceiver, Fails, Unwind, workerVars
    <2>2. \/ doing' = [doing EXCEPT ![a] = "idle"] /\ on' = [on EXCEPT ![a] = None]
          \/ doing' = [doing EXCEPT ![a] = "unwrap"] /\ on' = on
          \/ doing' = [doing EXCEPT ![a] = "recv"] /\ on' = on
      <3>1. HasValue(a) => \/ doing' = [doing EXCEPT ![a] = "idle"] /\ on' = [on EXCEPT ![a] = None]
                           \/ doing' = [doing EXCEPT ![a] = "unwrap"] /\ on' = on
        BY DEF HasValue, Answered
      <3>2. Fails(a) \/ Answered(a)
                => doing' = [doing EXCEPT ![a] = "idle"] /\ on' = [on EXCEPT ![a] = None]
        BY DEF Fails, Answered
      <3>3. \/ HasValue(a) \/ Fails(a) \/ Answered(a)
            \/ doing' = [doing EXCEPT ![a] = "recv"] /\ on' = on
        BY <1>5 DEF CallStep, Enter, Receive, Unwrap, TakeReceiver
      <3> QED
        BY <3>1, <3>2, <3>3
    <2>3. \A b \in Actors : doing'[b] = "join" => doing[b] = "join" /\ on'[b] = on[b]
      BY <2>2 DEF Types
    <2>4. \A n \in Names : worker[n] # "absent" => worker'[n] # "absent"
      BY <2>1 DEF Types
    <2> QED
      BY <2>1, <2>3, <2>4, JoinsKept
  <1>6. ASSUME NEW a \in Actors, NEW n \in Names, CloseWorker(a, n) PROVE Joins'
    <2>1. /\ doing[a] = "join" /\ on[a] = None /\ txOpen[n] /\ UNCHANGED <<worker, doing>>
          /\ txOpen' = [txOpen EXCEPT ![n] = FALSE] /\ on' = [on EXCEPT ![a] = n]
      BY <1>6 DEF CloseWorker
    <2>2. worker[n] # "absent"
      BY <2>1 DEF Draining, Drained
    <2>3. \A b \in Actors : doing[b] = "join" => b = a
      BY <2>1 DEF Draining
    <2>4. on'[a] = n /\ ~txOpen'[n]
      BY <2>1 DEF Types
    <2> QED
      BY <2>1, <2>2, <2>3, <2>4 DEF Joins
  <1>7. ASSUME NEW a \in Actors, Joined(a) \/ DropEnds(a) PROVE Joins'
    <2>1. /\ UNCHANGED workerVars
          /\ doing' = doing \/ doing' = [doing EXCEPT ![a] = "idle"]
          /\ on' = on \/ on' = [on EXCEPT ![a] = None]
      BY <1>7 DEF Joined, DropEnds
    <2>2. \A b \in Actors : doing'[b] = "join" =>
              doing[b] = "join" /\ (on'[b] = None \/ on'[b] = on[b])
      BY <2>1 DEF Types
    <2> QED
      BY <2>1, <2>2, JoinsKept DEF workerVars
  <1>8. ASSUME NEW a \in Actors, JoinSelf(a) PROVE Joins'
    <2>1. doing[a] = "join" /\ doing' = [doing EXCEPT ![a] = "idle"]
      BY <1>8 DEF JoinSelf
    <2>2. \A b \in Actors : doing'[b] # "join"
      BY <2>1 DEF Draining, Types
    <2> QED
      BY <2>2 DEF Joins
  <1>9. ASSUME NEW n \in Names, WorkerStep(n) PROVE Joins'
    <2>1. UNCHANGED <<txOpen, doing, on>>
      BY <1>9 DEF WorkerStep, WorkerTake, WorkerEnd, Finish, ClosurePanics, callVars
    <2>2. \E w \in {"running", "ended", "waiting"} : worker' = [worker EXCEPT ![n] = w]
      BY <1>9 DEF WorkerStep, WorkerTake, WorkerEnd, Finish, ClosurePanics, Unwind
    <2>3. \A m \in Names : worker[m] # "absent" => worker'[m] # "absent"
      BY <2>2 DEF Types
    <2> QED
      BY <2>1, <2>3, JoinsKept
  <1>10. ASSUME NEW a \in Actors, SpawnStep(a) PROVE Joins'
    BY <1>1, <1>2, <1>10 DEF SpawnStep
  <1>11. ASSUME NEW a \in Actors, DropStep(a) PROVE Joins'
    BY <1>6, <1>7, <1>8, <1>11 DEF DropStep
  <1> QED
    BY <1>3, <1>4, <1>5, <1>9, <1>10, <1>11 DEF Next

\* An open task runs or is in a channel.
LEMMA OpenIsInLine ==
    ASSUME Types, LineInv, NEW t \in Tasks, chan[t] = "open"
    PROVE  \E n \in Names : cur[n] = t \/ t \in Range(queue[n])
  <1>1. PICK n \in Names : \E i \in 1 .. Len(order[n]) : order[n][i] = t
    BY DEF LineInv, SentOnce
  <1>2. PICK i \in 1 .. Len(order[n]) : order[n][i] = t
    BY <1>1
  <1>3. i > Done(n) /\ Len(order[n]) = Done(n) + Busy(n) + Len(queue[n])
        /\ Busy(n) = IF cur[n] = None THEN 0 ELSE 1
    BY <1>2, LineFacts
  <1>4. i \in Nat /\ Done(n) \in Nat /\ Len(queue[n]) \in Nat
    BY LineSizes
  <1>5. CASE cur[n] # None /\ i = Done(n) + 1
    BY <1>2, <1>5, LineFacts DEF Line
  <1>6. CASE ~(cur[n] # None /\ i = Done(n) + 1)
    <2> DEFINE j == i - (Done(n) + Busy(n))
    <2>1. j \in 1 .. Len(queue[n]) /\ Done(n) + Busy(n) + j = i
      <3>1. CASE cur[n] = None
        BY <1>3, <1>4, <3>1
      <3>2. CASE cur[n] # None
        BY <1>3, <1>4, <1>6, <3>2
      <3> QED
        BY <3>1, <3>2
    <2> HIDE DEF j
    <2>2. queue[n][j] = order[n][Done(n) + Busy(n) + j]
      BY <2>1, LineSizes
    <2>3. queue[n][j] = t /\ j \in DOMAIN queue[n]
      BY <1>2, <2>1, <2>2, LineFacts
    <2>4. t \in Range(queue[n])
      BY <2>3 DEF Range
    <2> QED
      BY <2>4
  <1> QED
    BY <1>5, <1>6

\* When nobody can go, a getter waits for a closure that has not ended,
LEMMA GetterWaits ==
    ASSUME Inv, WaitInv, ~CanGo, NEW a \in Actors, doing[a] \in {"enter", "recv"}
    PROVE  on[a] \in Tasks /\ chan[on[a]] = "open"
  <1>1. ASSUME NEW b \in Actors, doing[b] # "idle" PROVE b \in Tasks => Running(b)
    BY <1>1 DEF WaitInv, CallsRun
  <1>2. ASSUME NEW b \in Actors, doing[b] = "recv"
        PROVE  on[b] \in Tasks /\ chan[on[b]] = "open"
    <2>1. on[b] \in Tasks /\ cell[on[b]] = "busy" /\ holds[on[b]] # {}
      BY <1>2 DEF Inv, Owners, InCall, WaitInv, Getters
    <2>2. chan[on[b]] \notin {"value", "closed"}
      BY <1>1, <1>2 DEF CanGo
    <2>3. chan[on[b]] # "none"
      BY <2>1 DEF Inv, Owners, Owning
    <2>4. chan[on[b]] # "ready"
      BY <2>1 DEF WaitInv, Getters
    <2> QED
      BY <2>1, <2>2, <2>3, <2>4 DEF Inv, Types
  <1>3. CASE doing[a] = "enter"
    <2>1. on[a] \in Tasks
      BY <1>3 DEF Inv, Owners, InCall
    <2>2. cell[on[a]] = "busy"
      BY <1>1, <1>3 DEF CanGo
    <2>3. PICK b \in Actors : doing[b] = "recv" /\ on[b] = on[a]
      BY <2>1, <2>2 DEF Inv, Cells, CellOf
    <2> QED
      BY <1>2, <2>1, <2>3
  <1> QED
    BY <1>2, <1>3

\* whoever drops the last Runtime waits for a worker that runs another closure,
LEMMA JoinWaits ==
    ASSUME Inv, WaitInv, ~CanGo, NEW a \in Actors, doing[a] = "join"
    PROVE  on[a] \in Names /\ cur[on[a]] \in Tasks /\ chan[cur[on[a]]] = "open"
  <1>1. on[a] # None
    BY DEF CanGo
  <1>2. on[a] \in Names
    BY <1>1 DEF Inv, Owners, InCall
  <1>3. worker[on[a]] # "absent" /\ ~txOpen[on[a]]
    BY <1>1 DEF WaitInv, Joins
  <1>4. worker[on[a]] # "ended" /\ worker[on[a]] # "waiting"
    BY <1>2, <1>3 DEF CanGo
  <1>5. worker[on[a]] = "running"
    BY <1>2, <1>3, <1>4 DEF Inv, Types
  <1>6. cur[on[a]] # None
    BY <1>2, <1>5, LineFacts DEF Inv, Line
  <1>7. chan[cur[on[a]]] = "open"
    BY <1>2, <1>6, LineIsOpen DEF Inv
  <1> QED
    BY <1>2, <1>6, <1>7 DEF Inv, Types

\* and a closure waits for another.
LEMMA ClosureWaits ==
    ASSUME Inv, WaitInv, ~CanGo, NEW t \in Tasks, chan[t] = "open"
    PROVE  \E u \in Tasks : chan[u] = "open" /\ <<t, u>> \in Waits
  <1>1. t \in Actors
    BY DEF Actors
  <1>2. CASE doing[t] # "idle"
    <2>1. doing[t] \in {"enter", "recv", "join"}
      <3>1. doing[t] # "unwrap"
        BY <1>1 DEF CanGo
      <3> QED
        BY <1>1, <1>2, <3>1 DEF Inv, Types
    <2>2. CASE doing[t] \in {"enter", "recv"}
      <3>1. on[t] \in Tasks /\ chan[on[t]] = "open"
        BY <1>1, <2>2, GetterWaits
      <3>2. <<t, on[t]>> \in Waits
        BY <2>2, <3>1 DEF Waits
      <3> QED
        BY <3>1, <3>2
    <2>3. CASE doing[t] = "join"
      <3>1. on[t] \in Names /\ cur[on[t]] \in Tasks /\ chan[cur[on[t]]] = "open"
        BY <1>1, <2>3, JoinWaits
      <3>2. <<t, cur[on[t]]>> \in Waits
        BY <2>3, <3>1 DEF Waits
      <3> QED
        BY <3>1, <3>2
    <2> QED
      BY <2>1, <2>2, <2>3
  <1>3. CASE doing[t] = "idle"
    <2>1. PICK n \in Names : cur[n] = t \/ t \in Range(queue[n])
      BY OpenIsInLine DEF Inv
    <2>2. cur[n] # t
      <3>1. ASSUME cur[n] = t PROVE FALSE
        <4>1. worker[n] = "running"
          BY <3>1, NoneIsNoTask, LineIsOpen DEF Inv
        <4> QED
          BY <1>3, <3>1, <4>1 DEF CanGo
      <3> QED
        BY <3>1
    <2>3. t \in Range(queue[n])
      BY <2>1, <2>2
    <2>4. queue[n] # <<>>
      <3>1. DOMAIN queue[n] # {}
        BY <2>3 DEF Range
      <3>2. queue[n] \in Seq(Tasks)
        BY DEF Inv, Types
      <3> QED
        BY <3>1, <3>2
    <2>5. worker[n] # "waiting" /\ ~Drained(n)
      BY <2>4 DEF CanGo, Inv, Draining
    <2>6. worker[n] = "running"
      BY <2>5 DEF Drained, Inv, Types
    <2>7. cur[n] # None
      BY <2>6, LineFacts DEF Inv, Line
    <2>8. cur[n] \in Tasks /\ chan[cur[n]] = "open"
      BY <2>7, LineIsOpen DEF Inv, Types
    <2>9. <<t, cur[n]>> \in Waits
      BY <2>3, <2>8 DEF Waits
    <2> QED
      BY <2>8, <2>9
  <1> QED
    BY <1>2, <1>3

\* So the closures that have not ended, if nobody can go, wait for each other.
LEMMA SomebodyGoes == ASSUME Inv, WaitInv PROVE Served
  <1> SUFFICES ASSUME ~CanGo,
                      (\E a \in Actors : doing[a] # "idle") \/ (\E t \in Tasks : chan[t] = "open")
               PROVE  WaitCycle
    BY DEF Served
  <1> DEFINE S == {t \in Tasks : chan[t] = "open"}
  <1>1. S # {}
    <2>1. ASSUME NEW a \in Actors, doing[a] # "idle" PROVE \E t \in Tasks : chan[t] = "open"
      <3>1. doing[a] # "unwrap"
        BY DEF CanGo
      <3>2. CASE doing[a] \in {"enter", "recv"}
        BY <3>2, GetterWaits
      <3>3. CASE doing[a] = "join"
        BY <3>3, JoinWaits
      <3> QED
        BY <2>1, <3>1, <3>2, <3>3 DEF Inv, Types
    <2> QED
      BY <2>1
  <1>2. \A t \in S : \E u \in S : <<t, u>> \in Waits
    BY ClosureWaits
  <1>3. S \in (SUBSET Tasks) \ {{}}
    BY <1>1
  <1> HIDE DEF S
  <1> QED
    BY <1>2, <1>3 DEF WaitCycle

-------------------------------------------------------------------------------
(* The invariants.                                                         *)

LEMMA InvHolds == Spec => []Inv
  <1>1. Inv /\ [Next]_vars => Inv'
    <2> SUFFICES ASSUME Inv, [Next]_vars PROVE Inv'
      OBVIOUS
    <2>1. CASE Next
      BY <2>1, TypesNext, LineNext, OwnersNext, CellsNext, DrainingNext DEF Inv
    <2>2. CASE UNCHANGED vars
      <3>1. UNCHANGED <<worker, cur, queue, txOpen, order, chan, cell, rx, holds, moved,
                        runtimes, dropped, doing, on, into>>
        BY <2>2 DEF vars, workerVars, handleVars, mapVars, callVars
      <3>2. Types' /\ LineInv'
        BY <3>1, QuietLine DEF Inv, Types, Quiet
      <3>3. Owners' /\ Cells'
        BY <3>1, CellsKept DEF Inv, Owners, InCall, Owning
      <3>4. Draining'
        BY <3>1, DrainingKept DEF Inv, Drained
      <3> QED
        BY <3>2, <3>3, <3>4 DEF Inv
    <2> QED
      BY <2>1, <2>2
  <1> QED
    BY InitInv, <1>1, PTL DEF Spec

\* Every variable keeps its type, a busy cell has its getter, and closures that
\* have ended own nothing.
THEOREM TypeCorrect == Spec => []TypeOK
  <1>1. Inv => TypeOK
    BY DEF Inv, Types, Owners, InCall, Owning, Cells, CellOf, TypeOK
  <1> QED
    BY <1>1, InvHolds, PTL

\* Closures of a name run one at a time in the order they were sent.
THEOREM OrderCorrect == Spec => []InOrder
  <1>1. ASSUME Inv, NEW n \in Names
        PROVE  LET line == (IF cur[n] = None THEN <<>> ELSE <<cur[n]>>) \o queue[n]
                   done == Len(order[n]) - Len(line) IN
               /\ done >= 0
               /\ line = SubSeq(order[n], done + 1, Len(order[n]))
               /\ \A i \in 1..Len(order[n]) : chan[order[n][i]] = "open" <=> i > done
    <2> DEFINE first == IF cur[n] = None THEN <<>> ELSE <<cur[n]>>
               line  == first \o queue[n]
    <2>1. Types /\ LineInv /\ Line(n)
      BY <1>1 DEF Inv, LineInv
    <2>2. /\ first \in Seq(Tasks) /\ Len(first) = Busy(n)
          /\ cur[n] # None => first[1] = cur[n]
      BY <2>1 DEF Types, Busy
    <2>3. /\ queue[n] \in Seq(Tasks) /\ Len(order[n]) \in Nat /\ Len(queue[n]) \in Nat
          /\ Done(n) \in Nat /\ Busy(n) \in Nat /\ Busy(n) <= 1
          /\ Busy(n) # 0 => cur[n] # None
          /\ Len(order[n]) = Done(n) + Busy(n) + Len(queue[n])
          /\ \A i \in 1 .. Len(order[n]) :
                 order[n][i] \in Tasks /\ (chan[order[n][i]] = "open" <=> i > Done(n))
      BY <2>1, LineFacts
    <2> HIDE DEF first
    <2>4. /\ line \in Seq(Tasks) /\ Len(line) = Busy(n) + Len(queue[n])
          /\ \A i \in 1 .. Busy(n) + Len(queue[n]) :
                 line[i] = IF i <= Busy(n) THEN first[i] ELSE queue[n][i - Busy(n)]
      <3>1. /\ line \in Seq(Tasks) /\ Len(line) = Len(first) + Len(queue[n])
            /\ \A i \in 1 .. Len(first) + Len(queue[n]) :
                   line[i] = IF i <= Len(first) THEN first[i] ELSE queue[n][i - Len(first)]
        BY <2>2, <2>3, ConcatProperties
      <3> QED
        BY <2>2, <3>1
    <2> HIDE DEF line
    <2>5. Len(order[n]) - Len(line) = Done(n)
      BY <2>3, <2>4
    <2> DEFINE rest == SubSeq(order[n], Done(n) + 1, Len(order[n]))
    <2>6. /\ rest \in Seq(Tasks) /\ Len(rest) = Len(line)
          /\ \A i \in 1 .. Len(line) : rest[i] = order[n][Done(n) + i]
      <3>1. /\ Done(n) + 1 \in Int /\ Len(order[n]) \in Int
            /\ \A i \in Done(n) + 1 .. Len(order[n]) : order[n][i] \in Tasks
        BY <2>3
      <3>2. /\ rest \in Seq(Tasks)
            /\ Len(rest) = IF Done(n) + 1 <= Len(order[n])
                           THEN Len(order[n]) - (Done(n) + 1) + 1 ELSE 0
            /\ \A i \in 1 .. Len(order[n]) - (Done(n) + 1) + 1 :
                   rest[i] = order[n][(Done(n) + 1) + i - 1]
        BY <3>1, SubSeqProperties
      <3>3. Len(rest) = Len(line) /\ Len(order[n]) - (Done(n) + 1) + 1 = Len(line)
        <4>1. /\ Len(line) \in Nat /\ Len(order[n]) = Done(n) + Len(line)
          BY <2>3, <2>4
        <4> QED
          BY <2>3, <3>2, <4>1
      <3>4. ASSUME NEW i \in 1 .. Len(line) PROVE (Done(n) + 1) + i - 1 = Done(n) + i
        BY <2>3, <2>4
      <3> QED
        BY <3>2, <3>3, <3>4
    <2>7. ASSUME NEW i \in 1 .. Len(line) PROVE line[i] = rest[i]
      <3>1. CASE i <= Busy(n)
        <4>1. cur[n] # None /\ i = 1
          BY <2>3, <2>4, <3>1
        <4>2. cur[n] = order[n][Done(n) + 1]
          BY <2>1, <4>1 DEF Line
        <4>3. line[1] = first[1] /\ rest[1] = order[n][Done(n) + 1]
          BY <2>4, <2>6, <3>1, <4>1
        <4> QED
          BY <2>2, <4>1, <4>2, <4>3
      <3>2. CASE i > Busy(n)
        <4>1. i - Busy(n) \in 1 .. Len(queue[n]) /\ line[i] = queue[n][i - Busy(n)]
          <5>1. /\ i \in 1 .. Busy(n) + Len(queue[n])
                /\ Busy(n) \in Nat /\ Len(queue[n]) \in Nat
            BY <2>3, <2>4
          <5>2. line[i] = IF i <= Busy(n) THEN first[i] ELSE queue[n][i - Busy(n)]
            BY <2>4, <5>1
          <5>3. i - Busy(n) \in 1 .. Len(queue[n]) /\ ~(i <= Busy(n))
            BY <3>2, <5>1
          <5> QED
            BY <5>2, <5>3
        <4>2. queue[n][i - Busy(n)] = order[n][Done(n) + Busy(n) + (i - Busy(n))]
          BY <2>1, <4>1 DEF Line
        <4>3. Done(n) + Busy(n) + (i - Busy(n)) = Done(n) + i
          BY <2>3, <2>4
        <4> QED
          BY <2>6, <4>1, <4>2, <4>3
      <3>3. i \in Int /\ Busy(n) \in Int
        BY <2>3, <2>4
      <3>4. i <= Busy(n) \/ i > Busy(n)
        BY <3>3
      <3> QED
        BY <3>1, <3>2, <3>4
    <2>8. line = rest
      BY <2>4, <2>6, <2>7, SeqEqual
    <2>9. /\ Len(order[n]) - Len(line) >= 0
          /\ line = SubSeq(order[n], (Len(order[n]) - Len(line)) + 1, Len(order[n]))
          /\ \A i \in 1..Len(order[n]) :
                 chan[order[n][i]] = "open" <=> i > Len(order[n]) - Len(line)
      <3>1. /\ Done(n) >= 0
            /\ \A i \in 1..Len(order[n]) : chan[order[n][i]] = "open" <=> i > Done(n)
        BY <2>3
      <3> QED
        BY <2>5, <2>8, <3>1
    <2> QED
      BY <2>9 DEF line, first
  <1>2. Inv => InOrder
    BY <1>1 DEF InOrder
  <1> QED
    BY <1>2, InvHolds, PTL

\* However many threads race for a value, a getter finds the receiver gone only
\* when the closure has ended without one.
THEOREM PanicsCorrect == Spec => []PanicsOnlyIfDropped
  <1>1. Inv => PanicsOnlyIfDropped
    BY DEF Inv, Cells, CellOf, PanicsOnlyIfDropped
  <1> QED
    BY <1>1, InvHolds, PTL

\* try_into_inner moves a value out only when it exists and nobody is left to
\* use its handle.
THEOREM OwnedCorrect == Spec => []OwnedAlone
  <1>1. Inv => OwnedAlone
    <2> SUFFICES ASSUME Inv, NEW t \in moved
        PROVE  /\ chan[t] \in {"value", "ready"} /\ holds[t] = {}
               /\ \A a \in Actors : on[a] # t
      BY DEF OwnedAlone
    <2>1. t \in Tasks /\ chan[t] \in {"value", "ready"} /\ holds[t] = {}
      BY DEF Inv, Types, Cells, CellOf
    <2>2. ASSUME NEW a \in Actors, on[a] = t PROVE FALSE
      <3>1. t # None /\ t \notin Names
        BY <2>1, NoneAssumption, NoneIsNoTask
      <3>2. doing[a] \in {"idle", "join", "enter", "recv", "unwrap"} /\ InCall(a)
        BY DEF Inv, Types, Owners
      <3> QED
        BY <2>1, <2>2, <3>1, <3>2 DEF InCall
    <2> QED
      BY <2>1, <2>2
  <1> QED
    BY <1>1, InvHolds, PTL

\* The drop of the last Runtime returns when every closure ever sent has ended
\* and no worker is left.
THEOREM DrainsCorrect == Spec => []DropDrains
  <1>1. Inv => DropDrains
    <2> SUFFICES ASSUME Inv, dropped
        PROVE  /\ \A t \in Tasks : chan[t] # "open"
               /\ \A n \in Names : worker[n] \in {"absent", "ended"}
      BY DEF DropDrains
    <2>1. ASSUME NEW n \in Names
          PROVE  worker[n] \in {"absent", "ended"} /\ queue[n] = <<>> /\ cur[n] = None
      BY LineFacts DEF Inv, Draining, Drained, Line
    <2>2. ASSUME NEW t \in Tasks, chan[t] = "open" PROVE FALSE
      <3>1. PICK n \in Names : \E i \in 1 .. Len(order[n]) : order[n][i] = t
        BY <2>2 DEF Inv, LineInv, SentOnce
      <3>2. PICK i \in 1 .. Len(order[n]) : order[n][i] = t
        BY <3>1
      <3>3. Len(order[n]) = Done(n) /\ Done(n) \in Nat
        <4>1. Len(queue[n]) = 0 /\ Busy(n) = 0
          BY <2>1 DEF Busy
        <4> QED
          BY <4>1, LineFacts DEF Inv
      <3>4. i > Done(n)
        BY <2>2, <3>2, LineFacts DEF Inv
      <3> QED
        BY <3>3, <3>4
    <2> QED
      BY <2>1, <2>2
  <1> QED
    BY <1>1, InvHolds, PTL

\* A call, a drop or a closure that has not ended is never left with nobody that
\* can go on, unless closures wait for each other in a circle: a sent message, a
\* closed channel, an ended worker or a value is always seen by who waits for it.
THEOREM ServedCorrect == Spec => []Served
  <1>1. Inv /\ WaitInv /\ [Next]_vars => WaitInv'
    <2> SUFFICES ASSUME Inv, WaitInv, [Next]_vars PROVE WaitInv'
      OBVIOUS
    <2>1. CASE Next
      BY <2>1, CallsRunNext, GettersNext, JoinsNext DEF Inv, WaitInv
    <2>2. CASE UNCHANGED vars
      <3>1. UNCHANGED <<worker, cur, txOpen, chan, cell, doing, on>>
        BY <2>2 DEF vars, workerVars, handleVars, callVars
      <3>2. CallsRun'
        BY <3>1 DEF WaitInv, CallsRun, Running
      <3>3. Getters' /\ Joins'
        BY <3>1 DEF WaitInv, Getters, Joins
      <3> QED
        BY <3>2, <3>3 DEF WaitInv
    <2> QED
      BY <2>1, <2>2
  <1>2. Inv /\ WaitInv => Served
    BY SomebodyGoes
  <1> QED
    BY InitWait, InvHolds, <1>1, <1>2, PTL DEF Spec
===============================================================================
