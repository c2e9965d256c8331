---------------------------- MODULE WorkerPoolProofs ----------------------------
(***************************************************************************)
(* The safety of WorkerPool, for any number of threads, calls and types:   *)
(* a broadcast takes exactly the threads it was asked for, and init leaves *)
(* its state on all of them.                                               *)
(***************************************************************************)
EXTENDS WorkerPool, TLAPS, FiniteSetTheorems, WellFoundedInduction

InClosure == {"running", "waiting"}
Open      == Active \cup {"queued"}

\* Threads that have a share of the budget of a call, whatever became of it.
Shares   == {"claimed", "refused", "ran", "panicked"} \cup InClosure
Taken(c) == {th \in Threads : job[c][th] \in Shares}

\* A thread is not in the same call twice.
Distinct(s) == \A i, j \in DOMAIN s : s[i] = s[j] => i = j
StackInv == \A th \in Threads : Distinct(stack[th])

\* A call has jobs while it is open: on every thread, or for one of them.
JobsInv == \A c \in Calls :
    /\ result[c] = "none" => op[c] = "none" /\ \A th \in Threads : job[c][th] = "none"
    /\ result[c] # "none" => op[c] # "none"
    /\ result[c] # "none" /\ op[c] \in OnAll => \A th \in Threads : job[c][th] # "none"
    /\ op[c] \notin OnAll => \A th, h \in Threads :
           job[c][th] = "queued" => job[c][h] = "queued"
    /\ result[c] \in {"ok", "panicked"} => \A th \in Threads : job[c][th] \notin Open
    /\ result[c] = "ok" => \A th \in Threads : job[c][th] \notin {"refused", "panicked"}

\* A worker that is borrowed mutably is borrowed once, and only then made anew.
BorrowInv ==
    /\ \A c, d \in Calls, th \in Threads :
        /\ op[c] \in Mut /\ job[c][th] \in InClosure
        /\ op[d] \in Mut \cup Shared /\ job[d][th] \in InClosure
        => c = d
    /\ \A th \in Threads : initing[th] # None =>
           \E c \in Calls : op[c] \in Mut \ {"clear"} /\ job[c][th] \in InClosure

\* What the threads have taken and what is left is what was asked for.
BudgetInv == \A c \in Calls :
    /\ \A th \in Threads : job[c][th] \in {"claiming", "skipped"} =>
           /\ op[c] = "broadcast" /\ want[c] < Cardinality(Threads)
           /\ job[c][th] = "claiming" => remaining[c] <= seen[c][th]
           /\ job[c][th] = "skipped" => remaining[c] = 0
    /\ op[c] = "broadcast" =>
           IF want[c] < Cardinality(Threads)
           THEN remaining[c] + Cardinality(Taken(c)) = want[c]
           ELSE remaining[c] = Cardinality(Threads)

\* The init nothing has followed: it alone changes states, and where it ran the
\* state is there.
LastInv == last # None =>
    /\ result[last] # "none" /\ op[last] = "init" /\ type[last] \in Types
    /\ \A d \in Calls : op[d] \in Mut /\ result[d] = "open" => d = last
    /\ \A th \in Threads :
        /\ initing[th] # None => initing[th] = type[last] /\ job[last][th] # "ran"
        /\ job[last][th] = "ran" => state[th] = type[last]

IInv == TypeOK /\ StackInv /\ JobsInv /\ BorrowInv /\ BudgetInv /\ LastInv

-------------------------------------------------------------------------------
(* Stacks.                                                                 *)

LEMMA Push ==
    ASSUME NEW s \in Seq(Calls), NEW c \in Calls, c \notin Range(s), Distinct(s)
    PROVE  /\ <<c>> \o s \in Seq(Calls)
           /\ Range(<<c>> \o s) = Range(s) \cup {c}
           /\ Distinct(<<c>> \o s)
<1> DEFINE t == <<c>> \o s
<1>1. t \in Seq(Calls) /\ DOMAIN t = 1 .. Len(s) + 1 /\ DOMAIN s = 1 .. Len(s)
        /\ Len(s) \in Nat
  OBVIOUS
<1>2. t[1] = c /\ \A i \in 1 .. Len(s) : t[i + 1] = s[i]
  OBVIOUS
<1>3. \A i \in DOMAIN t : i = 1 \/ (i - 1 \in 1 .. Len(s) /\ t[i] = s[i - 1])
  BY <1>1, <1>2
<1> HIDE DEF t
<1>4. Range(t) = Range(s) \cup {c}
  <2>1. \A i \in DOMAIN t : t[i] \in Range(s) \cup {c}
    BY <1>1, <1>2, <1>3 DEF Range
  <2>2. \A i \in DOMAIN s : s[i] = t[i + 1] /\ i + 1 \in DOMAIN t
    BY <1>1, <1>2
  <2>3. c = t[1] /\ 1 \in DOMAIN t
    BY <1>1, <1>2
  <2> QED
    BY <2>1, <2>2, <2>3 DEF Range
<1>5. Distinct(t)
  <2> SUFFICES ASSUME NEW i \in DOMAIN t, NEW j \in DOMAIN t, t[i] = t[j]
               PROVE  i = j
    BY DEF Distinct
  <2>1. \A k \in DOMAIN t : k # 1 => t[k] # c
    BY <1>1, <1>3 DEF Range
  <2>2. CASE i = 1 \/ j = 1
    BY <1>2, <2>1, <2>2
  <2>3. CASE i # 1 /\ j # 1
    BY <1>1, <1>3, <2>3 DEF Distinct
  <2> QED
    BY <2>2, <2>3
<1> QED
  BY <1>1, <1>4, <1>5 DEF t

LEMMA Pop ==
    ASSUME NEW s \in Seq(Calls), s # <<>>, Distinct(s)
    PROVE  /\ Tail(s) \in Seq(Calls)
           /\ Range(Tail(s)) = Range(s) \ {Head(s)}
           /\ Distinct(Tail(s))
<1> DEFINE t == Tail(s)
<1>1. t \in Seq(Calls) /\ DOMAIN t = 1 .. Len(s) - 1 /\ DOMAIN s = 1 .. Len(s)
        /\ Len(s) \in Nat \ {0}
  OBVIOUS
<1>2. s[1] = Head(s) /\ \A i \in DOMAIN t : t[i] = s[i + 1]
  BY <1>1
<1> HIDE DEF t
<1>3. Range(t) = Range(s) \ {Head(s)}
  <2>1. \A i \in DOMAIN t : t[i] = s[i + 1] /\ i + 1 \in DOMAIN s /\ i + 1 # 1
    BY <1>1, <1>2
  <2>2. \A i \in DOMAIN t : t[i] \in Range(s) /\ t[i] # Head(s)
    BY <1>1, <1>2, <2>1 DEF Range, Distinct
  <2>3. \A i \in DOMAIN s : s[i] # Head(s) => i - 1 \in DOMAIN t /\ t[i - 1] = s[i]
    BY <1>1, <1>2
  <2> QED
    BY <2>2, <2>3 DEF Range
<1>4. Distinct(t)
  BY <1>1, <1>2 DEF Distinct
<1> QED
  BY <1>1, <1>3, <1>4 DEF t

-------------------------------------------------------------------------------
(* Jobs.                                                                   *)

\* What TypeOK says of jobs and stacks, and what the two invariants add.
Placed ==
    /\ job \in [Calls -> [Threads -> Active \cup Ended \cup {"none", "queued"}]]
    /\ stack \in [Threads -> Seq(Calls)]
    /\ \A th \in Threads : \A c \in Calls : job[c][th] \in Active <=> c \in Range(stack[th])

JobsOf == Placed /\ StackInv /\ JobsInv

LEMMA Places ==
    /\ Active \cap Ended = {} /\ "none" \notin Active \cup Ended
    /\ "queued" \notin Active \cup Ended /\ InClosure \subseteq Active
    /\ Open \cap Ended = {} /\ "none" \notin Open
BY DEF Active, Ended, InClosure, Open

\* The job on top of a stack is open, so its call is.
LEMMA TopIsOpen ==
    ASSUME JobsOf, result \in [Calls -> {"none", "open", "ok", "panicked"}],
           NEW c \in Calls, NEW th \in Threads, job[c][th] \in Open
    PROVE  result[c] = "open" /\ op[c] # "none"
BY Places DEF JobsOf, JobsInv

\* A job that goes from place to place, and leaves the stack where it ends.
LEMMA OneJobMoves ==
    ASSUME JobsOf, NEW c \in Calls, NEW th \in Threads, NEW p \in Active \cup Ended,
           result \in [Calls -> {"none", "open", "ok", "panicked"}],
           job[c][th] \in Active,
           job' = [job EXCEPT ![c][th] = p],
           \/ p \in Active /\ stack' = stack
           \/ p \in Ended /\ OnTop(c, th) /\ stack' = [stack EXCEPT ![th] = Tail(@)],
           UNCHANGED <<op, result>>
    PROVE  JobsOf'
<1>1. \A d \in Calls, h \in Threads :
        job'[d][h] = IF d = c /\ h = th THEN p ELSE job[d][h]
  BY DEF JobsOf, Placed
<1>2. job' \in [Calls -> [Threads -> Active \cup Ended \cup {"none", "queued"}]]
  BY DEF JobsOf, Placed
<1>3. result[c] = "open"
  BY TopIsOpen DEF Open
<1>4. JobsInv'
  BY <1>1, <1>3, Places DEF JobsOf, JobsInv
<1>5. CASE p \in Active /\ stack' = stack
  BY <1>1, <1>2, <1>4, <1>5 DEF JobsOf, Placed, StackInv
<1>6. CASE p \in Ended /\ OnTop(c, th) /\ stack' = [stack EXCEPT ![th] = Tail(@)]
  <2>1. stack[th] \in Seq(Calls) /\ stack[th] # <<>> /\ Head(stack[th]) = c
          /\ Distinct(stack[th])
    BY <1>6 DEF OnTop, JobsOf, Placed, StackInv
  <2>2. /\ Tail(stack[th]) \in Seq(Calls) /\ Distinct(Tail(stack[th]))
        /\ Range(Tail(stack[th])) = Range(stack[th]) \ {c}
    BY <2>1, Pop
  <2>3. /\ stack' \in [Threads -> Seq(Calls)]
        /\ \A h \in Threads : stack'[h] = IF h = th THEN Tail(stack[th]) ELSE stack[h]
    BY <1>6, <2>2 DEF JobsOf, Placed
  <2>4. StackInv'
    BY <2>2, <2>3 DEF JobsOf, StackInv
  <2>5. \A h \in Threads : \A d \in Calls : job'[d][h] \in Active <=> d \in Range(stack'[h])
    BY <1>1, <1>6, <2>2, <2>3, Places DEF JobsOf, Placed
  <2> QED
    BY <1>2, <1>4, <2>3, <2>4, <2>5 DEF JobsOf, Placed
<1> QED
  BY <1>5, <1>6

LEMMA BeginPlaces ==
    ASSUME JobsOf, NEW c \in Calls, NEW th \in Threads, Begin(c, th),
           result \in [Calls -> {"none", "open", "ok", "panicked"}]
    PROVE  JobsOf' /\ result[c] = "open"
<1> DEFINE p == IF op[c] \in OnAll /\ Budgeted(c) THEN "claiming" ELSE "claimed"
<1>1. result[c] = "open" /\ UNCHANGED <<op, result>> /\ job[c][th] = "queued"
  BY TopIsOpen DEF Begin, Open, callVars
<1>2. p \in Active /\ p # "none" /\ p # "queued"
  BY DEF Active
<1>3. \A d \in Calls, h \in Threads :
        job'[d][h] = IF d # c THEN job[d][h]
                     ELSE IF h = th THEN p
                     ELSE IF op[c] \in OnAll THEN job[d][h] ELSE "none"
  BY DEF Begin, JobsOf, Placed
<1> HIDE DEF p
<1>4. job' \in [Calls -> [Threads -> Active \cup Ended \cup {"none", "queued"}]]
  BY DEF Begin, JobsOf, Placed, Active
<1>5. JobsInv'
  BY <1>1, <1>2, <1>3, Places DEF JobsOf, JobsInv
<1>6. c \notin Range(stack[th]) /\ stack[th] \in Seq(Calls) /\ Distinct(stack[th])
  BY <1>1, Places DEF JobsOf, Placed, StackInv
<1>7. /\ <<c>> \o stack[th] \in Seq(Calls) /\ Distinct(<<c>> \o stack[th])
      /\ Range(<<c>> \o stack[th]) = Range(stack[th]) \cup {c}
  BY <1>6, Push
<1>8. /\ stack' \in [Threads -> Seq(Calls)]
      /\ \A h \in Threads : stack'[h] = IF h = th THEN <<c>> \o stack[th] ELSE stack[h]
  BY <1>7 DEF Begin, JobsOf, Placed
<1>9. StackInv'
  BY <1>7, <1>8 DEF JobsOf, StackInv
<1>10. \A h \in Threads : op[c] \notin OnAll /\ h # th => job[c][h] = "queued"
  BY <1>1 DEF JobsOf, JobsInv
<1>11. \A h \in Threads : \A d \in Calls : job'[d][h] \in Active <=> d \in Range(stack'[h])
  <2> SUFFICES ASSUME NEW h \in Threads, NEW d \in Calls
               PROVE  job'[d][h] \in Active <=> d \in Range(stack'[h])
    OBVIOUS
  <2>1. job[d][h] \in Active <=> d \in Range(stack[h])
    BY DEF JobsOf, Placed
  <2>2. CASE d # c
    <3>1. job'[d][h] = job[d][h]
      BY <1>3, <2>2
    <3>2. d \in Range(stack'[h]) <=> d \in Range(stack[h])
      BY <1>7, <1>8, <2>2
    <3> QED
      BY <2>1, <3>1, <3>2
  <2>3. CASE d = c /\ h = th
    BY <1>2, <1>3, <1>7, <1>8, <2>3
  <2>4. CASE d = c /\ h # th
    BY <1>3, <1>8, <1>10, <2>1, <2>4, Places
  <2> QED
    BY <2>2, <2>3, <2>4
<1> QED
  BY <1>1, <1>4, <1>5, <1>8, <1>9, <1>11 DEF JobsOf, Placed

LEMMA CallPlaces ==
    ASSUME JobsOf, NEW c \in Calls, NEW o \in Ops, NEW T, NEW n, NEW from,
           result \in [Calls -> {"none", "open", "ok", "panicked"}],
           op \in [Calls -> Ops \cup {"none"}],
           Call(c, o, T, n, from),
           \/ Queue(c) /\ UNCHANGED stack
           \/ \E d \in Calls, th \in Threads :
                 /\ In(d, th, "running")
                 /\ IF o \in Posted
                    THEN /\ job' = [job EXCEPT ![c] = [h \in Threads |-> "queued"],
                                               ![d][th] = IF o \in Detached THEN @ ELSE "waiting"]
                         /\ UNCHANGED stack
                    ELSE /\ job' = [job EXCEPT ![c][th] = "claimed", ![d][th] = "waiting"]
                         /\ stack' = [stack EXCEPT ![th] = <<c>> \o @]
    PROVE  /\ JobsOf'
           /\ \A d \in Calls, h \in Threads : d # c =>
                 \/ job'[d][h] = job[d][h]
                 \/ job[d][h] = "running" /\ job'[d][h] = "waiting"
           /\ \A h \in Threads : /\ job[c][h] = "none"
                                 /\ job'[c][h] \in {"queued", "claimed", "none"}
                                 /\ o \in OnAll => job'[c][h] = "queued"
<1>1. /\ result[c] = "none" /\ op[c] = "none" /\ \A h \in Threads : job[c][h] = "none"
      /\ \A d \in Calls : result'[d] = IF d = c THEN "open" ELSE result[d]
      /\ \A d \in Calls : op'[d] = IF d = c THEN o ELSE op[d]
  BY DEF Call, JobsOf, JobsInv
<1>2. o # "none"
  BY OpsAssumption DEF OnAll, OnOne, InPlace
<1> DEFINE Others == \A d \in Calls, h \in Threads : d # c =>
                         \/ job'[d][h] = job[d][h]
                         \/ job[d][h] = "running" /\ job'[d][h] = "waiting"
           Typed == job' \in [Calls -> [Threads -> Active \cup Ended \cup {"none", "queued"}]]
<1>8. ASSUME Others,
             \/ \A h \in Threads : job'[c][h] = "queued"
             \/ o \notin OnAll /\ \A h \in Threads : job'[c][h] \in {"claimed", "none"}
      PROVE  JobsInv'
  <2> SUFFICES ASSUME NEW d \in Calls
               PROVE  /\ result'[d] = "none" => op'[d] = "none" /\ \A h \in Threads : job'[d][h] = "none"
                      /\ result'[d] # "none" => op'[d] # "none"
                      /\ result'[d] # "none" /\ op'[d] \in OnAll =>
                            \A h \in Threads : job'[d][h] # "none"
                      /\ op'[d] \notin OnAll => \A h, g \in Threads :
                            job'[d][h] = "queued" => job'[d][g] = "queued"
                      /\ result'[d] \in {"ok", "panicked"} =>
                            \A h \in Threads : job'[d][h] \notin Open
                      /\ result'[d] = "ok" =>
                            \A h \in Threads : job'[d][h] \notin {"refused", "panicked"}
    BY DEF JobsInv
  <2>1. CASE d = c
    BY <1>1, <1>2, <1>8, <2>1
  <2>2. CASE d # c
    <3>1. \A h \in Threads : /\ job'[d][h] \in Open <=> job[d][h] \in Open
                             /\ job'[d][h] = "queued" <=> job[d][h] = "queued"
                             /\ job'[d][h] = "none" <=> job[d][h] = "none"
                             /\ job'[d][h] \in {"refused", "panicked"} <=>
                                    job[d][h] \in {"refused", "panicked"}
      BY <1>8, <2>2 DEF Active, Open
    <3>2. op'[d] = op[d] /\ result'[d] = result[d]
      BY <1>1, <2>2
    <3> QED
      BY <3>1, <3>2 DEF JobsOf, JobsInv
  <2> QED
    BY <2>1, <2>2
<1>3. ASSUME Others, Typed, \A h \in Threads : job'[c][h] = "queued", UNCHANGED stack
      PROVE  JobsOf'
  <2>1. \A d \in Calls, h \in Threads : d # c => /\ job'[d][h] \in Active <=> job[d][h] \in Active
                                                 /\ job'[d][h] \in Open <=> job[d][h] \in Open
                                                 /\ job'[d][h] = "queued" <=> job[d][h] = "queued"
                                                 /\ job'[d][h] = "none" <=> job[d][h] = "none"
    BY <1>3 DEF Active, Open
  <2>2. JobsInv'
    BY <1>3, <1>8
  <2>3. Placed'
    BY <1>1, <1>3, <2>1, Places DEF JobsOf, Placed
  <2> QED
    BY <1>3, <2>2, <2>3 DEF JobsOf, StackInv
<1>4. CASE Queue(c) /\ UNCHANGED stack
  <2>1. \A d \in Calls, h \in Threads : job'[d][h] = IF d = c THEN "queued" ELSE job[d][h]
    BY <1>4 DEF Queue, JobsOf, Placed
  <2>2. Typed
    BY <1>4 DEF Queue, JobsOf, Placed
  <2> QED
    BY <1>1, <1>3, <1>4, <2>1, <2>2
<1>5. ASSUME NEW d \in Calls, NEW th \in Threads, In(d, th, "running"),
             o \in Posted,
             job' = [job EXCEPT ![c] = [h \in Threads |-> "queued"],
                                ![d][th] = IF o \in Detached THEN @ ELSE "waiting"],
             UNCHANGED stack
      PROVE  Others /\ (\A h \in Threads : job'[c][h] = "queued") /\ JobsOf'
  <2>1. d # c /\ job[d][th] = "running"
    BY <1>1, <1>5 DEF In
  <2>2. \A e \in Calls, h \in Threads :
          job'[e][h] = IF e = c THEN "queued"
                       ELSE IF e = d /\ h = th /\ o \notin Detached THEN "waiting"
                       ELSE job[e][h]
    BY <1>5, <2>1 DEF JobsOf, Placed
  <2>3. Typed
    BY <1>5, <2>1 DEF JobsOf, Placed, Active
  <2> QED
    BY <1>3, <1>5, <2>1, <2>2, <2>3
<1>6. ASSUME NEW d \in Calls, NEW th \in Threads, In(d, th, "running"),
             o \notin Posted,
             job' = [job EXCEPT ![c][th] = "claimed", ![d][th] = "waiting"],
             stack' = [stack EXCEPT ![th] = <<c>> \o @]
      PROVE  /\ Others /\ JobsOf' /\ o \notin OnAll
             /\ \A h \in Threads : job'[c][h] \in {"claimed", "none"}
  <2>1. d # c /\ job[d][th] = "running"
    BY <1>1, <1>6 DEF In
  <2>2. \A e \in Calls, h \in Threads :
          job'[e][h] = IF e = c /\ h = th THEN "claimed"
                       ELSE IF e = d /\ h = th THEN "waiting"
                       ELSE job[e][h]
    BY <1>6, <2>1 DEF JobsOf, Placed
  <2>3. Typed
    BY <1>6, <2>1 DEF JobsOf, Placed, Active
  <2>4. Others
    BY <2>1, <2>2
  <2>5. \A h \in Threads : job'[c][h] \in {"claimed", "none"}
    BY <1>1, <2>2
  <2>6. JobsInv'
    BY <1>6, <1>8, <2>4, <2>5 DEF Posted
  <2>7. c \notin Range(stack[th]) /\ stack[th] \in Seq(Calls) /\ Distinct(stack[th])
    BY <1>1, Places DEF JobsOf, Placed, StackInv
  <2>8. /\ <<c>> \o stack[th] \in Seq(Calls) /\ Distinct(<<c>> \o stack[th])
        /\ Range(<<c>> \o stack[th]) = Range(stack[th]) \cup {c}
    BY <2>7, Push
  <2>9. /\ stack' \in [Threads -> Seq(Calls)]
        /\ \A h \in Threads : stack'[h] = IF h = th THEN <<c>> \o stack[th] ELSE stack[h]
    BY <1>6, <2>8 DEF JobsOf, Placed
  <2>10. StackInv'
    BY <2>8, <2>9 DEF JobsOf, StackInv
  <2>11. ASSUME NEW h \in Threads, NEW e \in Calls
         PROVE  job'[e][h] \in Active <=> e \in Range(stack'[h])
    <3>1. job[e][h] \in Active <=> e \in Range(stack[h])
      BY DEF JobsOf, Placed
    <3>2. CASE e = c /\ h = th
      BY <2>2, <2>8, <2>9, <3>2 DEF Active
    <3>3. CASE e = c /\ h # th
      BY <1>1, <2>2, <2>1, <2>9, <3>1, <3>3, Places
    <3>4. CASE e # c
      <4>1. job'[e][h] \in Active <=> job[e][h] \in Active
        BY <2>1, <2>2, <3>4 DEF Active
      <4>2. e \in Range(stack'[h]) <=> e \in Range(stack[h])
        BY <2>8, <2>9, <3>4
      <4> QED
        BY <3>1, <4>1, <4>2
    <3> QED
      BY <3>2, <3>3, <3>4
  <2>12. Placed'
    BY <2>3, <2>9, <2>11 DEF Placed
  <2> QED
    BY <1>6, <2>4, <2>5, <2>6, <2>10, <2>12 DEF JobsOf, Posted
<1>7. CASE \E d \in Calls, th \in Threads :
              /\ In(d, th, "running")
              /\ IF o \in Posted
                 THEN /\ job' = [job EXCEPT ![c] = [h \in Threads |-> "queued"],
                                            ![d][th] = IF o \in Detached THEN @ ELSE "waiting"]
                      /\ UNCHANGED stack
                 ELSE /\ job' = [job EXCEPT ![c][th] = "claimed", ![d][th] = "waiting"]
                      /\ stack' = [stack EXCEPT ![th] = <<c>> \o @]
  <2>1. PICK d \in Calls, th \in Threads :
              /\ In(d, th, "running")
              /\ IF o \in Posted
                 THEN /\ job' = [job EXCEPT ![c] = [h \in Threads |-> "queued"],
                                            ![d][th] = IF o \in Detached THEN @ ELSE "waiting"]
                      /\ UNCHANGED stack
                 ELSE /\ job' = [job EXCEPT ![c][th] = "claimed", ![d][th] = "waiting"]
                      /\ stack' = [stack EXCEPT ![th] = <<c>> \o @]
    BY <1>7
  <2>2. CASE o \in Posted
    BY <1>1, <1>5, <2>1, <2>2
  <2>3. CASE o \notin Posted
    BY <1>1, <1>6, <2>1, <2>3
  <2> QED
    BY <2>2, <2>3
<1> QED
  BY <1>4, <1>7

-------------------------------------------------------------------------------
(* Every step keeps the invariant.                                         *)

LEMMA TypeParts ==
    TypeOK <=> /\ Placed
               /\ op \in [Calls -> Ops \cup {"none"}] /\ type \in [Calls -> Types \cup {None}]
               /\ parent \in [Calls -> (Calls \X Threads) \cup {<<>>}]
               /\ remaining \in [Calls -> 0..Cardinality(Threads)]
               /\ result \in [Calls -> {"none", "open", "ok", "panicked"}]
               /\ seen \in [Calls -> [Threads -> 0..Cardinality(Threads)]]
               /\ want \in [Calls -> 0..Cardinality(Threads)] /\ last \in Calls \cup {None}
               /\ state \in [Threads -> Types \cup {None}]
               /\ initing \in [Threads -> Types \cup {None}]
               /\ \A th \in Threads : initing[th] # None => state[th] = None
BY DEF TypeOK, Placed

\* A step that lets no thread take a share, and gives none back.
LEMMA BudgetKept ==
    ASSUME BudgetInv, UNCHANGED <<op, want, remaining, seen>>,
           \A d \in Calls, h \in Threads :
               \/ job'[d][h] = job[d][h]
               \/ job[d][h] \in Shares /\ job'[d][h] \in Shares
    PROVE  BudgetInv'
<1>1. \A d \in Calls : Taken(d)' = Taken(d)
  BY DEF Taken
<1>2. \A d \in Calls, h \in Threads : job'[d][h] \in {"claiming", "skipped"} =>
                                          job'[d][h] = job[d][h]
  BY DEF Shares, InClosure
<1> QED
  BY <1>1, <1>2 DEF BudgetInv

\* A step that lets no closure begin, and keeps those that make a state.
LEMMA BorrowKept ==
    ASSUME BorrowInv, UNCHANGED op,
           \A d \in Calls, h \in Threads : job'[d][h] \in InClosure => job[d][h] \in InClosure,
           \A h \in Threads : initing'[h] # None =>
               /\ initing[h] # None
               /\ \A d \in Calls : job[d][h] \in InClosure /\ op[d] \in Mut
                                       => job'[d][h] \in InClosure
    PROVE  BorrowInv'
<1>1. ASSUME NEW h \in Threads, initing'[h] # None
      PROVE  \E d \in Calls : op'[d] \in Mut \ {"clear"} /\ job'[d][h] \in InClosure
  BY <1>1 DEF BorrowInv
<1>2. ASSUME NEW d \in Calls, NEW e \in Calls, NEW h \in Threads,
             op'[d] \in Mut, job'[d][h] \in InClosure,
             op'[e] \in Mut \cup Shared, job'[e][h] \in InClosure
      PROVE  d = e
  BY <1>2 DEF BorrowInv
<1> QED
  BY <1>1, <1>2 DEF BorrowInv

\* A step that changes no worker and lets the last init run nowhere.
LEMMA LastKept ==
    ASSUME LastInv, UNCHANGED <<op, type, state, initing, last>>,
           \A d \in Calls : result'[d] = "open" => result[d] = "open",
           \A d \in Calls : result'[d] = "none" => result[d] = "none",
           last \in Calls \cup {None},
           \A h \in Threads : last # None /\ job'[last][h] = "ran" => job[last][h] = "ran"
    PROVE  LastInv'
BY DEF LastInv

\* The closure that makes a state is the only one with the mutable borrow, and
\* while an init is the last call it is that call's.
LEMMA OwnerIsLast ==
    ASSUME IInv, NEW c \in Calls, NEW th \in Threads,
           op[c] \in Mut, job[c][th] \in InClosure, last # None
    PROVE  c = last
<1>1. result[c] = "open"
  BY TopIsOpen, TypeParts DEF IInv, JobsOf, InClosure, Open, Active
<1> QED
  BY <1>1 DEF IInv, LastInv

LEMMA CallInv ==
    ASSUME IInv, NEW c \in Calls, CallStep(c)
    PROVE  IInv'
<1>1. PICK o \in Ops, T \in Types, n \in 0..Cardinality(Threads) :
        \/ CallFromOutside(c, o, T, n)
        \/ \E d \in Calls, th \in Threads : CallFromClosure(c, o, T, n, d, th)
  BY DEF CallStep
<1>2. PICK from \in (Calls \X Threads) \cup {<<>>} :
        /\ Call(c, o, T, n, from)
        /\ \/ Queue(c) /\ UNCHANGED stack
           \/ \E d \in Calls, th \in Threads :
                 /\ In(d, th, "running")
                 /\ IF o \in Posted
                    THEN /\ job' = [job EXCEPT ![c] = [h \in Threads |-> "queued"],
                                               ![d][th] = IF o \in Detached THEN @ ELSE "waiting"]
                         /\ UNCHANGED stack
                    ELSE /\ job' = [job EXCEPT ![c][th] = "claimed", ![d][th] = "waiting"]
                         /\ stack' = [stack EXCEPT ![th] = <<c>> \o @]
  BY <1>1 DEF CallFromOutside, CallFromClosure, InCode
<1>3. JobsOf /\ result \in [Calls -> {"none", "open", "ok", "panicked"}]
        /\ op \in [Calls -> Ops \cup {"none"}]
  BY TypeParts DEF IInv, JobsOf
<1>4. /\ JobsOf'
      /\ \A d \in Calls, h \in Threads : d # c =>
             \/ job'[d][h] = job[d][h]
             \/ job[d][h] = "running" /\ job'[d][h] = "waiting"
      /\ \A h \in Threads : /\ job[c][h] = "none"
                            /\ job'[c][h] \in {"queued", "claimed", "none"}
                            /\ o \in OnAll => job'[c][h] = "queued"
  BY <1>2, <1>3, CallPlaces
<1>5. TypeOK'
  <2>1. /\ op' \in [Calls -> Ops \cup {"none"}] /\ type' \in [Calls -> Types \cup {None}]
        /\ parent' \in [Calls -> (Calls \X Threads) \cup {<<>>}]
        /\ remaining' \in [Calls -> 0..Cardinality(Threads)]
        /\ result' \in [Calls -> {"none", "open", "ok", "panicked"}]
        /\ want' \in [Calls -> 0..Cardinality(Threads)] /\ last' \in Calls \cup {None}
        /\ UNCHANGED <<seen, state, initing>>
    BY <1>2, TypeParts DEF IInv, Call, workerVars
  <2> QED
    BY <1>4, <2>1 DEF IInv, TypeOK, JobsOf, Placed
<1>6. /\ \A d \in Calls : op'[d] = IF d = c THEN o ELSE op[d]
      /\ \A d \in Calls : result'[d] = IF d = c THEN "open" ELSE result[d]
      /\ \A d \in Calls : want'[d] = IF d = c THEN n ELSE want[d]
      /\ \A d \in Calls : remaining'[d] = IF d = c THEN n ELSE remaining[d]
      /\ \A d \in Calls : d # c => type'[d] = type[d]
      /\ o = "init" => type'[c] = T
      /\ result[c] = "none" /\ UNCHANGED <<seen, state, initing>>
      /\ last' = IF o \notin Mut THEN last
                 ELSE IF o = "init" /\ ~\E d \in Calls : op[d] \in Mut /\ result[d] = "open"
                      THEN c ELSE None
  BY <1>2, TypeParts DEF IInv, Call, workerVars
<1>7. BorrowInv'
  <2>1. \A d \in Calls, h \in Threads : job'[d][h] \in InClosure =>
            d # c /\ job[d][h] \in InClosure
    BY <1>4 DEF InClosure
  <2>2. \A d \in Calls, h \in Threads : job[d][h] \in InClosure => job'[d][h] \in InClosure
    BY <1>4 DEF InClosure
  <2>3. \A h \in Threads : initing'[h] # None =>
            \E d \in Calls : op'[d] \in Mut \ {"clear"} /\ job'[d][h] \in InClosure
    BY <1>4, <1>6, <2>2 DEF IInv, BorrowInv, InClosure
  <2> QED
    BY <1>6, <2>1, <2>3 DEF IInv, BorrowInv
<1>8. BudgetInv'
  <2> SUFFICES ASSUME NEW d \in Calls
               PROVE  /\ \A th \in Threads : job'[d][th] \in {"claiming", "skipped"} =>
                             /\ op'[d] = "broadcast" /\ want'[d] < Cardinality(Threads)
                             /\ job'[d][th] = "claiming" => remaining'[d] <= seen'[d][th]
                             /\ job'[d][th] = "skipped" => remaining'[d] = 0
                      /\ op'[d] = "broadcast" =>
                             IF want'[d] < Cardinality(Threads)
                             THEN remaining'[d] + Cardinality(Taken(d)') = want'[d]
                             ELSE remaining'[d] = Cardinality(Threads)
    BY DEF BudgetInv
  <2>1. CASE d = c
    <3>1. \A th \in Threads : job'[d][th] \notin {"claiming", "skipped"}
      BY <1>4, <2>1
    <3>2. o = "broadcast" => Taken(d)' = {}
      BY <1>4, <2>1 DEF Taken, Shares, InClosure, OnAll
    <3>3. Cardinality({}) = 0 /\ Cardinality(Threads) \in Nat
      BY FS_EmptySet, FS_CardinalityType, ThreadsAssumption
    <3> QED
      <4>1. o = "broadcast" => Cardinality(Taken(d)') = 0
        BY <3>2, <3>3
      <4>2. n \in Nat /\ n <= Cardinality(Threads) /\ n + 0 = n
        BY <3>3
      <4>3. op'[d] = o /\ want'[d] = n /\ remaining'[d] = n
        BY <1>6, <2>1
      <4> QED
        BY <3>1, <3>3, <4>1, <4>2, <4>3
  <2>2. CASE d # c
    <3>1. Taken(d)' = Taken(d)
      BY <1>4, <2>2 DEF Taken, Shares, InClosure
    <3>2. \A th \in Threads : job'[d][th] \in {"claiming", "skipped"} => job'[d][th] = job[d][th]
      BY <1>4, <2>2
    <3> QED
      BY <1>6, <2>2, <3>1, <3>2 DEF IInv, BudgetInv
  <2> QED
    BY <2>1, <2>2
<1>9. LastInv'
  <2>1. CASE o \notin Mut
    <3>1. last' = last /\ (last # None => last # c /\ last \in Calls)
      BY <1>6, <2>1, TypeParts DEF IInv, LastInv
    <3>2. \A h \in Threads : last # None /\ job'[last][h] = "ran" <=> last # None /\ job[last][h] = "ran"
      BY <1>4, <3>1
    <3> QED
      BY <1>6, <2>1, <3>1, <3>2 DEF IInv, LastInv
  <2>2. CASE o \in Mut /\ last' = c
    <3>1. CASE last' = None
      BY <3>1 DEF LastInv
    <3>2. CASE last' # None
      <4>1. o = "init" /\ ~\E d \in Calls : op[d] \in Mut /\ result[d] = "open"
        BY <1>6, <2>2, <3>2
      <4>2. \A h \in Threads : initing[h] = None
        BY <1>3, <4>1, TopIsOpen DEF IInv, BorrowInv, InClosure, Open, Active
      <4>3. \A h \in Threads : job'[c][h] # "ran"
        BY <1>4
      <4> QED
        BY <1>6, <2>2, <4>1, <4>2, <4>3 DEF LastInv
    <3> QED
      BY <3>1, <3>2
  <2>3. CASE o \in Mut /\ last' # c
    BY <1>6, <2>3 DEF LastInv
  <2> QED
    BY <2>1, <2>2, <2>3
<1> QED
  BY <1>4, <1>5, <1>7, <1>8, <1>9 DEF IInv, JobsOf

LEMMA ReturnInv ==
    ASSUME IInv, NEW c \in Calls, Return(c)
    PROVE  IInv'
<1>1. /\ result' \in [Calls -> {"none", "open", "ok", "panicked"}]
      /\ result[c] = "open" /\ result'[c] \in {"ok", "panicked"}
      /\ result'[c] = "ok" => \A th \in Threads : job[c][th] \notin {"refused", "panicked"}
      /\ \A d \in Calls : d # c => result'[d] = result[d]
      /\ \A th \in Threads : job[c][th] \in Ended \cup {"none"}
      /\ UNCHANGED <<op, type, parent, remaining, job, seen, stack, state, initing, want, last>>
  BY DEF Return, Done, Jobs, callVars, workerVars, history, IInv, TypeOK
<1>2. TypeOK'
  BY <1>1 DEF IInv, TypeOK
<1>3. StackInv' /\ BorrowInv' /\ BudgetInv'
  <2>1. StackInv'
    BY <1>1 DEF IInv, StackInv
  <2>2. BorrowInv'
    BY <1>1 DEF IInv, BorrowInv
  <2>3. BudgetInv'
    BY <1>1, BudgetKept DEF IInv
  <2> QED
    BY <2>1, <2>2, <2>3
<1>4. JobsInv'
  BY <1>1, Places DEF IInv, JobsInv
<1>5. LastInv'
  BY <1>1, LastKept DEF IInv, TypeOK
<1> QED
  BY <1>2, <1>3, <1>4, <1>5 DEF IInv

LEMMA BeginInv ==
    ASSUME IInv, NEW c \in Calls, NEW th \in Threads, Begin(c, th)
    PROVE  IInv'
<1> DEFINE p == IF op[c] \in OnAll /\ Budgeted(c) THEN "claiming" ELSE "claimed"
<1>1. JobsOf /\ result \in [Calls -> {"none", "open", "ok", "panicked"}]
  BY TypeParts DEF IInv, JobsOf
<1>2. JobsOf' /\ result[c] = "open"
  BY <1>1, BeginPlaces
<1>3. /\ \A d \in Calls, h \in Threads :
            job'[d][h] = IF d # c THEN job[d][h]
                         ELSE IF h = th THEN p
                         ELSE IF op[c] \in OnAll THEN job[d][h] ELSE "none"
      /\ \A d \in Calls, h \in Threads :
            seen'[d][h] = IF d = c /\ h = th THEN remaining[c] ELSE seen[d][h]
      /\ seen' \in [Calls -> [Threads -> 0..Cardinality(Threads)]]
      /\ UNCHANGED <<op, type, parent, remaining, result, state, initing, want, last>>
      /\ job[c][th] = "queued"
  BY <1>1 DEF Begin, JobsOf, Placed, IInv, TypeOK, callVars, workerVars, history
<1>4. p \in {"claiming", "claimed"}
  OBVIOUS
<1>5. TypeOK'
  BY <1>2, <1>3 DEF IInv, TypeOK, JobsOf, Placed
<1>6. BorrowInv'
  <2>1. \A d \in Calls, h \in Threads : job'[d][h] \in InClosure <=> job[d][h] \in InClosure
    <3>1. \A h \in Threads : op[c] \notin OnAll => job[c][h] = "queued"
      BY <1>3 DEF IInv, JobsInv
    <3> HIDE DEF p
    <3> QED
      BY <1>3, <1>4, <3>1 DEF InClosure
  <2> QED
    BY <1>3, <2>1, BorrowKept DEF IInv
<1>7. BudgetInv'
  <2>1. op[c] = "broadcast" => (Budgeted(c) <=> want[c] < Cardinality(Threads))
    <3>1. Cardinality(Threads) \in Nat /\ Cardinality(Taken(c)) \in Nat
      BY FS_CardinalityType, FS_Subset, ThreadsAssumption DEF Taken
    <3> QED
      BY <3>1 DEF Budgeted, IInv, BudgetInv, TypeOK
  <2> SUFFICES ASSUME NEW d \in Calls
               PROVE  /\ \A h \in Threads : job'[d][h] \in {"claiming", "skipped"} =>
                             /\ op'[d] = "broadcast" /\ want'[d] < Cardinality(Threads)
                             /\ job'[d][h] = "claiming" => remaining'[d] <= seen'[d][h]
                             /\ job'[d][h] = "skipped" => remaining'[d] = 0
                      /\ op'[d] = "broadcast" =>
                             IF want'[d] < Cardinality(Threads)
                             THEN remaining'[d] + Cardinality(Taken(d)') = want'[d]
                             ELSE remaining'[d] = Cardinality(Threads)
    BY DEF BudgetInv
  <2>2. CASE d # c
    <3>1. Taken(d)' = Taken(d)
      BY <1>3, <2>2 DEF Taken
    <3> QED
      BY <1>3, <2>2, <3>1 DEF IInv, BudgetInv
  <2>3. CASE d = c
    <3>1. ASSUME NEW h \in Threads, job'[c][h] \in {"claiming", "skipped"}
          PROVE  /\ op[c] = "broadcast" /\ want[c] < Cardinality(Threads)
                 /\ job'[c][h] = "claiming" => remaining[c] <= seen'[c][h]
                 /\ job'[c][h] = "skipped" => remaining[c] = 0
      <4>1. CASE h = th
        <5>1. Budgeted(c) /\ op[c] = "broadcast" /\ job'[c][h] = "claiming"
          BY <1>3, <3>1, <4>1 DEF Budgeted
        <5>2. remaining[c] \in Int
          BY DEF IInv, TypeOK
        <5> QED
          BY <1>3, <2>1, <4>1, <5>1, <5>2
      <4>2. CASE h # th
        BY <1>3, <3>1, <4>2 DEF IInv, BudgetInv
      <4> QED
        BY <4>1, <4>2
    <3>2. CASE op[c] = "broadcast" /\ want[c] < Cardinality(Threads)
      <4>1. p = "claiming" /\ op[c] \in OnAll
        BY <2>1, <3>2 DEF OnAll
      <4>2. \A h \in Threads : job'[c][h] \in Shares <=> job[c][h] \in Shares
        BY <1>3, <4>1 DEF Shares, InClosure
      <4>3. Taken(c)' = Taken(c)
        BY <4>2 DEF Taken
      <4> QED
        BY <1>3, <2>3, <3>1, <3>2, <4>3 DEF IInv, BudgetInv
    <3>3. CASE ~(op[c] = "broadcast" /\ want[c] < Cardinality(Threads))
      BY <1>3, <2>3, <3>1, <3>3 DEF IInv, BudgetInv
    <3> QED
      BY <3>2, <3>3
  <2> QED
    BY <2>2, <2>3
<1>8. LastInv'
  <2> HIDE DEF p
  <2>1. last \in Calls \cup {None}
    BY DEF IInv, TypeOK
  <2>2. \A h \in Threads : last # None /\ job'[last][h] = "ran" => job[last][h] = "ran"
    BY <1>3, <1>4, <2>1
  <2> QED
    BY <1>3, <2>1, <2>2, LastKept DEF IInv
<1> QED
  BY <1>2, <1>5, <1>6, <1>7, <1>8 DEF IInv, JobsOf

\* A closure that moves between running and waiting, or a thread that is refused
\* its worker, or ends a closure that is not an init: no worker changes.
LEMMA MoveInv ==
    ASSUME IInv, NEW c \in Calls, NEW th \in Threads, NEW p \in Active \cup Ended,
           job[c][th] \in Active,
           job' = [job EXCEPT ![c][th] = p],
           \/ p \in Active /\ stack' = stack
           \/ p \in Ended /\ OnTop(c, th) /\ stack' = [stack EXCEPT ![th] = Tail(@)],
           UNCHANGED <<callVars, result, history, seen>>,
           remaining' \in [Calls -> 0..Cardinality(Threads)],
           BorrowInv', BudgetInv',
           state' \in [Threads -> Types \cup {None}], initing' \in [Threads -> Types \cup {None}],
           \A h \in Threads : initing'[h] # None => state'[h] = None,
           \/ UNCHANGED workerVars /\ (p = "ran" /\ last # None => c # last)
           \/ LastInv'
    PROVE  IInv'
<1>1. JobsOf /\ result \in [Calls -> {"none", "open", "ok", "panicked"}]
  BY TypeParts DEF IInv, JobsOf
<1>2. JobsOf'
  BY <1>1, OneJobMoves DEF callVars
<1>3. UNCHANGED <<op, type, parent, result, seen, want, last>>
  BY DEF callVars, history
<1>4. TypeOK'
  BY <1>2, <1>3 DEF IInv, TypeOK, JobsOf, Placed
<1>5. LastInv'
  <2>1. CASE UNCHANGED workerVars /\ (p = "ran" /\ last # None => c # last)
    <3>1. last \in Calls \cup {None}
      BY DEF IInv, TypeOK
    <3>2. \A h \in Threads : last # None /\ job'[last][h] = "ran" => job[last][h] = "ran"
      BY <1>1, <2>1, <3>1 DEF JobsOf, Placed
    <3> QED
      BY <1>3, <2>1, <3>1, <3>2, LastKept DEF IInv, workerVars
  <2> QED
    BY <2>1
<1> QED
  BY <1>2, <1>4, <1>5 DEF IInv, JobsOf

\* A step inside a closure that changes its worker, but no job.
LEMMA WorkInv ==
    ASSUME IInv,
           UNCHANGED <<callVars, remaining, result, job, seen, stack, history>>,
           state' \in [Threads -> Types \cup {None}], initing' \in [Threads -> Types \cup {None}],
           \A h \in Threads : initing'[h] # None => state'[h] = None,
           BorrowInv', LastInv'
    PROVE  IInv'
<1>1. UNCHANGED <<op, type, parent, remaining, result, job, seen, stack, want, last>>
  BY DEF callVars, history
<1>2. TypeOK'
  BY <1>1 DEF IInv, TypeOK
<1>3. StackInv' /\ JobsInv'
  BY <1>1 DEF IInv, StackInv, JobsInv
<1>4. BudgetInv'
  BY <1>1, BudgetKept DEF IInv
<1> QED
  BY <1>2, <1>3, <1>4 DEF IInv

LEMMA JobTyped ==
    IInv => job \in [Calls -> [Threads -> Active \cup Ended \cup {"none", "queued"}]]
BY DEF IInv, TypeOK

LEMMA Typed ==
    IInv => /\ remaining \in [Calls -> 0..Cardinality(Threads)]
            /\ state \in [Threads -> Types \cup {None}]
            /\ initing \in [Threads -> Types \cup {None}]
            /\ \A h \in Threads : initing[h] # None => state[h] = None
BY DEF IInv, TypeOK

LEMMA FindNoneInv ==
    ASSUME IInv, NEW c \in Calls, NEW th \in Threads, FindNone(c, th)
    PROVE  IInv'
<1>1. /\ job[c][th] = "claiming" /\ OnTop(c, th) /\ seen[c][th] = 0
      /\ job' = [job EXCEPT ![c][th] = "skipped"]
      /\ stack' = [stack EXCEPT ![th] = Tail(@)]
      /\ UNCHANGED <<callVars, remaining, result, seen, workerVars, history>>
  BY DEF FindNone, In, Ends
<1>2. \A d \in Calls, h \in Threads :
          job'[d][h] = IF d = c /\ h = th THEN "skipped" ELSE job[d][h]
  BY <1>1, JobTyped
<1>3. UNCHANGED <<op, want, remaining, seen, state, initing>>
  BY <1>1 DEF callVars, workerVars, history
<1>4. BudgetInv'
  <2>1. \A d \in Calls : Taken(d)' = Taken(d)
    BY <1>1, <1>2 DEF Taken, Shares, InClosure
  <2>2. remaining[c] = 0 /\ op[c] = "broadcast" /\ want[c] < Cardinality(Threads)
    BY <1>1, FS_CardinalityType, ThreadsAssumption DEF IInv, BudgetInv, TypeOK
  <2> QED
    BY <1>2, <1>3, <2>1, <2>2 DEF IInv, BudgetInv
<1>5. BorrowInv'
  BY <1>1, <1>2, <1>3, BorrowKept DEF IInv, InClosure
<1> QED
  BY <1>1, <1>3, <1>4, <1>5, Typed, MoveInv DEF Active, Ended

LEMMA ClaimInv ==
    ASSUME IInv, NEW c \in Calls, NEW th \in Threads, Claim(c, th)
    PROVE  IInv'
<1>1. /\ job[c][th] = "claiming" /\ seen[c][th] > 0 /\ remaining[c] = seen[c][th]
      /\ job' = [job EXCEPT ![c][th] = "claimed"]
      /\ remaining' = [remaining EXCEPT ![c] = remaining[c] - 1]
      /\ UNCHANGED <<callVars, result, seen, stack, workerVars, history>>
  BY DEF Claim, In
<1>2. \A d \in Calls, h \in Threads :
          job'[d][h] = IF d = c /\ h = th THEN "claimed" ELSE job[d][h]
  BY <1>1, JobTyped
<1>3. UNCHANGED <<op, want, seen, state, initing>>
  BY <1>1 DEF callVars, workerVars, history
<1>4. /\ Cardinality(Threads) \in Nat /\ remaining \in [Calls -> 0..Cardinality(Threads)]
      /\ remaining[c] > 0 /\ seen \in [Calls -> [Threads -> 0..Cardinality(Threads)]]
  BY <1>1, FS_CardinalityType, ThreadsAssumption DEF IInv, TypeOK
<1>5. /\ remaining' \in [Calls -> 0..Cardinality(Threads)]
      /\ \A d \in Calls : remaining'[d] = IF d = c THEN remaining[c] - 1 ELSE remaining[d]
  BY <1>1, <1>4
<1>6. BudgetInv'
  <2>1. \A d \in Calls : d # c => Taken(d)' = Taken(d)
    BY <1>2 DEF Taken
  <2>2. Taken(c)' = Taken(c) \cup {th} /\ th \notin Taken(c)
    BY <1>1, <1>2 DEF Taken, Shares, InClosure
  <2>3. IsFiniteSet(Taken(c)) /\ Cardinality(Taken(c)) \in Nat
    BY FS_Subset, FS_CardinalityType, ThreadsAssumption DEF Taken
  <2>4. Cardinality(Taken(c)') = Cardinality(Taken(c)) + 1
    BY <2>2, <2>3, FS_AddElement
  <2>5. /\ op[c] = "broadcast" /\ want[c] < Cardinality(Threads)
        /\ remaining[c] + Cardinality(Taken(c)) = want[c]
    BY <1>1 DEF IInv, BudgetInv
  <2>6. remaining'[c] + Cardinality(Taken(c)') = want[c]
    BY <1>4, <1>5, <2>3, <2>4, <2>5
  <2>7. ASSUME NEW d \in Calls, NEW h \in Threads, job'[d][h] \in {"claiming", "skipped"}
        PROVE  /\ op[d] = "broadcast" /\ want[d] < Cardinality(Threads)
               /\ job'[d][h] = "claiming" => remaining'[d] <= seen[d][h]
               /\ job'[d][h] = "skipped" => remaining'[d] = 0
    <3>1. job'[d][h] = job[d][h]
      BY <1>2, <2>7
    <3>2. /\ op[d] = "broadcast" /\ want[d] < Cardinality(Threads)
          /\ job[d][h] = "claiming" => remaining[d] <= seen[d][h]
          /\ job[d][h] = "skipped" => remaining[d] = 0
      BY <2>7, <3>1 DEF IInv, BudgetInv
    <3>3. remaining[d] \in Int /\ seen[d][h] \in Int
      BY <1>4
    <3> QED
      BY <1>4, <1>5, <3>1, <3>2, <3>3
  <2>8. \A d \in Calls : op[d] = "broadcast" =>
            IF want[d] < Cardinality(Threads)
            THEN remaining'[d] + Cardinality(Taken(d)') = want[d]
            ELSE remaining'[d] = Cardinality(Threads)
    BY <1>5, <2>1, <2>5, <2>6 DEF IInv, BudgetInv
  <2> QED
    BY <1>3, <2>7, <2>8 DEF BudgetInv
<1>7. BorrowInv'
  BY <1>1, <1>2, <1>3, BorrowKept DEF IInv, InClosure
<1> QED
  BY <1>1, <1>3, <1>5, <1>6, <1>7, Typed, MoveInv DEF Active, Ended

LEMMA ClaimFailsInv ==
    ASSUME IInv, NEW c \in Calls, NEW th \in Threads, ClaimFails(c, th)
    PROVE  IInv'
<1>1. /\ \A d \in Calls, h \in Threads :
            seen'[d][h] = IF d = c /\ h = th THEN remaining[c] ELSE seen[d][h]
      /\ seen' \in [Calls -> [Threads -> 0..Cardinality(Threads)]]
      /\ UNCHANGED <<op, type, parent, remaining, result, job, stack, state, initing, want, last>>
  BY DEF ClaimFails, IInv, TypeOK, callVars, workerVars, history
<1>2. TypeOK' /\ StackInv' /\ JobsInv' /\ BorrowInv' /\ LastInv'
  <2>1. TypeOK'
    BY <1>1 DEF IInv, TypeOK
  <2>2. StackInv' /\ JobsInv'
    BY <1>1 DEF IInv, StackInv, JobsInv
  <2>3. BorrowInv' /\ LastInv'
    BY <1>1 DEF IInv, BorrowInv, LastInv
  <2> QED
    BY <2>1, <2>2, <2>3
<1>3. BudgetInv'
  <2>1. \A d \in Calls : Taken(d)' = Taken(d) /\ remaining[d] \in Int
    BY <1>1, FS_CardinalityType, ThreadsAssumption DEF Taken, IInv, TypeOK
  <2> QED
    BY <1>1, <2>1 DEF IInv, BudgetInv
<1> QED
  BY <1>2, <1>3 DEF IInv

LEMMA BorrowInvStep ==
    ASSUME IInv, NEW c \in Calls, NEW th \in Threads, Borrow(c, th)
    PROVE  IInv'
<1> DEFINE inTheWay == \/ op[c] \in Mut /\ Borrows(Mut \cup Shared, th)
                       \/ op[c] \in Shared /\ Borrows(Mut, th)
<1>1. /\ job[c][th] = "claimed" /\ OnTop(c, th)
      /\ UNCHANGED <<callVars, remaining, result, seen, workerVars, history>>
      /\ IF inTheWay THEN Ends(c, th, "refused")
         ELSE job' = [job EXCEPT ![c][th] = "running"] /\ UNCHANGED stack
  BY DEF Borrow, In
<1>2. UNCHANGED <<op, want, remaining, seen, state, initing>>
  BY <1>1 DEF callVars, workerVars, history
<1>3. CASE inTheWay
  <2>1. job' = [job EXCEPT ![c][th] = "refused"] /\ stack' = [stack EXCEPT ![th] = Tail(@)]
    BY <1>1, <1>3 DEF Ends
  <2>2. \A d \in Calls, h \in Threads :
            job'[d][h] = IF d = c /\ h = th THEN "refused" ELSE job[d][h]
    BY <2>1, JobTyped
  <2>3. BudgetInv'
    BY <1>1, <1>2, <2>2, BudgetKept DEF IInv, Shares
  <2>4. BorrowInv'
    BY <1>1, <1>2, <2>2, BorrowKept DEF IInv, InClosure
  <2> QED
    BY <1>1, <1>2, <2>1, <2>3, <2>4, Typed, MoveInv DEF Active, Ended
<1>4. CASE ~inTheWay
  <2>1. job' = [job EXCEPT ![c][th] = "running"] /\ stack' = stack
    BY <1>1, <1>4
  <2>2. \A d \in Calls, h \in Threads :
            job'[d][h] = IF d = c /\ h = th THEN "running" ELSE job[d][h]
    BY <2>1, JobTyped
  <2>3. BudgetInv'
    BY <1>1, <1>2, <2>2, BudgetKept DEF IInv, Shares, InClosure
  <2>4. BorrowInv'
    <3>1. \A d \in Calls, h \in Threads : job[d][h] \in InClosure => job'[d][h] \in InClosure
      BY <2>2 DEF InClosure
    <3>2. \A d \in Calls, h \in Threads : job'[d][h] \in InClosure =>
              job[d][h] \in InClosure \/ (d = c /\ h = th)
      BY <2>2
    <3>3. \A d \in Calls : job[d][th] \in InClosure =>
              /\ op[c] \in Mut => op[d] \notin Mut \cup Shared
              /\ op[c] \in Mut \cup Shared => op[d] \notin Mut
      BY <1>4 DEF Borrows, InClosure
    <3>4. ASSUME NEW d \in Calls, NEW e \in Calls, NEW h \in Threads,
                 op[d] \in Mut, job'[d][h] \in InClosure,
                 op[e] \in Mut \cup Shared, job'[e][h] \in InClosure
          PROVE  d = e
      BY <3>2, <3>3, <3>4 DEF IInv, BorrowInv
    <3>5. \A h \in Threads : initing'[h] # None =>
              \E d \in Calls : op'[d] \in Mut \ {"clear"} /\ job'[d][h] \in InClosure
      BY <1>2, <3>1 DEF IInv, BorrowInv
    <3> QED
      BY <1>2, <3>4, <3>5 DEF BorrowInv
  <2> QED
    BY <1>1, <1>2, <2>1, <2>3, <2>4, Typed, MoveInv DEF Active, Ended
<1> QED
  BY <1>3, <1>4

LEMMA PauseInv ==
    ASSUME IInv, NEW c \in Calls, NEW th \in Threads, Yield(c, th) \/ Resume(c, th)
    PROVE  IInv'
<1>1. PICK p \in InClosure :
        /\ job[c][th] \in InClosure
        /\ job' = [job EXCEPT ![c][th] = p]
        /\ UNCHANGED <<callVars, remaining, result, seen, stack, workerVars, history>>
  BY DEF Yield, Resume, In, InClosure, InCode
<1>2. \A d \in Calls, h \in Threads :
          job'[d][h] = IF d = c /\ h = th THEN p ELSE job[d][h]
  BY <1>1, JobTyped
<1>3. UNCHANGED <<op, want, remaining, seen, state, initing>>
  BY <1>1 DEF callVars, workerVars, history
<1>4. BudgetInv'
  BY <1>1, <1>2, <1>3, BudgetKept DEF IInv, Shares
<1>5. BorrowInv'
  BY <1>1, <1>2, <1>3, BorrowKept DEF IInv
<1>6. p \in Active /\ job[c][th] \in Active /\ p # "ran"
  BY <1>1 DEF InClosure, Active
<1> QED
  BY <1>1, <1>3, <1>4, <1>5, <1>6, Typed, MoveInv

LEMMA ClosureEndsInv ==
    ASSUME IInv, NEW c \in Calls, NEW th \in Threads, ClosureEnds(c, th)
    PROVE  IInv'
<1>1. /\ job[c][th] = "running" /\ OnTop(c, th) /\ op[c] # "init"
      /\ op[c] \in Mut => initing[th] = None
      /\ job' = [job EXCEPT ![c][th] = "ran"]
      /\ stack' = [stack EXCEPT ![th] = Tail(@)]
      /\ UNCHANGED <<callVars, remaining, result, seen, workerVars, history>>
  BY DEF ClosureEnds, In, Ends
<1>2. \A d \in Calls, h \in Threads :
          job'[d][h] = IF d = c /\ h = th THEN "ran" ELSE job[d][h]
  BY <1>1, JobTyped
<1>3. UNCHANGED <<op, want, remaining, seen, state, initing>>
  BY <1>1 DEF callVars, workerVars, history
<1>4. BudgetInv'
  BY <1>1, <1>2, <1>3, BudgetKept DEF IInv, Shares, InClosure
<1>5. BorrowInv'
  <2>1. \A d \in Calls, h \in Threads : job'[d][h] \in InClosure => job[d][h] \in InClosure
    BY <1>2 DEF InClosure
  <2>2. \A h \in Threads : initing'[h] # None =>
            /\ initing[h] # None
            /\ \A d \in Calls : job[d][h] \in InClosure /\ op[d] \in Mut
                                    => job'[d][h] \in InClosure
    BY <1>1, <1>2, <1>3
  <2> QED
    BY <1>3, <2>1, <2>2, BorrowKept DEF IInv
<1>6. last # None => c # last
  BY <1>1 DEF IInv, LastInv
<1> QED
  BY <1>1, <1>3, <1>4, <1>5, <1>6, Typed, MoveInv DEF Active, Ended

LEMMA ClosurePanicsInv ==
    ASSUME IInv, NEW c \in Calls, NEW th \in Threads, ClosurePanics(c, th)
    PROVE  IInv'
<1>1. /\ job[c][th] = "running" /\ OnTop(c, th)
      /\ job' = [job EXCEPT ![c][th] = "panicked"]
      /\ stack' = [stack EXCEPT ![th] = Tail(@)]
      /\ initing' = IF op[c] \in Mut THEN [initing EXCEPT ![th] = None] ELSE initing
      /\ UNCHANGED <<callVars, remaining, result, seen, state, history>>
  BY DEF ClosurePanics, In, Ends, InCode
<1>2. \A d \in Calls, h \in Threads :
          job'[d][h] = IF d = c /\ h = th THEN "panicked" ELSE job[d][h]
  BY <1>1, JobTyped
<1>3. UNCHANGED <<op, type, want, remaining, result, seen, state, last>>
  BY <1>1 DEF callVars, history
<1>4. /\ initing' \in [Threads -> Types \cup {None}]
      /\ \A h \in Threads : initing'[h] = IF op[c] \in Mut /\ h = th THEN None ELSE initing[h]
  BY <1>1 DEF IInv, TypeOK
<1>5. BudgetInv'
  BY <1>1, <1>2, <1>3, BudgetKept DEF IInv, Shares, InClosure
<1>6. BorrowInv'
  <2>1. \A d \in Calls, h \in Threads : job'[d][h] \in InClosure => job[d][h] \in InClosure
    BY <1>2 DEF InClosure
  <2>2. \A h \in Threads : initing'[h] # None =>
            /\ initing[h] # None
            /\ \A d \in Calls : job[d][h] \in InClosure /\ op[d] \in Mut
                                    => job'[d][h] \in InClosure
    BY <1>2, <1>4
  <2> QED
    BY <1>3, <2>1, <2>2, BorrowKept DEF IInv
<1>7. LastInv'
  BY <1>2, <1>3, <1>4 DEF IInv, LastInv, TypeOK
<1>8. /\ \A h \in Threads : initing'[h] # None => state'[h] = None
      /\ state' \in [Threads -> Types \cup {None}]
      /\ remaining' \in [Calls -> 0..Cardinality(Threads)]
  BY <1>3, <1>4 DEF IInv, TypeOK
<1> QED
  BY <1>1, <1>4, <1>5, <1>6, <1>7, <1>8, MoveInv DEF Active, Ended

LEMMA InitBeginsInv ==
    ASSUME IInv, NEW c \in Calls, NEW th \in Threads, NEW T \in Types, InitBegins(c, th, T)
    PROVE  IInv'
<1>1. /\ job[c][th] = "running" /\ op[c] \in Mut \ {"clear"}
      /\ op[c] = "init" => T = type[c]
      /\ UNCHANGED <<callVars, remaining, result, job, seen, stack, history>>
  BY DEF InitBegins, In
<1>2. /\ initing' \in [Threads -> Types \cup {None}]
      /\ state' \in [Threads -> Types \cup {None}]
      /\ \A h \in Threads : initing'[h] = IF h = th THEN T ELSE initing[h]
      /\ \A h \in Threads : state'[h] = IF h = th THEN None ELSE state[h]
  BY DEF InitBegins, IInv, TypeOK
<1>3. UNCHANGED <<op, type, result, job, last>>
  BY <1>1 DEF callVars, history
<1>4. BorrowInv'
  BY <1>1, <1>2, <1>3 DEF IInv, BorrowInv, InClosure
<1>5. LastInv'
  <2>1. last # None => c = last
    BY <1>1, OwnerIsLast DEF InClosure
  <2> QED
    BY <1>1, <1>2, <1>3, <2>1 DEF IInv, LastInv
<1>6. \A h \in Threads : initing'[h] # None => state'[h] = None
  BY <1>2 DEF IInv, TypeOK
<1> QED
  BY <1>1, <1>2, <1>4, <1>5, <1>6, WorkInv

LEMMA InitEndsInv ==
    ASSUME IInv, NEW c \in Calls, NEW th \in Threads, InitEnds(c, th)
    PROVE  IInv'
<1>1. /\ job[c][th] = "running" /\ OnTop(c, th) /\ op[c] \in Mut /\ initing[th] # None
      /\ IF op[c] = "init" THEN Ends(c, th, "ran") ELSE UNCHANGED <<job, stack>>
      /\ UNCHANGED <<callVars, remaining, result, seen, history>>
  BY DEF InitEnds, In
<1>2. /\ initing' \in [Threads -> Types \cup {None}]
      /\ state' \in [Threads -> Types \cup {None}]
      /\ \A h \in Threads : initing'[h] = IF h = th THEN None ELSE initing[h]
      /\ \A h \in Threads : state'[h] = IF h = th THEN initing[th] ELSE state[h]
  BY DEF InitEnds, IInv, TypeOK
<1>3. UNCHANGED <<op, type, result, want, remaining, seen, last>>
  BY <1>1 DEF callVars, history
<1>4. last # None => c = last /\ initing[th] = type[last]
  BY <1>1, OwnerIsLast DEF IInv, LastInv, InClosure
<1>5. \A h \in Threads : initing'[h] # None => state'[h] = None
  BY <1>2 DEF IInv, TypeOK
<1>6. CASE op[c] = "init"
  <2>1. job' = [job EXCEPT ![c][th] = "ran"] /\ stack' = [stack EXCEPT ![th] = Tail(@)]
    BY <1>1, <1>6 DEF Ends
  <2>2. \A d \in Calls, h \in Threads :
            job'[d][h] = IF d = c /\ h = th THEN "ran" ELSE job[d][h]
    BY <2>1, JobTyped
  <2>3. BudgetInv'
    BY <1>1, <1>3, <2>2, BudgetKept DEF IInv, Shares, InClosure
  <2>4. BorrowInv'
    <3>1. \A d \in Calls, h \in Threads : job'[d][h] \in InClosure => job[d][h] \in InClosure
      BY <2>2 DEF InClosure
    <3>2. \A h \in Threads : initing'[h] # None =>
              /\ initing[h] # None
              /\ \A d \in Calls : job[d][h] \in InClosure /\ op[d] \in Mut
                                      => job'[d][h] \in InClosure
      BY <1>2, <2>2
    <3> QED
      BY <1>3, <3>1, <3>2, BorrowKept DEF IInv
  <2>5. LastInv'
    <3>1. last \in Calls \cup {None}
      BY DEF IInv, TypeOK
    <3>2. last # None => \A h \in Threads :
              job'[last][h] = IF h = th THEN "ran" ELSE job[last][h]
      BY <1>4, <2>2, <3>1
    <3> QED
      BY <1>2, <1>3, <1>4, <3>2 DEF IInv, LastInv
  <2> QED
    BY <1>1, <1>2, <1>3, <1>5, <2>1, <2>3, <2>4, <2>5, Typed, MoveInv DEF Active, Ended
<1>7. CASE op[c] # "init"
  <2>1. UNCHANGED <<job, stack>> /\ last = None
    BY <1>1, <1>4, <1>7 DEF IInv, LastInv
  <2>2. BorrowInv' /\ LastInv'
    BY <1>2, <1>3, <2>1 DEF IInv, BorrowInv, LastInv
  <2> QED
    BY <1>1, <1>2, <1>5, <2>1, <2>2, WorkInv
<1> QED
  BY <1>6, <1>7

LEMMA GetOrInitInv ==
    ASSUME IInv, NEW c \in Calls, NEW th \in Threads, NEW T \in Types, GetOrInit(c, th, T)
    PROVE  IInv'
<1>1. /\ job[c][th] = "running" /\ op[c] \in Mut /\ op[c] # "init" /\ initing[th] = None
      /\ UNCHANGED <<callVars, remaining, result, job, seen, stack, initing, history>>
      /\ UNCHANGED <<op, job, last>>
  BY DEF GetOrInit, In, Mut, OnAll, callVars, history
<1>2. /\ state' \in [Threads -> Types \cup {None}]
      /\ \A h \in Threads : state'[h] = IF h = th THEN T ELSE state[h]
  BY DEF GetOrInit, IInv, TypeOK
<1>3. last = None
  BY <1>1, OwnerIsLast DEF IInv, LastInv, InClosure
<1>4. BorrowInv' /\ LastInv'
  BY <1>1, <1>3 DEF IInv, BorrowInv, LastInv
<1> QED
  BY <1>1, <1>2, <1>4, Typed, WorkInv

LEMMA ClearStateInv ==
    ASSUME IInv, NEW c \in Calls, NEW th \in Threads, ClearState(c, th)
    PROVE  IInv'
<1>1. /\ job[c][th] = "running" /\ OnTop(c, th) /\ op[c] \in Mut \ {"init"}
      /\ initing[th] = None
      /\ IF op[c] = "clear" THEN Ends(c, th, "ran") ELSE UNCHANGED <<job, stack>>
      /\ UNCHANGED <<callVars, remaining, result, seen, initing, history>>
  BY DEF ClearState, In
<1>2. /\ state' \in [Threads -> Types \cup {None}]
      /\ \A h \in Threads : state'[h] = IF h = th THEN None ELSE state[h]
  BY DEF ClearState, IInv, TypeOK
<1>3. UNCHANGED <<op, want, remaining, seen, initing, last>>
  BY <1>1 DEF callVars, history
<1>4. last = None
  BY <1>1, OwnerIsLast DEF IInv, LastInv, InClosure
<1>5. LastInv'
  BY <1>3, <1>4 DEF LastInv
<1>6. \A h \in Threads : initing'[h] # None => state'[h] = None
  BY <1>2, <1>3 DEF IInv, TypeOK
<1>7. CASE op[c] = "clear"
  <2>1. job' = [job EXCEPT ![c][th] = "ran"] /\ stack' = [stack EXCEPT ![th] = Tail(@)]
    BY <1>1, <1>7 DEF Ends
  <2>2. \A d \in Calls, h \in Threads :
            job'[d][h] = IF d = c /\ h = th THEN "ran" ELSE job[d][h]
    BY <2>1, JobTyped
  <2>3. BudgetInv'
    BY <1>1, <1>3, <2>2, BudgetKept DEF IInv, Shares, InClosure
  <2>4. BorrowInv'
    <3>1. \A d \in Calls, h \in Threads : job'[d][h] \in InClosure => job[d][h] \in InClosure
      BY <2>2 DEF InClosure
    <3>2. \A h \in Threads : initing'[h] # None =>
              /\ initing[h] # None
              /\ \A d \in Calls : job[d][h] \in InClosure /\ op[d] \in Mut
                                      => job'[d][h] \in InClosure
      BY <1>1, <1>3, <2>2
    <3> QED
      BY <1>3, <3>1, <3>2, BorrowKept DEF IInv
  <2> QED
    BY <1>1, <1>2, <1>3, <1>5, <1>6, <2>1, <2>3, <2>4, Typed, MoveInv DEF Active, Ended
<1>8. CASE op[c] # "clear"
  <2>1. UNCHANGED <<job, stack>>
    BY <1>1, <1>8
  <2>2. BorrowInv'
    BY <1>3, <2>1 DEF IInv, BorrowInv
  <2> QED
    BY <1>1, <1>2, <1>3, <1>5, <1>6, <2>1, <2>2, Typed, WorkInv
<1> QED
  BY <1>7, <1>8

-------------------------------------------------------------------------------
(* The theorems.                                                           *)

LEMMA InitInv == Init => IInv
<1> SUFFICES ASSUME Init PROVE IInv
  OBVIOUS
<1>1. Cardinality(Threads) \in Nat
  BY FS_CardinalityType, ThreadsAssumption
<1>2. TypeOK
  <2>1. \A th \in Threads : stack[th] = <<>> /\ Range(stack[th]) = {}
    BY DEF Init, Range
  <2> QED
    BY <1>1, <2>1 DEF Init, TypeOK, Active, Ended
<1>3. StackInv /\ JobsInv
  BY DEF Init, StackInv, Distinct, JobsInv
<1>4. BorrowInv /\ LastInv
  BY DEF Init, BorrowInv, LastInv, InClosure
<1>5. BudgetInv
  BY DEF Init, BudgetInv
<1> QED
  BY <1>2, <1>3, <1>4, <1>5 DEF IInv

LEMMA NextInv == IInv /\ [Next]_vars => IInv'
<1> SUFFICES ASSUME IInv, [Next]_vars PROVE IInv'
  OBVIOUS
<1>1. ASSUME NEW c \in Calls, NEW th \in Threads,
             \/ PoolStep(c, th) \/ ClosureStep(c, th) \/ Claim(c, th) \/ ClaimFails(c, th)
      PROVE  IInv'
  BY <1>1, BeginInv, FindNoneInv, BorrowInvStep, PauseInv, ClaimInv, ClaimFailsInv,
     ClosureEndsInv, ClosurePanicsInv, InitBeginsInv, InitEndsInv, GetOrInitInv,
     ClearStateInv DEF PoolStep, ClosureStep, WorkerStep
<1>2. CASE UNCHANGED vars
  <2>1. UNCHANGED <<callVars, remaining, result, job, seen, stack, state, initing, history>>
    BY <1>2 DEF vars, workerVars
  <2>2. UNCHANGED <<op, type, want, last>>
    BY <2>1 DEF callVars, history
  <2>3. BorrowInv' /\ LastInv'
    BY <2>1, <2>2 DEF IInv, BorrowInv, LastInv
  <2> QED
    BY <2>1, <2>3, Typed, WorkInv
<1> QED
  BY <1>1, <1>2, CallInv, ReturnInv DEF Next

LEMMA Invariance == Spec => []IInv
BY InitInv, NextInv, PTL DEF Spec

\* Every variable has its type; the budget never wraps and the stacks are where
\* the closures are.
THEOREM TypeCorrect == Spec => []TypeOK
<1>1. IInv => TypeOK
  BY DEF IInv
<1> QED
  BY <1>1, Invariance, PTL

\* broadcast runs its closure on no more threads than it was asked for, and on
\* exactly as many when it returns.
THEOREM ExactCorrect == Spec => []ExactThreads
<1>1. IInv => ExactThreads
  <2> SUFFICES ASSUME IInv, NEW c \in Calls, op[c] = "broadcast"
               PROVE  LET Called == {th \in Threads :
                              job[c][th] \in {"running", "waiting", "ran", "panicked"}}
                      IN  /\ Cardinality(Called) <= want[c]
                          /\ result[c] = "ok" => Cardinality(Called) = want[c]
    BY DEF ExactThreads
  <2> DEFINE Called == {th \in Threads : job[c][th] \in {"running", "waiting", "ran", "panicked"}}
  <2>1. Called \subseteq Taken(c) /\ Taken(c) \subseteq Threads
    BY DEF Taken, Shares, InClosure
  <2>2. /\ IsFiniteSet(Taken(c)) /\ Cardinality(Taken(c)) <= Cardinality(Threads)
        /\ Cardinality(Called) <= Cardinality(Taken(c))
        /\ Cardinality(Called) \in Nat /\ Cardinality(Taken(c)) \in Nat
        /\ Cardinality(Threads) \in Nat
    BY <2>1, FS_Subset, FS_CardinalityType, ThreadsAssumption
  <2>3. /\ remaining[c] \in Nat /\ remaining[c] <= Cardinality(Threads)
        /\ want[c] \in Nat /\ want[c] <= Cardinality(Threads)
    BY <2>2 DEF IInv, TypeOK
  <2>4. Cardinality(Taken(c)) <= want[c]
    BY <2>2, <2>3 DEF IInv, BudgetInv
  <2>5. ASSUME result[c] = "ok"
        PROVE  Cardinality(Called) = want[c]
    <3>1. \A th \in Threads : job[c][th] \in {"ran", "skipped"}
      <4>1. \A th \in Threads : job[c][th] \notin Open \cup {"none", "refused", "panicked"}
        BY <2>5 DEF IInv, JobsInv, OnAll
      <4>2. \A th \in Threads : job[c][th] \in Active \cup Ended \cup {"none", "queued"}
        BY DEF IInv, TypeOK
      <4> QED
        BY <4>1, <4>2 DEF Open, Ended
    <3>2. Called = Taken(c)
      BY <3>1 DEF Taken, Shares, InClosure
    <3>3. CASE \E th \in Threads : job[c][th] = "skipped"
      <4>1. remaining[c] = 0 /\ want[c] < Cardinality(Threads)
        BY <3>3 DEF IInv, BudgetInv
      <4>2. remaining[c] + Cardinality(Taken(c)) = want[c]
        BY <4>1 DEF IInv, BudgetInv
      <4> HIDE DEF Called
      <4> QED
        BY <2>2, <2>3, <3>2, <4>1, <4>2
    <3>4. CASE \A th \in Threads : job[c][th] = "ran"
      <4>1. Taken(c) = Threads
        BY <3>4 DEF Taken, Shares
      <4>2. want[c] < Cardinality(Threads) =>
                remaining[c] + Cardinality(Taken(c)) = want[c]
        BY DEF IInv, BudgetInv
      <4> HIDE DEF Called
      <4> QED
        BY <2>2, <2>3, <3>2, <4>1, <4>2
    <3> QED
      BY <3>1, <3>3, <3>4
  <2> QED
    BY <2>2, <2>3, <2>4, <2>5
<1> QED
  BY <1>1, Invariance, PTL

\* When init has returned, and nothing that can change a worker came after it,
\* every thread has a state of its type.
THEOREM InitCorrect == Spec => []InitReachesAll
<1>1. IInv => InitReachesAll
  <2> SUFFICES ASSUME IInv, last # None, result[last] = "ok", NEW th \in Threads
               PROVE  state[th] = type[last]
    BY DEF InitReachesAll
  <2>1. last \in Calls /\ op[last] = "init"
    BY DEF IInv, TypeOK, LastInv
  <2>2. job[last][th] \notin Open \cup {"none", "refused", "panicked"}
    BY <2>1 DEF IInv, JobsInv, OnAll
  <2>3. job[last][th] # "skipped"
    BY <2>1 DEF IInv, BudgetInv
  <2>4. job[last][th] \in Active \cup Ended \cup {"none", "queued"}
    BY <2>1 DEF IInv, TypeOK
  <2>5. job[last][th] = "ran"
    BY <2>2, <2>3, <2>4 DEF Open, Ended
  <2> QED
    BY <2>5 DEF IInv, LastInv
<1> QED
  BY <1>1, Invariance, PTL

-------------------------------------------------------------------------------
(* Nobody is stranded.  Closures can be numbered in the order they begin, so  *)
(* that a closure comes after those below it on its stack and after the one   *)
(* that made its call.                                                        *)

Ranked(r, n) ==
    /\ \A c \in Calls, th \in Threads : job[c][th] \in Active => r[c][th] < n
    /\ \A th \in Threads : \A i, j \in DOMAIN stack[th] :
           i < j => r[stack[th][j]][th] < r[stack[th][i]][th]
    /\ \A c, d \in Calls, th, h \in Threads :
           /\ parent[d] = <<c, th>> /\ job[c][th] \in Active /\ job[d][h] \in Active
           => r[c][th] < r[d][h]

Begun == {j \in Calls \X Threads : job[j[1]][j[2]] \notin {"none", "queued"}}

\* A call made in a closure is made after the closure begins.
RankInv ==
    /\ \A d \in Calls : parent[d] # <<>> => parent[d] \in Begun
    /\ \E r \in [Calls -> [Threads -> Nat]], n \in Nat : Ranked(r, n)

\* A step in which no closure begins.
LEMMA QuietRanked ==
    ASSUME IInv, RankInv, Begun \subseteq Begun',
           stack' \in [Threads -> Seq(Calls)],
           \A d \in Calls, h \in Threads : job'[d][h] \in Active => job[d][h] \in Active,
           \A h \in Threads : \/ stack'[h] = stack[h]
                              \/ stack[h] # <<>> /\ stack'[h] = Tail(stack[h]),
           \A d \in Calls : \/ parent'[d] = parent[d]
                            \/ /\ parent'[d] = <<>> \/ parent'[d] \in Begun'
                               /\ \A h \in Threads : job'[d][h] \notin Active
    PROVE  RankInv'
<1>1. PICK r \in [Calls -> [Threads -> Nat]], n \in Nat : Ranked(r, n)
  BY DEF RankInv
<1>2. \A d \in Calls : parent'[d] # <<>> => parent'[d] \in Begun'
  BY DEF RankInv
<1>3. \A th \in Threads : \A i, j \in DOMAIN stack'[th] :
          i < j => r[stack'[th][j]][th] < r[stack'[th][i]][th]
  <2> SUFFICES ASSUME NEW th \in Threads, NEW i \in DOMAIN stack'[th],
                      NEW j \in DOMAIN stack'[th], i < j
               PROVE  r[stack'[th][j]][th] < r[stack'[th][i]][th]
    OBVIOUS
  <2>1. CASE stack'[th] = stack[th]
    BY <1>1, <2>1 DEF Ranked
  <2>2. CASE stack[th] # <<>> /\ stack'[th] = Tail(stack[th])
    <3>1. stack[th] \in Seq(Calls) /\ stack[th] # <<>>
      BY <2>2 DEF IInv, TypeOK
    <3>2. /\ i + 1 \in DOMAIN stack[th] /\ j + 1 \in DOMAIN stack[th] /\ i + 1 < j + 1
          /\ stack'[th][i] = stack[th][i + 1] /\ stack'[th][j] = stack[th][j + 1]
      <4> DEFINE s == stack[th]
      <4>1. DOMAIN Tail(s) = 1 .. Len(s) - 1 /\ DOMAIN s = 1 .. Len(s) /\ Len(s) \in Nat
        BY <3>1
      <4>2. \A k \in DOMAIN Tail(s) : Tail(s)[k] = s[k + 1]
        BY <3>1
      <4>3. i \in DOMAIN Tail(s) /\ j \in DOMAIN Tail(s)
        BY <2>2
      <4> HIDE DEF s
      <4>4. i + 1 \in DOMAIN s /\ j + 1 \in DOMAIN s /\ i + 1 < j + 1
        BY <4>1, <4>3
      <4> QED
        BY <2>2, <4>2, <4>3, <4>4 DEF s
    <3> QED
      BY <1>1, <3>2 DEF Ranked
  <2> QED
    BY <2>1, <2>2
<1>4. Ranked(r, n)'
  <2>1. \A c \in Calls, th \in Threads : job'[c][th] \in Active => r[c][th] < n
    BY <1>1 DEF Ranked
  <2>2. \A c, d \in Calls, th, h \in Threads :
           /\ parent'[d] = <<c, th>> /\ job'[c][th] \in Active /\ job'[d][h] \in Active
           => r[c][th] < r[d][h]
    BY <1>1 DEF Ranked
  <2> QED
    BY <1>3, <2>1, <2>2 DEF Ranked
<1> QED
  BY <1>2, <1>4 DEF RankInv

\* A closure begins, on top of a stack: it comes after all others.
LEMMA PushRanked ==
    ASSUME IInv, RankInv, Begun \subseteq Begun',
           NEW c \in Calls, NEW th \in Threads, <<c, th>> \notin Begun,
           stack' = [stack EXCEPT ![th] = <<c>> \o @],
           \A d \in Calls, h \in Threads :
               job'[d][h] \in Active => job[d][h] \in Active \/ (d = c /\ h = th),
           \A d \in Calls : parent'[d] = parent[d] \/ (d = c /\ parent'[d] \in Begun),
           parent' = parent \/ \A h \in Threads : job[c][h] \notin Active
    PROVE  RankInv'
<1>1. PICK r \in [Calls -> [Threads -> Nat]], n \in Nat : Ranked(r, n)
  BY DEF RankInv
<1> DEFINE q == [r EXCEPT ![c][th] = n]
<1>2. /\ q \in [Calls -> [Threads -> Nat]] /\ n + 1 \in Nat
      /\ \A d \in Calls, h \in Threads :
             q[d][h] = IF d = c /\ h = th THEN n ELSE r[d][h]
      /\ \A d \in Calls, h \in Threads : r[d][h] \in Nat
  BY <1>1
<1>3. \A d \in Calls : parent'[d] # <<>> => parent'[d] \in Begun'
  BY DEF RankInv
<1>4. \A d \in Calls : parent'[d] # <<c, th>>
  <2> SUFFICES ASSUME NEW d \in Calls, parent'[d] = <<c, th>> PROVE FALSE
    OBVIOUS
  <2>1. <<c, th>> # <<>>
    OBVIOUS
  <2>2. \A e \in Calls : parent[e] # <<>> => parent[e] \in Begun
    BY DEF RankInv
  <2>3. parent'[d] = parent[d] \/ parent'[d] \in Begun
    OBVIOUS
  <2>4. parent[d] = <<c, th>>
    BY <2>3
  <2> QED
    BY <2>1, <2>2, <2>4
<1>5. c \notin Range(stack[th]) /\ stack[th] \in Seq(Calls)
  <2>1. job[c][th] \notin Active
    BY DEF Begun, Active
  <2> QED
    BY <2>1 DEF IInv, TypeOK
<1>6. stack'[th] = <<c>> \o stack[th] /\ \A h \in Threads : h # th => stack'[h] = stack[h]
  BY DEF IInv, TypeOK
<1> HIDE DEF q
<1>7. \A d \in Calls, h \in Threads : job'[d][h] \in Active => q[d][h] < n + 1
  <2> SUFFICES ASSUME NEW d \in Calls, NEW h \in Threads, job'[d][h] \in Active
               PROVE  q[d][h] < n + 1
    OBVIOUS
  <2>1. CASE d = c /\ h = th
    BY <1>2, <2>1
  <2>2. CASE ~(d = c /\ h = th)
    <3>1. r[d][h] < n
      BY <1>1, <2>2 DEF Ranked
    <3> QED
      BY <1>2, <2>2, <3>1
  <2> QED
    BY <2>1, <2>2
<1>8. \A h \in Threads : \A i, j \in DOMAIN stack'[h] :
          i < j => q[stack'[h][j]][h] < q[stack'[h][i]][h]
  <2> SUFFICES ASSUME NEW h \in Threads, NEW i \in DOMAIN stack'[h],
                      NEW j \in DOMAIN stack'[h], i < j
               PROVE  q[stack'[h][j]][h] < q[stack'[h][i]][h]
    OBVIOUS
  <2>1. CASE h # th
    <3>1. stack'[h] = stack[h] /\ stack[h] \in Seq(Calls)
      BY <1>6, <2>1 DEF IInv, TypeOK
    <3>2. stack[h][i] \in Calls /\ stack[h][j] \in Calls
      <4>1. i \in DOMAIN stack[h] /\ j \in DOMAIN stack[h]
        BY <3>1
      <4>2. \A k \in DOMAIN stack[h] : stack[h][k] \in Calls
        BY <3>1
      <4> QED
        BY <4>1, <4>2
    <3>3. r[stack[h][j]][h] < r[stack[h][i]][h]
      BY <1>1, <3>1 DEF Ranked
    <3> QED
      BY <1>2, <2>1, <3>1, <3>2, <3>3
  <2>2. CASE h = th
    <3> DEFINE s == stack[th]
    <3>1. /\ j \in 2 .. Len(s) + 1 /\ stack'[th][j] = s[j - 1] /\ j - 1 \in DOMAIN s
          /\ i \in 1 .. Len(s) + 1 /\ stack'[th][1] = c
          /\ i # 1 => stack'[th][i] = s[i - 1] /\ i - 1 \in DOMAIN s
      <4>1. s \in Seq(Calls) /\ stack'[th] = <<c>> \o s /\ DOMAIN s = 1 .. Len(s)
        BY <1>5, <1>6
      <4>2. i \in DOMAIN (<<c>> \o s) /\ j \in DOMAIN (<<c>> \o s) /\ i < j
        BY <2>2, <4>1
      <4> HIDE DEF s
      <4>3. DOMAIN (<<c>> \o s) = 1 .. Len(s) + 1 /\ Len(s) \in Nat
        BY <4>1
      <4>4. \A k \in 1 .. Len(s) + 1 : (<<c>> \o s)[k] = IF k = 1 THEN c ELSE s[k - 1]
        BY <4>1
      <4> DEFINE u == <<c>> \o s
      <4> HIDE DEF u
      <4>5. /\ i \in 1 .. Len(s) + 1 /\ j \in 1 .. Len(s) + 1 /\ i < j
            /\ \A k \in 1 .. Len(s) + 1 : u[k] = IF k = 1 THEN c ELSE s[k - 1]
        BY <4>2, <4>3, <4>4 DEF u
      <4>6. j # 1 /\ j - 1 \in 1 .. Len(s) /\ j \in 2 .. Len(s) + 1
              /\ (i # 1 => i - 1 \in 1 .. Len(s))
        BY <4>3, <4>5
      <4>7. 1 \in 1 .. Len(s) + 1
        BY <4>3
      <4>8. u[j] = s[j - 1] /\ u[1] = c /\ (i # 1 => u[i] = s[i - 1])
        BY <4>5, <4>6, <4>7
      <4> QED
        BY <4>1, <4>5, <4>6, <4>8 DEF u
    <3>2. s[j - 1] \in Calls /\ s[j - 1] # c /\ job[s[j - 1]][th] \in Active
      <4>1. s[j - 1] \in Range(s) /\ s[j - 1] \in Calls
        BY <1>5, <3>1 DEF Range
      <4> QED
        BY <1>5, <4>1 DEF IInv, TypeOK
    <3>3. CASE i = 1
      <4>1. r[s[j - 1]][th] < n
        BY <1>1, <3>2 DEF Ranked
      <4> QED
        BY <1>2, <2>2, <3>1, <3>2, <3>3, <4>1
    <3>4. CASE i # 1
      <4>1. s[i - 1] \in Calls /\ s[i - 1] # c
        BY <1>5, <3>1, <3>4 DEF Range
      <4>2. i - 1 < j - 1 /\ i - 1 \in DOMAIN s /\ j - 1 \in DOMAIN s
        BY <3>1, <3>4
      <4>3. r[s[j - 1]][th] < r[s[i - 1]][th]
        BY <1>1, <4>2 DEF Ranked
      <4> QED
        BY <1>2, <2>2, <3>1, <3>2, <3>4, <4>1, <4>3
    <3> QED
      BY <3>3, <3>4
  <2> QED
    BY <2>1, <2>2
<1>9. \A d, e \in Calls, h, g \in Threads :
          /\ parent'[e] = <<d, h>> /\ job'[d][h] \in Active /\ job'[e][g] \in Active
          => q[d][h] < q[e][g]
  <2> SUFFICES ASSUME NEW d \in Calls, NEW e \in Calls, NEW h \in Threads, NEW g \in Threads,
                      parent'[e] = <<d, h>>, job'[d][h] \in Active, job'[e][g] \in Active
               PROVE  q[d][h] < q[e][g]
    OBVIOUS
  <2>1. ~(d = c /\ h = th)
    BY <1>4
  <2>2. job[d][h] \in Active /\ q[d][h] = r[d][h] /\ r[d][h] < n
    BY <1>1, <1>2, <2>1 DEF Ranked
  <2>3. CASE e = c /\ g = th
    BY <1>2, <2>2, <2>3
  <2>4. CASE ~(e = c /\ g = th)
    <3>1. job[e][g] \in Active /\ q[e][g] = r[e][g]
      BY <1>2, <2>4
    <3>2. parent[e] = <<d, h>>
      BY <3>1
    <3> QED
      BY <1>1, <2>2, <3>1, <3>2 DEF Ranked
  <2> QED
    BY <2>3, <2>4
<1>10. Ranked(q, n + 1)'
  BY <1>7, <1>8, <1>9 DEF Ranked
<1> QED
  BY <1>2, <1>3, <1>10 DEF RankInv

\* A call made in a closure has begun none of its own yet.
LEMMA CallRanked ==
    ASSUME IInv, RankInv, NEW c \in Calls, CallStep(c), IInv'
    PROVE  RankInv'
<1>1. PICK o \in Ops, T \in Types, n \in 0..Cardinality(Threads) :
          \/ CallFromOutside(c, o, T, n)
          \/ \E d \in Calls, th \in Threads : CallFromClosure(c, o, T, n, d, th)
  BY DEF CallStep
<1>2. result[c] = "none" /\ \A h \in Threads : job[c][h] = "none"
  BY <1>1 DEF CallFromOutside, CallFromClosure, Call, IInv, JobsInv
<1>3. job \in [Calls -> [Threads -> Active \cup Ended \cup {"none", "queued"}]]
        /\ stack' \in [Threads -> Seq(Calls)] /\ parent \in [Calls -> (Calls \X Threads) \cup {<<>>}]
  BY DEF IInv, TypeOK
<1>4. CASE CallFromOutside(c, o, T, n)
  <2>1. \A d \in Calls, h \in Threads : job'[d][h] = IF d = c THEN "queued" ELSE job[d][h]
    BY <1>3, <1>4 DEF CallFromOutside, Queue
  <2>2. \A d \in Calls : parent'[d] = IF d = c THEN <<>> ELSE parent[d]
    BY <1>3, <1>4 DEF CallFromOutside, Call
  <2>3. stack' = stack
    BY <1>4 DEF CallFromOutside
  <2>4. Begun \subseteq Begun'
    BY <1>2, <2>1 DEF Begun
  <2> QED
    BY <1>2, <1>3, <2>1, <2>2, <2>3, <2>4, QuietRanked DEF Active
<1>5. ASSUME NEW d \in Calls, NEW th \in Threads, CallFromClosure(c, o, T, n, d, th)
      PROVE  RankInv'
  <2>1. In(d, th, "running") /\ job[d][th] = "running" /\ d # c
    BY <1>2, <1>5 DEF CallFromClosure, In, InCode
  <2>2. \A e \in Calls : parent'[e] = IF e = c THEN <<d, th>> ELSE parent[e]
    BY <1>3, <1>5 DEF CallFromClosure, Call
  <2>3. CASE o \in Posted
    <3>1. /\ \A h \in Threads : job'[c][h] = "queued"
          /\ \A e \in Calls, h \in Threads : e # c =>
                 \/ job'[e][h] = job[e][h]
                 \/ job[e][h] = "running" /\ job'[e][h] = "waiting"
          /\ stack' = stack
      <4>1. /\ job' = [job EXCEPT ![c] = [h \in Threads |-> "queued"],
                                  ![d][th] = IF o \in Detached THEN @ ELSE "waiting"]
            /\ stack' = stack
        BY <1>5, <2>3 DEF CallFromClosure
      <4>2. CASE o \in Detached
        BY <1>3, <2>1, <4>1, <4>2
      <4>3. CASE o \notin Detached
        BY <1>3, <2>1, <4>1, <4>3
      <4> QED
        BY <4>2, <4>3
    <3>2. Begun \subseteq Begun' /\ <<d, th>> \in Begun'
      BY <1>2, <2>1, <3>1 DEF Begun
    <3>3. \A e \in Calls, h \in Threads : job'[e][h] \in Active => job[e][h] \in Active
      BY <1>2, <3>1 DEF Active
    <3>4. \A h \in Threads : job'[c][h] \notin Active
      BY <3>1 DEF Active
    <3> QED
      BY <1>3, <2>2, <3>1, <3>2, <3>3, <3>4, QuietRanked
  <2>4. CASE o \notin Posted
    <3>1. /\ \A e \in Calls, h \in Threads :
                 job'[e][h] = IF e = c /\ h = th THEN "claimed"
                              ELSE IF e = d /\ h = th THEN "waiting" ELSE job[e][h]
          /\ stack' = [stack EXCEPT ![th] = <<c>> \o @]
      BY <1>3, <1>5, <2>1, <2>4 DEF CallFromClosure, Posted
    <3>2. Begun \subseteq Begun' /\ <<d, th>> \in Begun /\ <<c, th>> \notin Begun
      BY <1>2, <2>1, <3>1 DEF Begun
    <3>3. \A e \in Calls, h \in Threads :
              job'[e][h] \in Active => job[e][h] \in Active \/ (e = c /\ h = th)
      BY <2>1, <3>1 DEF Active
    <3>4. \A h \in Threads : job[c][h] \notin Active
      BY <1>2 DEF Active
    <3>5. \A e \in Calls : parent'[e] = parent[e] \/ (e = c /\ parent'[e] \in Begun)
      BY <2>2, <3>2
    <3>6. stack' = [stack EXCEPT ![th] = <<c>> \o @]
      BY <3>1
    <3>7. Begun \subseteq Begun' /\ <<c, th>> \notin Begun
      BY <3>2
    <3> QED
      BY <3>3, <3>4, <3>5, <3>6, <3>7, PushRanked
  <2> QED
    BY <2>3, <2>4
<1> QED
  BY <1>1, <1>4, <1>5

\* A thread begins a closure on top of those it is waiting in.
LEMMA BeginRanked ==
    ASSUME IInv, RankInv, NEW c \in Calls, NEW th \in Threads, Begin(c, th)
    PROVE  RankInv'
<1> DEFINE p == IF op[c] \in OnAll /\ Budgeted(c) THEN "claiming" ELSE "claimed"
<1>1. /\ \A d \in Calls, h \in Threads :
            job'[d][h] = IF d # c THEN job[d][h]
                         ELSE IF h = th THEN p
                         ELSE IF op[c] \in OnAll THEN job[d][h] ELSE "none"
      /\ job[c][th] = "queued" /\ parent' = parent
      /\ stack' = [stack EXCEPT ![th] = <<c>> \o @]
  BY DEF Begin, IInv, TypeOK, callVars
<1>2. p \in {"claiming", "claimed"}
  OBVIOUS
<1> HIDE DEF p
<1>3. \A h \in Threads : op[c] \notin OnAll => job[c][h] = "queued"
  BY <1>1 DEF IInv, JobsInv
<1>4. Begun \subseteq Begun' /\ <<c, th>> \notin Begun
  BY <1>1, <1>2, <1>3 DEF Begun
<1>5. \A d \in Calls, h \in Threads :
          job'[d][h] \in Active => job[d][h] \in Active \/ (d = c /\ h = th)
  BY <1>1 DEF Active
<1> QED
  BY <1>1, <1>4, <1>5, PushRanked

\* Every other step moves one closure, or none.
LEMMA MoveRanked ==
    ASSUME IInv, RankInv, NEW c \in Calls, NEW th \in Threads, NEW p \in Active \cup Ended,
           job[c][th] \in Active, parent' = parent,
           job' = [job EXCEPT ![c][th] = p],
           \/ stack' = stack
           \/ OnTop(c, th) /\ stack' = [stack EXCEPT ![th] = Tail(@)]
    PROVE  RankInv'
<1>1. \A d \in Calls, h \in Threads :
          job'[d][h] = IF d = c /\ h = th THEN p ELSE job[d][h]
  BY DEF IInv, TypeOK
<1>2. Begun \subseteq Begun'
  BY <1>1, Places DEF Begun
<1>3. stack \in [Threads -> Seq(Calls)]
  BY DEF IInv, TypeOK
<1>4. /\ stack' \in [Threads -> Seq(Calls)]
      /\ \A h \in Threads : \/ stack'[h] = stack[h]
                            \/ stack[h] # <<>> /\ stack'[h] = Tail(stack[h])
  <2>1. CASE stack' = stack
    BY <1>3, <2>1
  <2>2. CASE OnTop(c, th) /\ stack' = [stack EXCEPT ![th] = Tail(@)]
    <3>1. stack[th] # <<>> /\ Tail(stack[th]) \in Seq(Calls)
      BY <1>3, <2>2 DEF OnTop
    <3> QED
      BY <1>3, <2>2, <3>1
  <2> QED
    BY <2>1, <2>2
<1> QED
  BY <1>1, <1>2, <1>4, QuietRanked

\* A step that touches no closure.
LEMMA StillRanked ==
    ASSUME IInv, RankInv, UNCHANGED <<job, stack, parent>>
    PROVE  RankInv'
<1>1. stack \in [Threads -> Seq(Calls)] /\ Begun' = Begun
  BY DEF IInv, TypeOK, Begun
<1> QED
  BY <1>1, QuietRanked

\* At first no closure has begun, and any numbers do.
LEMMA InitRanked == Init => RankInv
<1> SUFFICES ASSUME Init PROVE RankInv
  OBVIOUS
<1>1. \A d \in Calls : parent[d] = <<>>
  BY DEF Init
<1> DEFINE r == [c \in Calls |-> [th \in Threads |-> 0]]
<1>2. r \in [Calls -> [Threads -> Nat]]
  OBVIOUS
<1>3. \A c \in Calls, th \in Threads : job[c][th] \notin Active
  BY DEF Init, Active
<1>4. \A th \in Threads : DOMAIN stack[th] = {}
  BY DEF Init
<1> HIDE DEF r
<1>5. Ranked(r, 0)
  BY <1>3, <1>4 DEF Ranked
<1> QED
  BY <1>1, <1>2, <1>5 DEF RankInv

\* What is on top of a stack has begun and has not ended.
LEMMA TopIsActive ==
    ASSUME IInv, NEW c \in Calls, NEW th \in Threads, OnTop(c, th)
    PROVE  job[c][th] \in Active
<1>1. stack[th] \in Seq(Calls) /\ stack[th] # <<>> /\ Head(stack[th]) = c
  BY DEF IInv, TypeOK, OnTop
<1>2. c \in Range(stack[th])
  <2>1. c = stack[th][1] /\ 1 \in DOMAIN stack[th]
    BY <1>1
  <2> QED
    BY <2>1 DEF Range
<1> QED
  BY <1>2 DEF IInv, TypeOK

\* Every step of the pool leaves the closures in the order they begin.
LEMMA NextRanked == IInv /\ IInv' /\ RankInv /\ [Next]_vars => RankInv'
<1> SUFFICES ASSUME IInv, IInv', RankInv, [Next]_vars PROVE RankInv'
  OBVIOUS
<1>1. ASSUME NEW c \in Calls, Return(c)
      PROVE  RankInv'
  BY <1>1, StillRanked DEF Return, callVars
<1>2. ASSUME NEW c \in Calls, NEW th \in Threads,
             \/ FindNone(c, th) \/ Borrow(c, th) \/ Resume(c, th) \/ ClosureStep(c, th)
             \/ Claim(c, th) \/ ClaimFails(c, th)
      PROVE  RankInv'
  <2>1. ASSUME OnTop(c, th) PROVE job[c][th] \in Active
    BY <2>1, TopIsActive
  <2>2. ASSUME NEW p \in Ended, OnTop(c, th), Ends(c, th, p), parent' = parent
        PROVE  RankInv'
    BY <2>1, <2>2, MoveRanked DEF Ends
  <2>3. ASSUME NEW p \in Active, OnTop(c, th), job' = [job EXCEPT ![c][th] = p],
               stack' = stack, parent' = parent
        PROVE  RankInv'
    BY <2>1, <2>3, MoveRanked
  <2>4. "skipped" \in Ended /\ "ran" \in Ended /\ "refused" \in Ended /\ "panicked" \in Ended
          /\ "running" \in Active /\ "waiting" \in Active /\ "claimed" \in Active
    BY DEF Active, Ended
  <2>5. CASE FindNone(c, th)
    BY <2>2, <2>4, <2>5 DEF FindNone, In, callVars
  <2>6. CASE Borrow(c, th)
    BY <2>2, <2>3, <2>4, <2>6 DEF Borrow, In, callVars
  <2>7. CASE Resume(c, th) \/ Yield(c, th)
    BY <2>3, <2>4, <2>7 DEF Resume, Yield, InCode, In, callVars
  <2>8. CASE Claim(c, th)
    BY <2>3, <2>4, <2>8 DEF Claim, In, callVars
  <2>9. CASE ClaimFails(c, th)
    BY <2>9, StillRanked DEF ClaimFails, callVars
  <2>10. CASE ClosureEnds(c, th) \/ ClosurePanics(c, th)
    BY <2>2, <2>4, <2>10 DEF ClosureEnds, ClosurePanics, InCode, In, callVars
  <2>11. CASE InitEnds(c, th) \/ ClearState(c, th)
    BY <2>2, <2>4, <2>11, StillRanked DEF InitEnds, ClearState, In, callVars
  <2>12. CASE \E T \in Types : InitBegins(c, th, T) \/ GetOrInit(c, th, T)
    BY <2>12, StillRanked DEF InitBegins, GetOrInit, callVars
  <2> QED
    BY <1>2, <2>5, <2>6, <2>7, <2>8, <2>9, <2>10, <2>11, <2>12
       DEF ClosureStep, WorkerStep
<1>3. CASE UNCHANGED vars
  BY <1>3, StillRanked DEF vars, callVars
<1> QED
  BY <1>1, <1>2, <1>3, CallRanked, BeginRanked DEF Next, PoolStep

\* In a set of numbers below n some number is the largest.
LEMMA LargestExists ==
    ASSUME NEW n \in Nat, NEW S \in SUBSET Nat, S # {}, \A x \in S : x < n
    PROVE  \E x \in S : \A y \in S : y <= x
<1> DEFINE D == {n - x : x \in S}
<1>1. D \in SUBSET Nat /\ D # {}
  <2>1. \A x \in S : x \in Nat /\ n - x \in Nat
    OBVIOUS
  <2> QED
    BY <2>1
<1> HIDE DEF D
<1>2. PICK d \in D : \A e \in D : ~(<<e, d>> \in OpToRel(<, Nat))
  <2>1. IsWellFoundedOn(OpToRel(<, Nat), Nat)
    BY NatLessThanWellFounded, Zenon
  <2> QED
    BY <1>1, <2>1, WFMin, Zenon
<1>3. \A e \in D : ~(e < d)
  BY <1>1, <1>2, Zenon DEF OpToRel
<1>4. PICK x \in S : d = n - x
  BY DEF D
<1>5. \A y \in S : y <= x
  <2> SUFFICES ASSUME NEW y \in S PROVE y <= x
    OBVIOUS
  <2>1. n - y \in D
    BY DEF D
  <2>2. ~(n - y < d)
    BY <1>3, <2>1
  <2>3. x \in Nat /\ y \in Nat
    OBVIOUS
  <2> QED
    BY <1>4, <2>2, <2>3
<1> QED
  BY <1>5

\* The job on top of a stack is active; an active job has one above it, or is
\* itself, on top.
LEMMA TopRanked ==
    ASSUME IInv, NEW r \in [Calls -> [Threads -> Nat]], NEW n \in Nat, Ranked(r, n),
           NEW c \in Calls, NEW th \in Threads, job[c][th] \in Active
    PROVE  /\ stack[th] # <<>> /\ Head(stack[th]) \in Calls
           /\ r[c][th] <= r[Head(stack[th])][th]
<1> DEFINE s == stack[th]
<1>1. s \in Seq(Calls) /\ c \in Range(s)
  BY DEF IInv, TypeOK
<1>2. PICK i \in DOMAIN s : s[i] = c
  BY <1>1 DEF Range
<1>3. s # <<>> /\ Head(s) = s[1] /\ s[1] \in Calls /\ 1 \in DOMAIN s /\ i \in Nat /\ 1 <= i
  BY <1>1, <1>2
<1>4. r[c][th] \in Nat /\ r[s[1]][th] \in Nat
  BY <1>3
<1>5. 1 < i => r[s[i]][th] < r[s[1]][th]
  BY <1>2, <1>3 DEF Ranked
<1> HIDE DEF s
<1>6. i = 1 \/ 1 < i
  BY <1>3
<1>7. r[c][th] <= r[Head(s)][th]
  BY <1>2, <1>3, <1>4, <1>5, <1>6
<1> QED
  BY <1>3, <1>7 DEF s

\* If none could go on, every thread would be empty or wait, in the closure on
\* top, for a call that is open and has a job on some stack: one that began later.
LEMMA SomebodyGoes == IInv /\ RankInv => Served
<1> SUFFICES ASSUME IInv, RankInv, NEW c0 \in Calls, result[c0] = "open", ~CanGo
             PROVE  FALSE
  BY DEF Served
<1>1. PICK r \in [Calls -> [Threads -> Nat]], n \in Nat : Ranked(r, n)
  BY DEF RankInv
<1> DEFINE tops == {th \in Threads : stack[th] # <<>>}
           top(th) == Head(stack[th])
<1>2. ASSUME NEW th \in tops
      PROVE  /\ top(th) \in Calls /\ job[top(th)][th] = "waiting"
             /\ \E d \in Calls : parent[d] = <<top(th), th>> /\ result[d] = "open"
  <2>1. top(th) \in Calls /\ OnTop(top(th), th)
    BY DEF IInv, TypeOK, OnTop
  <2>2. job[top(th)][th] \in Active
    BY <2>1, TopIsActive
  <2> HIDE DEF top
  <2>3. job[top(th)][th] \notin {"claiming", "claimed"}
    BY <2>1 DEF CanGo, In
  <2>4. job[top(th)][th] # "running"
    <3>1. ASSUME op[top(th)] = "clear" PROVE job[top(th)][th] \in InClosure => initing[th] = None
      BY <2>1, <3>1 DEF IInv, BorrowInv, Mut, OnAll
    <3> QED
      BY <2>1, <3>1 DEF CanGo, In, InClosure
  <2>5. job[top(th)][th] = "waiting"
    BY <2>2, <2>3, <2>4 DEF Active
  <2> QED
    BY <2>1, <2>5 DEF CanGo, In, Answered
<1>3. \A c \in Calls, th \in Threads : job[c][th] # "queued"
  BY <1>2 DEF CanGo, Free, In, OnTop
<1>4. ASSUME NEW c \in Calls, result[c] = "open"
      PROVE  \E th \in tops : r[c][th] <= r[top(th)][th] /\ job[c][th] \in Active
  <2>1. PICK th \in Threads : job[c][th] # "none" /\ job[c][th] \notin Ended
    BY <1>4 DEF CanGo, Done, Jobs
  <2>2. job[c][th] \in Active
    BY <1>3, <2>1 DEF IInv, TypeOK
  <2> QED
    BY <1>1, <2>2, TopRanked
<1> HIDE DEF tops, top
<1>5. tops \subseteq Threads /\ \A th \in tops : top(th) \in Calls /\ r[top(th)][th] \in Nat
  BY <1>2 DEF tops
<1> DEFINE S == {r[top(th)][th] : th \in tops}
<1>6. S \in SUBSET Nat /\ S # {} /\ \A x \in S : x < n
  <2>1. \A th \in tops : r[top(th)][th] < n
    BY <1>1, <1>2, <1>5 DEF Ranked, Active
  <2> QED
    BY <1>4, <1>5, <2>1
<1>7. PICK x \in S : \A y \in S : y <= x
  <2> HIDE DEF S
  <2> QED
    BY <1>6, LargestExists
<1>8. PICK th \in tops : x = r[top(th)][th]
  OBVIOUS
<1>9. PICK d \in Calls : parent[d] = <<top(th), th>> /\ result[d] = "open"
  BY <1>2
<1>10. PICK h \in tops : r[d][h] <= r[top(h)][h] /\ job[d][h] \in Active
  BY <1>4, <1>9
<1>11. r[top(th)][th] < r[d][h]
  <2>1. job[top(th)][th] \in Active
    BY <1>2 DEF Active
  <2> QED
    BY <1>1, <1>5, <1>9, <1>10, <2>1 DEF Ranked
<1>12. r[top(h)][h] <= x /\ r[top(h)][h] \in Nat /\ r[d][h] \in Nat /\ x \in Nat
  BY <1>5, <1>6, <1>7, <1>10
<1> QED
  BY <1>8, <1>10, <1>11, <1>12

\* As long as a call is open some thread can go on, or a call return, whatever
\* closures wait for and whichever jobs their threads took up meanwhile: for any
\* number of threads and calls, nested to any depth.
THEOREM ServedCorrect == Spec => []Served
<1>1. Init => IInv /\ RankInv
  BY InitInv, InitRanked
<1>2. IInv /\ RankInv /\ [Next]_vars => IInv' /\ RankInv'
  BY NextInv, NextRanked
<1> QED
  BY <1>1, <1>2, SomebodyGoes, PTL DEF Spec
===============================================================================
