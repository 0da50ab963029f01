------------------------- MODULE RenderWorkers_proofs -------------------------
(***************************************************************************)
(* Proofs about RenderWorkers, for any number of render threads and rows.  *)
(* What is in the queue, what the semaphores count and where the threads   *)
(* are is different while a frame is drawn (FrameInv), between two frames  *)
(* (IdleInv) and when the threads are being joined (JoinInv).              *)
(***************************************************************************)
EXTENDS RenderWorkers, FiniteSetTheorems, SequenceTheorems, TLAPS

Jobs == ScreenRows \cup {FrameDone, Exit, PreJob}

TypeOK ==
    /\ main \in {"loop", "waits", "sleeps", "joins", "ended"}
    /\ left \in Nat /\ start \in Nat /\ done \in Nat
    /\ queue \in Seq(Jobs)
    /\ target \in BOOLEAN /\ applying \in BOOLEAN
    /\ asked \in SUBSET ScreenRows
    /\ thread \in [Workers -> {"idle", "pop", "drawing", "applying", "exited"}]
    /\ job \in [Workers -> Jobs]
    /\ into \in [Workers -> BOOLEAN]
    /\ drawn \in [ScreenRows -> Nat]

Popping == {w \in Workers : thread[w] = "pop"}
Active  == {w \in Workers : thread[w] \in {"pop", "drawing"}}
Alive   == {w \in Workers : thread[w] # "exited"}
AllIdle == \A w \in Workers : thread[w] = "idle"
OneIs(what) ==
    \E w \in Workers : thread[w] = what /\ \A v \in Workers \ {w} : thread[v] = "idle"

FrameDrawn == \A r \in ScreenRows : drawn[r] = (IF r \in asked THEN 1 ELSE 0)

\* Between two frames the queue is empty, but for damage that is being preapplied.
IdleInv ==
    /\ done = 0
    /\ FrameDrawn
    /\ main = "sleeps" => applying
    /\ \/ ~applying /\ start = 0 /\ queue = <<>> /\ AllIdle
       \/ applying /\ start = 1 /\ queue = <<PreJob>> /\ AllIdle
       \/ applying /\ start = 0 /\ queue = <<PreJob>> /\ OneIs("pop")
       \/ applying /\ start = 0 /\ queue = <<>> /\ OneIs("applying")

\* A row is in the queue, or with one of the threads, or has been drawn.
Drawing(w, r) == thread[w] = "drawing" /\ job[w] = r
RowInv ==
    /\ \A i, j \in 1 .. Len(queue) : queue[i] = queue[j] /\ queue[i] \in ScreenRows => i = j
    /\ \A i \in 1 .. Len(queue) : queue[i] \in ScreenRows =>
          /\ queue[i] \in asked /\ drawn[queue[i]] = 0
          /\ \A w \in Workers : ~Drawing(w, queue[i])
    /\ \A w \in Workers : thread[w] = "drawing" => job[w] \in asked /\ drawn[job[w]] = 0
    /\ \A v, w \in Workers : thread[v] = "drawing" /\ Drawing(w, job[v]) => v = w
    /\ \A r \in ScreenRows :
          /\ drawn[r] \in {0, 1}
          /\ r \notin asked => drawn[r] = 0
          /\ r \in asked => \/ drawn[r] = 1
                            \/ \E i \in 1 .. Len(queue) : queue[i] = r
                            \/ \E w \in Workers : Drawing(w, r)

\* The queue ends in as many ends of the frame as have not been counted by `done',
\* and as many threads have been started, or will be, to take them.
Ends == left - done
FrameInv ==
    /\ ~applying /\ target
    /\ thread \in [Workers -> {"idle", "pop", "drawing"}]
    /\ left \in 1 .. Count /\ Ends \in 0 .. Len(queue)
    /\ \A i \in 1 .. Len(queue) :
          IF i > Len(queue) - Ends THEN queue[i] = FrameDone ELSE queue[i] \in ScreenRows
    /\ Ends = 0 => queue = <<>>
    /\ start + Cardinality(Active) = Ends
    /\ \A w \in Active : into[w]
    /\ RowInv

\* Every thread that has not exited has a command to do so in the queue.
Pending == IF queue # <<>> /\ queue[1] = PreJob THEN 1 ELSE 0
JoinInv ==
    /\ thread \in [Workers -> {"idle", "pop", "applying", "exited"}]
    /\ \A i \in 1 .. Len(queue) : queue[i] = Exit \/ (i = 1 /\ queue[i] = PreJob)
    /\ start + Cardinality(Popping) = Len(queue)
    /\ Cardinality(Alive) = Len(queue) - Pending

IInv ==
    /\ TypeOK
    /\ main \in {"loop", "sleeps"} => IdleInv
    /\ main = "waits" => FrameInv
    /\ main \in {"joins", "ended"} => JoinInv

(***************************************************************************)
(* Sets of threads                                                         *)
(***************************************************************************)

LEMMA Finite ==
    ASSUME NEW S \in SUBSET Workers
    PROVE  IsFiniteSet(S) /\ Cardinality(S) \in Nat /\ (Cardinality(S) = 0 <=> S = {})
BY WorkersAssumption, FS_Subset, FS_CardinalityType, FS_EmptySet

LEMMA Gains ==
    ASSUME NEW S \in SUBSET Workers, NEW w \in Workers, w \notin S
    PROVE  Cardinality(S \cup {w}) = Cardinality(S) + 1
BY Finite, FS_AddElement

LEMMA Loses ==
    ASSUME NEW S \in SUBSET Workers, NEW w \in S
    PROVE  Cardinality(S \ {w}) = Cardinality(S) - 1
BY Finite, FS_RemoveElement

LEMMA CountType == Count \in Nat \ {0}
BY Finite, WorkersAssumption DEF Count

LEMMA JobsAre ==
    /\ FrameDone \in Jobs /\ Exit \in Jobs /\ PreJob \in Jobs
    /\ FrameDone # Exit /\ FrameDone # PreJob /\ Exit # PreJob
    /\ \A r \in ScreenRows : r \in Jobs /\ r \in Int /\ r \notin {FrameDone, Exit, PreJob}
    /\ \A j \in Jobs : j \in ScreenRows \/ j \in {FrameDone, Exit, PreJob}
    /\ IsFiniteSet(ScreenRows)
<1>1. IsFiniteSet(1 .. MaxRow)
  BY WorkersAssumption, FS_Interval
<1> QED BY <1>1, WorkersAssumption DEF Jobs, ScreenRows, FrameDone, Exit, PreJob

(***************************************************************************)
(* The main thread                                                         *)
(***************************************************************************)

LEMMA InitIInv == Init => IInv
<1> SUFFICES ASSUME Init PROVE IInv
  OBVIOUS
<1>1. TypeOK
  <2>1. queue \in Seq(Jobs)
    BY EmptySeq DEF Init
  <2>2. /\ thread \in [Workers -> {"idle", "pop", "drawing", "applying", "exited"}]
        /\ job \in [Workers -> Jobs] /\ into \in [Workers -> BOOLEAN]
        /\ drawn \in [ScreenRows -> Nat]
    BY JobsAre DEF Init
  <2> QED BY <2>1, <2>2 DEF Init, TypeOK
<1>2. IdleInv
  BY DEF Init, IdleInv, FrameDrawn, AllIdle
<1> QED BY <1>1, <1>2 DEF Init, IInv

\* The rows of a frame, in order, and then as many ends as there are threads.
FrameJobs(order) == <<>> \o order \o [i \in 1 .. Count |-> FrameDone]

LEMMA OrderIs ==
    ASSUME NEW rows \in SUBSET ScreenRows, NEW order \in InOrder(rows)
    PROVE  /\ order \in Seq(ScreenRows) /\ Len(order) \in Nat
           /\ FrameJobs(order) \in Seq(Jobs) /\ Len(FrameJobs(order)) = Len(order) + Count
           /\ \A i \in 1 .. Len(FrameJobs(order)) :
                 FrameJobs(order)[i] = IF i <= Len(order) THEN order[i] ELSE FrameDone
           /\ \A i \in 1 .. Len(order) : order[i] \in rows
           /\ \A r \in rows : \E i \in 1 .. Len(order) : order[i] = r
           /\ \A i, j \in 1 .. Len(order) : order[i] = order[j] => i = j
<1> DEFINE q == FrameJobs(order)
           ends == [i \in 1 .. Count |-> FrameDone]
           n == Cardinality(rows)
<1>1. IsFiniteSet(ScreenRows) /\ IsFiniteSet(rows) /\ n \in Nat
  BY JobsAre, FS_Subset, FS_CardinalityType
<1>2. order \in [1 .. n -> rows] /\ order \in Seq(ScreenRows) /\ Len(order) = n
  BY <1>1 DEF InOrder
<1>3. \A i, j \in 1 .. n : i < j => order[i] < order[j]
  BY <1>2 DEF InOrder
<1>4. \A i, j \in 1 .. n : order[i] = order[j] => i = j
  <2> SUFFICES ASSUME NEW i \in 1 .. n, NEW j \in 1 .. n, i # j PROVE order[i] # order[j]
    OBVIOUS
  <2>1. order[i] \in Int /\ order[j] \in Int
    BY <1>2, JobsAre
  <2>2. i < j \/ j < i
    BY <1>1
  <2> QED BY <1>3, <2>1, <2>2
<1>5. ends \in Seq(Jobs) /\ Len(ends) = Count
  BY CountType, JobsAre
<1>6. order \in Seq(Jobs)
  BY <1>1, <1>2, JobsAre
<1>7. q = order \o ends
  BY <1>6 DEF FrameJobs
<1>8. q \in Seq(Jobs) /\ Len(q) = Len(order) + Count
  BY <1>5, <1>6, <1>7, CountType
<1>9. ASSUME NEW i \in 1 .. Len(q) PROVE q[i] = IF i <= Len(order) THEN order[i] ELSE FrameDone
  BY <1>1, <1>2, <1>5, <1>6, <1>7, <1>8, CountType
<1>10. \A r \in rows : \E i \in 1 .. n : order[i] = r
  BY <1>2 DEF InOrder
<1> HIDE DEF q
<1>11. q = FrameJobs(order)
  BY DEF q
<1> QED BY <1>1, <1>2, <1>4, <1>8, <1>9, <1>10, <1>11

LEMMA GridRenderKeeps ==
    ASSUME IInv, NEW rows \in SUBSET ScreenRows, GridRender(rows)
    PROVE  IInv'
<1> USE DEF IInv, TypeOK
<1>1. /\ main = "loop" /\ start = 0 /\ queue = <<>> /\ AllIdle /\ ~applying /\ done = 0
      /\ main' = "waits" /\ start' = Count /\ left' = Count /\ target' = TRUE
      /\ asked' = rows /\ drawn' = [r \in ScreenRows |-> 0]
      /\ UNCHANGED <<done, applying, thread, job, into>>
  BY CountType DEF GridRender, IdleInv
<1>2. PICK order \in InOrder(rows) : queue' = FrameJobs(order)
  BY <1>1 DEF GridRender, FrameJobs
<1>3. /\ order \in Seq(ScreenRows) /\ Len(order) \in Nat
      /\ queue' \in Seq(Jobs) /\ Len(queue') = Len(order) + Count
      /\ \A i \in 1 .. Len(queue') :
            queue'[i] = IF i <= Len(order) THEN order[i] ELSE FrameDone
      /\ \A i \in 1 .. Len(order) : order[i] \in rows
      /\ \A r \in rows : \E i \in 1 .. Len(order) : order[i] = r
      /\ \A i, j \in 1 .. Len(order) : order[i] = order[j] => i = j
  <2> HIDE DEF TypeOK, IInv
  <2> QED BY <1>2, OrderIs
<1>4. TypeOK'
  BY <1>1, <1>3, CountType
<1>5. Active' = {}
  BY <1>1 DEF Active, AllIdle
<1>6. Ends' = Count /\ Cardinality(Active') = 0
  BY <1>1, <1>5, CountType, FS_EmptySet DEF Ends
<1>7. RowInv'
  <2>1. \A i \in 1 .. Len(queue') : queue'[i] \in ScreenRows =>
           i \in 1 .. Len(order) /\ queue'[i] = order[i]
    BY <1>3, JobsAre
  <2>2. \A w \in Workers : thread'[w] = "idle"
    BY <1>1 DEF AllIdle
  <2>3. \A i \in 1 .. Len(order) : i \in 1 .. Len(queue') /\ queue'[i] = order[i]
    BY <1>3, CountType
  <2>4. \A r \in rows : \E i \in 1 .. Len(queue') : queue'[i] = r
    BY <1>3, <2>3
  <2>5. \A r \in ScreenRows : drawn'[r] = 0
    BY <1>1
  <2>6. \A i, j \in 1 .. Len(queue') : queue'[i] = queue'[j] /\ queue'[i] \in ScreenRows => i = j
    BY <1>3, <2>1
  <2>7. \A i \in 1 .. Len(queue') : queue'[i] \in ScreenRows =>
           queue'[i] \in rows /\ drawn'[queue'[i]] = 0
    BY <1>3, <2>1, <2>5
  <2> QED BY <1>1, <2>2, <2>4, <2>5, <2>6, <2>7 DEF RowInv, Drawing
<1>8. FrameInv'
  <2>1. ASSUME NEW i \in 1 .. Len(queue')
        PROVE  IF i > Len(queue') - Ends' THEN queue'[i] = FrameDone ELSE queue'[i] \in ScreenRows
    <3>1. Len(queue') - Ends' = Len(order)
      BY <1>3, <1>6, CountType
    <3>2. CASE i > Len(order)
      BY <1>3, <3>1, <3>2
    <3>3. CASE ~(i > Len(order))
      <4>1. i \in 1 .. Len(order)
        BY <1>3, <3>3, CountType
      <4> QED BY <1>3, <3>1, <3>3, <4>1
    <3> QED BY <3>2, <3>3
  <2>2. thread' \in [Workers -> {"idle", "pop", "drawing"}]
    BY <1>1 DEF AllIdle
  <2> QED BY <1>1, <1>3, <1>5, <1>6, <1>7, <2>1, <2>2, CountType DEF FrameInv
<1> QED BY <1>1, <1>4, <1>8

LEMMA FrameWaitKeeps ==
    ASSUME IInv, FrameWait
    PROVE  IInv'
<1> USE DEF IInv, TypeOK, FrameWait, FrameMayGoOn, workVars
<1>0. main = "waits" /\ done > 0 /\ FrameInv
  OBVIOUS
<1>1. TypeOK'
  <2>1. left - 1 \in Nat /\ done - 1 \in Nat
    BY <1>0, CountType DEF FrameInv
  <2> QED BY <1>0, <2>1
<1>2. CASE left = 1
  <2>1. Ends = 0 /\ done = 1 /\ queue = <<>>
    BY <1>0, <1>2 DEF FrameInv, Ends
  <2>2. Active \in SUBSET Workers
    BY DEF Active
  <2>3. start = 0 /\ Active = {}
    BY <1>0, <2>1, <2>2, Finite DEF FrameInv
  <2>4. AllIdle
    BY <1>0, <2>3 DEF FrameInv, Active, AllIdle
  <2>5. FrameDrawn
    BY <1>0, <2>1, <2>4 DEF FrameInv, RowInv, FrameDrawn, AllIdle, Drawing
  <2> QED BY <1>0, <1>1, <1>2, <2>1, <2>3, <2>4, <2>5
          DEF IdleInv, FrameInv, FrameDrawn, AllIdle
<1>3. CASE left # 1
  <2>1. UNCHANGED <<main, start, queue, target, applying, asked, thread, job, into, drawn>>
        /\ left' = left - 1 /\ done' = done - 1
    BY <1>3
  <2>2. left' \in 1 .. Count /\ Ends' = Ends
    BY <1>0, <1>3, <2>1, CountType DEF FrameInv, Ends
  <2>3. RowInv' /\ Active' = Active
    BY <1>0, <2>1 DEF FrameInv, RowInv, Drawing, Active
  <2> QED BY <1>0, <1>1, <2>1, <2>2, <2>3 DEF FrameInv
<1> QED BY <1>2, <1>3

LEMMA WaitForPreapplyKeeps ==
    ASSUME IInv, WaitForPreapply
    PROVE  IInv'
BY DEF IInv, TypeOK, WaitForPreapply, workVars, IdleInv, FrameDrawn, AllIdle, OneIs

LEMMA BufferReleasedKeeps ==
    ASSUME IInv, BufferReleased
    PROVE  IInv'
<1> USE DEF IInv, TypeOK, BufferReleased, workVars
<1>1. queue = <<>> /\ start = 0 /\ AllIdle /\ FrameDrawn /\ done = 0
  BY DEF IdleInv
<1>2. queue' = <<PreJob>> /\ start' = 1
  BY <1>1
<1>3. TypeOK'
  BY <1>2 DEF Jobs
<1> QED BY <1>1, <1>2, <1>3 DEF IdleInv, FrameDrawn, AllIdle

LEMMA TermDestroyKeeps ==
    ASSUME IInv, TermDestroy
    PROVE  IInv'
<1> USE DEF IInv, TypeOK, TermDestroy, workVars
<1> DEFINE exits == [i \in 1 .. Count |-> Exit]
<1>0. IdleInv /\ Count \in Nat \ {0} /\ main' = "joins" /\ queue' = queue \o exits
      /\ start' = start + Count
      /\ UNCHANGED <<left, done, target, applying, asked, thread, job, into, drawn>>
  BY CountType
<1>1. exits \in Seq(Jobs) /\ Len(exits) = Count
  BY CountType DEF Jobs
<1>2. TypeOK'
  BY <1>0, <1>1
<1>3. Alive = Workers /\ Alive' = Alive /\ Popping' = Popping
  BY <1>0 DEF IdleInv, Alive, Popping, AllIdle, OneIs
<1>4. \/ queue = <<>> /\ start = 0 /\ Popping = {}
      \/ queue = <<PreJob>> /\ start = 1 /\ Popping = {}
      \/ queue = <<PreJob>> /\ start = 0 /\ \E w : Popping = {w}
  <2>1. AllIdle => Popping = {}
    BY DEF AllIdle, Popping
  <2>2. OneIs("pop") => \E w : Popping = {w}
    <3> SUFFICES ASSUME NEW w \in Workers, thread[w] = "pop",
                        \A v \in Workers \ {w} : thread[v] = "idle"
                 PROVE  Popping = {w}
      BY DEF OneIs
    <3> HIDE DEF TypeOK, IInv, TermDestroy
    <3> QED BY DEF Popping
  <2>3. OneIs("applying") => Popping = {}
    BY DEF OneIs, Popping
  <2> QED BY <1>0, <2>1, <2>2, <2>3 DEF IdleInv
<1>5. start + Cardinality(Popping) = Len(queue)
  <2> HIDE DEF TypeOK, IInv, TermDestroy
  <2>1. Cardinality({}) = 0 /\ \A w : Cardinality({w}) = 1
    BY FS_EmptySet, FS_Singleton
  <2>2. CASE \E w : Popping = {w}
    <3>1. Cardinality(Popping) = 1
      BY <2>1, <2>2
    <3>2. start = 0 /\ Len(queue) = 1
      BY <1>4, <2>2
    <3> QED BY <3>1, <3>2
  <2>3. CASE Popping = {}
    <3>1. Cardinality(Popping) = 0
      BY <2>1, <2>3
    <3>2. start = Len(queue)
      <4>1. CASE queue = <<>> /\ start = 0
        BY <4>1
      <4>2. CASE queue = <<PreJob>> /\ start = 1
        BY <4>2
      <4>3. CASE \E w : Popping = {w}
        BY <2>3, <4>3
      <4> QED BY <1>4, <4>1, <4>2, <4>3
    <3> QED BY <3>1, <3>2, <1>0 DEF IdleInv
  <2> QED BY <1>4, <2>2, <2>3
<1>6. Len(queue') = Len(queue) + Count
  BY <1>0, <1>1
<1>7. /\ \A i \in 1 .. Len(queue') : queue'[i] = Exit \/ (i = 1 /\ queue'[i] = PreJob)
      /\ Pending' = Len(queue)
  <2>1. CASE queue = <<>>
    <3>1. queue' = exits
      BY <1>0, <1>1, <2>1
    <3> QED BY <1>0, <1>1, <2>1, <3>1 DEF Pending, Exit, PreJob
  <2>2. CASE queue = <<PreJob>>
    <3>1. Len(queue) = 1 /\ \A i \in 1 .. Len(queue') : queue'[i] = IF i = 1 THEN PreJob ELSE Exit
      BY <1>0, <1>1, <1>6, <2>2 DEF Jobs
    <3>2. queue' # <<>> /\ queue'[1] = PreJob
      BY <1>0, <1>2, <1>6, <3>1
    <3> QED BY <3>1, <3>2 DEF Pending
  <2> QED BY <1>4, <2>1, <2>2
<1>8. thread' \in [Workers -> {"idle", "pop", "applying", "exited"}]
  BY <1>0 DEF IdleInv, AllIdle, OneIs
<1>9. JoinInv'
  <2>1. Cardinality(Popping') = Cardinality(Popping) /\ Cardinality(Alive') = Count
    BY <1>3 DEF Count
  <2>2. Cardinality(Popping) \in Nat
    BY Finite DEF Popping
  <2>3. start' + Cardinality(Popping') = Len(queue')
    <3>1. start \in Nat /\ Len(queue) \in Nat /\ start' = start + Count
      BY <1>0
    <3> HIDE DEF TypeOK, IInv, TermDestroy
    <3> QED BY <1>0, <1>5, <1>6, <2>1, <2>2, <3>1
  <2>4. Cardinality(Alive') = Len(queue') - Pending'
    BY <1>0, <1>6, <1>7, <2>1
  <2> QED BY <1>7, <1>8, <2>3, <2>4 DEF JoinInv
<1> QED BY <1>0, <1>2, <1>9

LEMMA JoinedKeeps ==
    ASSUME IInv, Joined
    PROVE  IInv'
BY DEF IInv, TypeOK, Joined, AllExited, workVars, JoinInv, Popping, Alive, Pending

(***************************************************************************)
(* The threads                                                             *)
(***************************************************************************)

\* Rows and threads are related by who draws what: a step that changes neither the
\* queue nor that leaves the relation alone.
LEMMA RowsStay ==
    ASSUME RowInv, UNCHANGED <<queue, asked, drawn>>,
           \A v \in Workers : (thread[v] = "drawing") = (thread'[v] = "drawing"),
           \A v \in Workers : thread[v] = "drawing" => job'[v] = job[v]
    PROVE  RowInv'
BY DEF RowInv, Drawing

LEMMA StartKeeps ==
    ASSUME IInv, NEW w \in Workers, Start(w)
    PROVE  IInv'
<1>1. /\ thread[w] = "idle" /\ start > 0 /\ start \in Nat /\ start' = start - 1
      /\ thread' = [thread EXCEPT ![w] = "pop"] /\ into' = [into EXCEPT ![w] = target]
      /\ UNCHANGED <<main, left, done, queue, target, applying, asked, job, drawn>>
      /\ TypeOK
  BY DEF Start, MayStart, IInv, TypeOK
<1>2. TypeOK' /\ start' \in Nat
  BY <1>1 DEF TypeOK
<1>3. thread'[w] = "pop" /\ \A v \in Workers \ {w} : thread'[v] = thread[v]
  BY <1>1 DEF TypeOK
<1>4. CASE main \in {"loop", "sleeps"}
  <2>1. applying /\ start = 1 /\ queue = <<PreJob>> /\ AllIdle
    BY <1>1, <1>4 DEF IInv, IdleInv
  <2>2. OneIs("pop")'
    BY <1>3, <2>1 DEF OneIs, AllIdle
  <2>3. IdleInv'
    BY <1>1, <1>4, <2>1, <2>2 DEF IInv, IdleInv, FrameDrawn
  <2> QED BY <1>1, <1>2, <1>4, <2>3 DEF IInv
<1>5. CASE main = "waits"
  <2>1. FrameInv
    BY <1>5 DEF IInv
  <2>2. Active' = Active \cup {w} /\ w \notin Active
    BY <1>1, <1>3 DEF Active
  <2>3. Cardinality(Active') = Cardinality(Active) + 1 /\ Cardinality(Active) \in Nat
    BY <2>2, Gains, Finite DEF Active
  <2>4. start' + Cardinality(Active') = Ends'
    BY <1>1, <2>1, <2>3 DEF FrameInv, Ends
  <2>5. \A v \in Active' : into'[v]
    BY <1>1, <2>1, <2>2 DEF FrameInv, TypeOK, Active
  <2>6. RowInv'
    BY <1>1, <1>3, <2>1, RowsStay DEF FrameInv
  <2>7. thread' \in [Workers -> {"idle", "pop", "drawing"}]
    BY <1>1, <2>1 DEF FrameInv
  <2> QED BY <1>1, <1>2, <1>5, <2>1, <2>4, <2>5, <2>6, <2>7 DEF IInv, FrameInv, Ends
<1>6. CASE main \in {"joins", "ended"}
  <2>1. JoinInv
    BY <1>6 DEF IInv
  <2>2. Popping' = Popping \cup {w} /\ w \notin Popping /\ Alive' = Alive
    BY <1>1, <1>3 DEF Popping, Alive
  <2>3. Cardinality(Popping') = Cardinality(Popping) + 1 /\ Cardinality(Popping) \in Nat
    BY <2>2, Gains, Finite DEF Popping
  <2>4. start' + Cardinality(Popping') = Len(queue')
    BY <1>1, <2>1, <2>3 DEF JoinInv
  <2>5. thread' \in [Workers -> {"idle", "pop", "applying", "exited"}]
    BY <1>1, <2>1 DEF JoinInv
  <2> QED BY <1>1, <1>2, <1>6, <2>1, <2>2, <2>4, <2>5 DEF IInv, JoinInv, Pending
<1> QED BY <1>1, <1>4, <1>5, <1>6 DEF TypeOK

\* What taking a job off the queue does to it.
LEMMA TailIs ==
    ASSUME NEW q \in Seq(Jobs), q # <<>>
    PROVE  /\ Len(q) \in Nat \ {0} /\ Head(q) = q[1] /\ Head(q) \in Jobs
           /\ Tail(q) \in Seq(Jobs) /\ Len(Tail(q)) = Len(q) - 1
           /\ \A i \in 1 .. Len(Tail(q)) : i + 1 \in 1 .. Len(q) /\ Tail(q)[i] = q[i + 1]
OBVIOUS

\* What any job that is taken does: who leaves Popping, and how the queue moves up.
LEMMA Popped ==
    ASSUME IInv, NEW w \in Workers, Pop(w)
    PROVE  /\ TypeOK /\ TypeOK'
           /\ thread[w] = "pop" /\ queue # <<>> /\ w \in Popping /\ w \in Active
           /\ Len(queue) \in Nat \ {0} /\ queue[1] \in Jobs /\ Len(queue') = Len(queue) - 1
           /\ \A i \in 1 .. Len(queue') : i + 1 \in 1 .. Len(queue) /\ queue'[i] = queue[i + 1]
           /\ thread'[w] = CASE queue[1] = FrameDone -> "idle"
                              [] queue[1] = Exit      -> "exited"
                              [] queue[1] = PreJob    -> "applying"
                              [] OTHER                -> "drawing"
           /\ job'[w] = queue[1]
           /\ \A v \in Workers \ {w} : thread'[v] = thread[v] /\ job'[v] = job[v]
           /\ done' = IF queue[1] = FrameDone THEN done + 1 ELSE done
           /\ UNCHANGED <<main, left, start, target, applying, asked, into, drawn>>
<1>1. TypeOK /\ queue # <<>> /\ thread[w] = "pop"
  BY DEF IInv, Pop, MayPop
<1>2. /\ Len(queue) \in Nat \ {0} /\ Head(queue) = queue[1] /\ Head(queue) \in Jobs
      /\ queue' = Tail(queue) /\ queue' \in Seq(Jobs) /\ Len(queue') = Len(queue) - 1
      /\ \A i \in 1 .. Len(queue') : i + 1 \in 1 .. Len(queue) /\ queue'[i] = queue[i + 1]
  BY <1>1, TailIs DEF Pop, TypeOK
<1>3. /\ thread'[w] = CASE queue[1] = FrameDone -> "idle"
                         [] queue[1] = Exit      -> "exited"
                         [] queue[1] = PreJob    -> "applying"
                         [] OTHER                -> "drawing"
      /\ job'[w] = queue[1]
      /\ \A v \in Workers \ {w} : thread'[v] = thread[v] /\ job'[v] = job[v]
  BY <1>1, <1>2 DEF Pop, TypeOK
<1>4. thread' \in [Workers -> {"idle", "pop", "drawing", "applying", "exited"}]
  BY <1>1 DEF Pop, TypeOK
<1>5. job' \in [Workers -> Jobs] /\ done' \in Nat
  BY <1>1, <1>2 DEF Pop, TypeOK
<1>6. TypeOK'
  BY <1>1, <1>2, <1>4, <1>5 DEF Pop, TypeOK
<1> QED BY <1>1, <1>2, <1>3, <1>6 DEF Pop, Popping, Active

\* Between frames only damage to be preapplied is taken.
LEMMA PopKeepsIdle ==
    ASSUME IInv, NEW w \in Workers, Pop(w), main \in {"loop", "sleeps"}
    PROVE  IInv'
<1>1. IdleInv /\ thread[w] = "pop" /\ queue # <<>>
  BY Popped DEF IInv
<1>2. applying /\ start = 0 /\ queue = <<PreJob>> /\ OneIs("pop")
  BY <1>1 DEF IdleInv, AllIdle
<1>3. queue[1] = PreJob /\ Len(queue') = 0 /\ queue' \in Seq(Jobs)
  <2>1. queue[1] = PreJob /\ Len(queue) = 1
    BY <1>2
  <2>2. Len(queue') = Len(queue) - 1 /\ TypeOK'
    BY Popped
  <2> QED BY <2>1, <2>2 DEF TypeOK
<1>4. thread'[w] = "applying" /\ done' = done /\ queue' = <<>>
  BY <1>3, Popped, JobsAre
<1>5. OneIs("applying")'
  <2>1. \A v \in Workers \ {w} : thread'[v] = thread[v]
    BY Popped
  <2>2. \A v \in Workers \ {w} : thread[v] = "idle"
    BY <1>1, <1>2 DEF OneIs
  <2> QED BY <1>4, <2>1, <2>2 DEF OneIs
<1>6. /\ TypeOK' /\ UNCHANGED <<main, applying, start, asked, drawn>>
  BY Popped
<1>7. IdleInv'
  BY <1>1, <1>2, <1>4, <1>5, <1>6 DEF IdleInv, FrameDrawn
<1> QED BY <1>6, <1>7 DEF IInv

\* The end of a frame is taken when no row is left in the queue.
LEMMA PopKeepsEnd ==
    ASSUME IInv, NEW w \in Workers, Pop(w), main = "waits", queue[1] = FrameDone
    PROVE  IInv'
<1>1. FrameInv /\ TypeOK /\ TypeOK' /\ Len(queue) \in Nat \ {0}
      /\ UNCHANGED <<main, left, start, target, applying, asked, into, drawn>>
      /\ thread'[w] = "idle" /\ done' = done + 1 /\ thread[w] = "pop"
      /\ \A v \in Workers \ {w} : thread'[v] = thread[v] /\ job'[v] = job[v]
  BY Popped, JobsAre DEF IInv
<1>2. left \in Nat /\ done \in Nat /\ Ends \in 0 .. Len(queue) /\ Ends' = Ends - 1
  BY <1>1 DEF FrameInv, Ends, TypeOK
<1>3. Ends = Len(queue)
  <2>1. 1 > Len(queue) - Ends
    BY <1>1, <1>2, JobsAre DEF FrameInv
  <2> QED BY <1>1, <1>2, <2>1
<1>4. Len(queue') = Len(queue) - 1
      /\ \A i \in 1 .. Len(queue') : i + 1 \in 1 .. Len(queue) /\ queue'[i] = queue[i + 1]
  BY Popped
<1>5. \A i \in 1 .. Len(queue) : queue[i] = FrameDone
  BY <1>1, <1>2, <1>3 DEF FrameInv
<1>6. Ends' = Len(queue') /\ \A i \in 1 .. Len(queue') : queue'[i] = FrameDone
  BY <1>2, <1>3, <1>4, <1>5
<1>7. queue' \in Seq(Jobs) /\ (Len(queue') = 0 => queue' = <<>>)
  BY <1>1 DEF TypeOK
<1>8. Active' = Active \ {w} /\ w \in Active /\ Active \in SUBSET Workers
  BY <1>1 DEF Active
<1>9. Cardinality(Active') = Cardinality(Active) - 1 /\ Cardinality(Active) \in Nat
  BY <1>8, Loses, Finite
<1>10. start' + Cardinality(Active') = Ends'
  BY <1>1, <1>2, <1>9 DEF FrameInv, TypeOK
<1>11. RowInv'
  <2>1. \A i \in 1 .. Len(queue') : queue'[i] \notin ScreenRows
    BY <1>6, JobsAre
  <2>2. ~ \E r \in ScreenRows : \E i \in 1 .. Len(queue) : queue[i] = r
    BY <1>5, JobsAre
  <2>3. \A v \in Workers : thread'[v] = "drawing" => thread[v] = "drawing" /\ job'[v] = job[v]
    BY <1>1
  <2>4. \A v \in Workers : thread[v] = "drawing" => thread'[v] = "drawing" /\ job'[v] = job[v]
    BY <1>1
  <2>5. RowInv /\ UNCHANGED <<asked, drawn>>
    BY <1>1 DEF FrameInv
  <2> QED BY <2>1, <2>2, <2>3, <2>4, <2>5 DEF RowInv, Drawing
<1>12. thread' \in [Workers -> {"idle", "pop", "drawing"}]
  BY <1>1 DEF FrameInv, TypeOK
<1>13. \A v \in Active' : into'[v]
  BY <1>1, <1>8 DEF FrameInv
<1>14. FrameInv'
  <2>1. Len(queue') - Ends' = 0 /\ Ends' \in 0 .. Len(queue') /\ (Ends' = 0 => queue' = <<>>)
    BY <1>1, <1>4, <1>6, <1>7
  <2>2. \A i \in 1 .. Len(queue') :
           IF i > Len(queue') - Ends' THEN queue'[i] = FrameDone ELSE queue'[i] \in ScreenRows
    BY <1>6, <2>1
  <2> QED BY <1>1, <1>10, <1>11, <1>12, <1>13, <2>1, <2>2 DEF FrameInv
<1> QED BY <1>1, <1>14 DEF IInv

\* A row that is taken is in no other place of the queue, and nobody draws it.
LEMMA PopKeepsRow ==
    ASSUME IInv, NEW w \in Workers, Pop(w), main = "waits", queue[1] # FrameDone
    PROVE  IInv'
<1>1. FrameInv /\ TypeOK /\ TypeOK' /\ Len(queue) \in Nat \ {0}
      /\ UNCHANGED <<main, left, start, target, applying, asked, into, drawn>>
      /\ done' = done /\ thread[w] = "pop" /\ job'[w] = queue[1]
      /\ \A v \in Workers \ {w} : thread'[v] = thread[v] /\ job'[v] = job[v]
  BY Popped DEF IInv
<1>2. queue[1] \in ScreenRows /\ Ends \in Nat /\ Ends < Len(queue) /\ Ends' = Ends
  BY <1>1 DEF FrameInv, Ends
<1>3. thread'[w] = "drawing"
  BY <1>2, Popped, JobsAre
<1>4. Len(queue') = Len(queue) - 1
      /\ \A i \in 1 .. Len(queue') : i + 1 \in 1 .. Len(queue) /\ queue'[i] = queue[i + 1]
  BY Popped
<1>5. Active' = Active
  BY <1>1, <1>3 DEF Active
<1>6. RowInv'
  <2> DEFINE h == queue[1]
             Draws(v, r) == thread'[v] = "drawing" /\ job'[v] = r
  <2>1. RowInv /\ UNCHANGED <<asked, drawn>> /\ 1 \in 1 .. Len(queue)
    BY <1>1 DEF FrameInv
  <2>2. h \in asked /\ drawn[h] = 0 /\ \A v \in Workers : ~Drawing(v, h)
    BY <1>2, <2>1 DEF RowInv
  <2>3. \A i, j \in 1 .. Len(queue') : queue'[i] = queue'[j] /\ queue'[i] \in ScreenRows => i = j
    <3> SUFFICES ASSUME NEW i \in 1 .. Len(queue'), NEW j \in 1 .. Len(queue'),
                        queue'[i] = queue'[j], queue'[i] \in ScreenRows
                 PROVE  i = j
      OBVIOUS
    <3>1. i + 1 = j + 1
      BY <1>4, <2>1 DEF RowInv
    <3> QED BY <3>1
  <2>4. \A i \in 1 .. Len(queue') : queue'[i] \in ScreenRows => queue'[i] # h
    <3> SUFFICES ASSUME NEW i \in 1 .. Len(queue'), queue'[i] \in ScreenRows, queue'[i] = h
                 PROVE  FALSE
      OBVIOUS
    <3>1. i + 1 = 1
      BY <1>4, <2>1 DEF RowInv
    <3> QED BY <3>1
  <2>5. /\ \A r : Draws(w, r) <=> r = h
        /\ \A v \in Workers \ {w} : \A r : Draws(v, r) <=> Drawing(v, r)
        /\ \A r : ~Drawing(w, r)
    BY <1>1, <1>3 DEF Drawing
  <2>6. \A i \in 1 .. Len(queue') : queue'[i] \in ScreenRows =>
           /\ queue'[i] \in asked /\ drawn[queue'[i]] = 0
           /\ \A v \in Workers : ~Draws(v, queue'[i])
    <3> SUFFICES ASSUME NEW i \in 1 .. Len(queue'), queue'[i] \in ScreenRows
                 PROVE  /\ queue'[i] \in asked /\ drawn[queue'[i]] = 0
                        /\ \A v \in Workers : ~Draws(v, queue'[i])
      OBVIOUS
    <3>1. queue'[i] \in asked /\ drawn[queue'[i]] = 0
          /\ \A v \in Workers : ~Drawing(v, queue'[i])
      BY <1>4, <2>1 DEF RowInv
    <3> QED BY <2>4, <2>5, <3>1
  <2>7. \A v \in Workers : thread'[v] = "drawing" => job'[v] \in asked /\ drawn[job'[v]] = 0
    BY <1>1, <2>1, <2>2 DEF RowInv
  <2>8. \A u, v \in Workers : thread'[u] = "drawing" /\ Draws(v, job'[u]) => u = v
    <3> SUFFICES ASSUME NEW u \in Workers, NEW v \in Workers,
                        thread'[u] = "drawing", Draws(v, job'[u])
                 PROVE  u = v
      OBVIOUS
    <3> HIDE DEF Draws
    <3>1. CASE u = w
      <4>1. job'[u] = h
        BY <1>1, <3>1
      <4> QED BY <2>2, <2>5, <3>1, <4>1
    <3>2. CASE u # w
      <4>1. thread[u] = "drawing" /\ job'[u] = job[u] /\ job[u] # h
        BY <1>1, <2>2, <3>2 DEF Drawing
      <4>2. v # w
        BY <2>5, <4>1
      <4>3. Drawing(v, job[u])
        BY <2>5, <4>1, <4>2
      <4> QED BY <2>1, <4>1, <4>3 DEF RowInv
    <3> QED BY <3>1, <3>2
  <2>9. ASSUME NEW r \in asked, r \in ScreenRows
        PROVE  \/ drawn[r] = 1 \/ \E i \in 1 .. Len(queue') : queue'[i] = r
               \/ \E v \in Workers : Draws(v, r)
    <3> HIDE DEF Draws
    <3>1. CASE \E i \in 1 .. Len(queue) : queue[i] = r
      <4>1. PICK i \in 1 .. Len(queue) : queue[i] = r
        BY <3>1
      <4>2. CASE i = 1
        BY <2>5, <4>1, <4>2
      <4>3. CASE i # 1
        <5>1. i - 1 \in 1 .. Len(queue') /\ (i - 1) + 1 = i
          BY <1>1, <1>4, <4>3
        <5>2. queue'[i - 1] = r
          BY <1>4, <4>1, <5>1
        <5> QED BY <5>1, <5>2
      <4> QED BY <4>2, <4>3
    <3>2. CASE \E v \in Workers : Drawing(v, r)
      BY <2>5, <3>2
    <3> QED BY <2>1, <2>9, <3>1, <3>2 DEF RowInv
  <2>10. \A r \in ScreenRows : drawn[r] \in {0, 1} /\ (r \notin asked => drawn[r] = 0)
    BY <2>1 DEF RowInv
  <2> QED BY <2>1, <2>3, <2>6, <2>7, <2>8, <2>9, <2>10 DEF RowInv, Drawing
<1>7. thread' \in [Workers -> {"idle", "pop", "drawing"}]
  BY <1>1, <1>3 DEF FrameInv, TypeOK
<1>8. FrameInv'
  <2>1. Ends' \in 0 .. Len(queue') /\ Ends' # 0
    BY <1>1, <1>2, <1>4 DEF FrameInv
  <2>2. ASSUME NEW i \in 1 .. Len(queue')
        PROVE  IF i > Len(queue') - Ends' THEN queue'[i] = FrameDone ELSE queue'[i] \in ScreenRows
    <3>1. (i > Len(queue') - Ends') = (i + 1 > Len(queue) - Ends)
      BY <1>1, <1>2, <1>4
    <3>2. i + 1 \in 1 .. Len(queue) /\ queue'[i] = queue[i + 1]
      BY <1>4
    <3> QED BY <1>1, <3>1, <3>2 DEF FrameInv
  <2> QED BY <1>1, <1>2, <1>5, <1>6, <1>7, <2>1, <2>2 DEF FrameInv
<1> QED BY <1>1, <1>8 DEF IInv

\* A thread that exits takes its command with it; damage is preapplied before that.
LEMMA PopKeepsJoin ==
    ASSUME IInv, NEW w \in Workers, Pop(w), main \in {"joins", "ended"}
    PROVE  IInv'
<1>1. /\ JoinInv /\ TypeOK /\ TypeOK' /\ Len(queue) \in Nat \ {0}
      /\ UNCHANGED <<main, left, start, target, applying, asked, into, drawn>>
      /\ thread[w] = "pop" /\ queue # <<>> /\ w \in Popping
      /\ \A v \in Workers \ {w} : thread'[v] = thread[v]
      /\ Len(queue') = Len(queue) - 1
      /\ \A i \in 1 .. Len(queue') : i + 1 \in 1 .. Len(queue) /\ queue'[i] = queue[i + 1]
  BY Popped DEF IInv
<1>2. queue[1] \in {Exit, PreJob}
      /\ thread'[w] = (IF queue[1] = Exit THEN "exited" ELSE "applying")
  <2>1. queue[1] \in {Exit, PreJob}
    BY <1>1 DEF JoinInv
  <2>2. Exit # FrameDone /\ PreJob # FrameDone /\ Exit # PreJob
    BY JobsAre
  <2>3. thread'[w] = CASE queue[1] = FrameDone -> "idle"
                       [] queue[1] = Exit      -> "exited"
                       [] queue[1] = PreJob    -> "applying"
                       [] OTHER                -> "drawing"
    BY Popped
  <2> QED BY <2>1, <2>2, <2>3
<1>3. ASSUME NEW i \in 1 .. Len(queue') PROVE queue'[i] = Exit
  <2>1. i + 1 \in 1 .. Len(queue) /\ queue'[i] = queue[i + 1] /\ i + 1 # 1
    BY <1>1
  <2> QED BY <1>1, <2>1 DEF JoinInv
<1>4. Pending' = 0 /\ Pending = (IF queue[1] = PreJob THEN 1 ELSE 0)
  <2>1. queue' # <<>> => Len(queue') >= 1
    BY <1>1 DEF TypeOK
  <2>2. queue' # <<>> => queue'[1] = Exit
    BY <1>1, <1>3, <2>1
  <2> QED BY <1>1, <2>2, JobsAre DEF Pending
<1>5. Popping' = Popping \ {w} /\ Popping \in SUBSET Workers /\ Alive \in SUBSET Workers
  BY <1>1, <1>2 DEF Popping, Alive
<1>6. Cardinality(Popping') = Cardinality(Popping) - 1 /\ Cardinality(Popping) \in Nat
  BY <1>1, <1>5, Loses, Finite
<1>7. start' + Cardinality(Popping') = Len(queue')
  <2>1. start \in Nat /\ start + Cardinality(Popping) = Len(queue)
    BY <1>1 DEF JoinInv, TypeOK
  <2>2. start' = start /\ Len(queue') = Len(queue) - 1 /\ Len(queue) \in Nat
    BY <1>1
  <2> QED BY <1>6, <2>1, <2>2
<1>8. Cardinality(Alive') = Len(queue') - Pending'
  <2> Len(queue') = Len(queue) - 1 /\ Len(queue) \in Nat
    BY <1>1
  <2>1. CASE queue[1] = Exit
    <3>1. Alive' = Alive \ {w} /\ w \in Alive
      BY <1>1, <1>2, <2>1 DEF Alive
    <3>2. Cardinality(Alive') = Cardinality(Alive) - 1 /\ Pending = 0
      BY <1>4, <1>5, <2>1, <3>1, Loses, JobsAre
    <3>3. Cardinality(Alive) = Len(queue) - Pending
      BY <1>1 DEF JoinInv
    <3> QED BY <1>4, <3>2, <3>3
  <2>2. CASE queue[1] = PreJob
    <3>1. Alive' = Alive
      BY <1>1, <1>2, <2>2, JobsAre DEF Alive
    <3>2. Cardinality(Alive) = Len(queue) - Pending /\ Pending = 1
      BY <1>1, <1>4, <2>2 DEF JoinInv
    <3> QED BY <1>4, <3>1, <3>2
  <2> QED BY <1>2, <2>1, <2>2
<1>9. thread' \in [Workers -> {"idle", "pop", "applying", "exited"}]
  BY <1>1, <1>2 DEF JoinInv, TypeOK
<1>10. JoinInv'
  BY <1>3, <1>7, <1>8, <1>9 DEF JoinInv
<1> QED BY <1>1, <1>10 DEF IInv

LEMMA PopKeeps ==
    ASSUME IInv, NEW w \in Workers, Pop(w)
    PROVE  IInv'
BY PopKeepsIdle, PopKeepsEnd, PopKeepsRow, PopKeepsJoin DEF IInv, TypeOK

LEMMA DrawKeeps ==
    ASSUME IInv, NEW w \in Workers, Draw(w)
    PROVE  IInv'
<1> DEFINE r == job[w]
<1>1. TypeOK /\ thread[w] = "drawing"
  BY DEF IInv, Draw
<1>2. main = "waits" /\ FrameInv
  BY <1>1 DEF IInv, TypeOK, IdleInv, AllIdle, OneIs, JoinInv
<1>3. /\ UNCHANGED <<main, left, start, done, queue, target, applying, asked, job, into>>
      /\ drawn' = [drawn EXCEPT ![r] = @ + 1] /\ thread' = [thread EXCEPT ![w] = "pop"]
  BY DEF Draw, mainVars
<1>4. r \in asked /\ r \in ScreenRows /\ drawn[r] = 0
  BY <1>1, <1>2 DEF FrameInv, RowInv, TypeOK
<1>5. /\ drawn'[r] = 1 /\ \A q \in ScreenRows \ {r} : drawn'[q] = drawn[q]
      /\ thread'[w] = "pop" /\ \A v \in Workers \ {w} : thread'[v] = thread[v]
  BY <1>1, <1>3, <1>4 DEF TypeOK
<1>6. TypeOK'
  BY <1>1, <1>3, <1>4 DEF TypeOK
<1>7. Active' = Active
  BY <1>1, <1>5 DEF Active
<1>8. RowInv'
  <2>1. RowInv
    BY <1>2 DEF FrameInv
  <2>2. Drawing(w, r) /\ \A v \in Workers \ {w} : ~Drawing(v, r)
    BY <1>1, <2>1 DEF RowInv, Drawing
  <2>3. \A i \in 1 .. Len(queue) : queue[i] # r
    BY <1>4, <2>1, <2>2 DEF RowInv
  <2>4. \A v \in Workers : thread'[v] = "drawing" =>
           v # w /\ thread[v] = "drawing" /\ job[v] # r /\ drawn'[job[v]] = drawn[job[v]]
    <3> SUFFICES ASSUME NEW v \in Workers, thread'[v] = "drawing"
                 PROVE  v # w /\ thread[v] = "drawing" /\ job[v] # r /\ drawn'[job[v]] = drawn[job[v]]
      OBVIOUS
    <3>1. v # w /\ thread[v] = "drawing"
      BY <1>5
    <3>2. job[v] # r
      BY <2>2, <3>1 DEF Drawing
    <3>3. job[v] \in ScreenRows
      BY <1>1, <2>1, <3>1 DEF RowInv, TypeOK
    <3> QED BY <1>5, <3>1, <3>2, <3>3
  <2>5. \A v \in Workers : thread'[v] = "drawing" => thread[v] = "drawing"
    BY <1>5
  <2>6. \A i, j \in 1 .. Len(queue) : queue[i] = queue[j] /\ queue[i] \in ScreenRows => i = j
    BY <2>1 DEF RowInv
  <2>7. \A i \in 1 .. Len(queue) : queue[i] \in ScreenRows =>
           /\ queue[i] \in asked /\ drawn'[queue[i]] = 0
           /\ \A v \in Workers : ~(thread'[v] = "drawing" /\ job[v] = queue[i])
    BY <1>5, <2>1, <2>3, <2>5 DEF RowInv, Drawing
  <2>8. \A v \in Workers : thread'[v] = "drawing" => job[v] \in asked /\ drawn'[job[v]] = 0
    BY <2>1, <2>4 DEF RowInv
  <2>9. \A u, v \in Workers : thread'[u] = "drawing" /\ thread'[v] = "drawing" /\ job[v] = job[u]
           => u = v
    BY <2>1, <2>5 DEF RowInv, Drawing
  <2>10. ASSUME NEW q \in ScreenRows
         PROVE  /\ drawn'[q] \in {0, 1} /\ (q \notin asked => drawn'[q] = 0)
                /\ q \in asked => \/ drawn'[q] = 1 \/ \E i \in 1 .. Len(queue) : queue[i] = q
                                  \/ \E v \in Workers : thread'[v] = "drawing" /\ job[v] = q
    <3>1. CASE q = r
      BY <1>4, <1>5, <3>1
    <3>2. CASE q # r
      <4>1. drawn'[q] = drawn[q]
        BY <1>5, <3>2
      <4>2. \A v \in Workers : Drawing(v, q) => thread'[v] = "drawing" /\ job[v] = q
        BY <1>5, <3>2 DEF Drawing
      <4> QED BY <2>1, <4>1, <4>2 DEF RowInv
    <3> QED BY <3>1, <3>2
  <2> QED BY <1>3, <2>6, <2>7, <2>8, <2>9, <2>10 DEF RowInv, Drawing
<1>9. thread' \in [Workers -> {"idle", "pop", "drawing"}]
  BY <1>2, <1>3 DEF FrameInv
<1>10. FrameInv'
  BY <1>2, <1>3, <1>7, <1>8, <1>9 DEF FrameInv, Ends
<1> QED BY <1>2, <1>3, <1>6, <1>10 DEF IInv

LEMMA PreapplyKeeps ==
    ASSUME IInv, NEW w \in Workers, Preapply(w)
    PROVE  IInv'
<1>1. /\ TypeOK /\ thread[w] = "applying" /\ thread'[w] = "idle" /\ applying' = FALSE
      /\ main' = IF main = "sleeps" THEN "loop" ELSE main
      /\ thread' = [thread EXCEPT ![w] = "idle"]
      /\ \A v \in Workers \ {w} : thread'[v] = thread[v]
      /\ UNCHANGED <<left, start, done, queue, target, asked, job, into, drawn>>
  BY DEF IInv, Preapply, TypeOK
<1>2. TypeOK'
  BY <1>1 DEF TypeOK
<1>3. CASE main \in {"loop", "sleeps"}
  <2>1. start = 0 /\ queue = <<>> /\ OneIs("applying") /\ FrameDrawn /\ done = 0
    BY <1>1, <1>3 DEF IInv, IdleInv, AllIdle, OneIs
  <2>2. AllIdle'
    BY <1>1, <2>1 DEF OneIs, AllIdle
  <2>3. main' = "loop"
    BY <1>1, <1>3
  <2> QED BY <1>1, <1>2, <2>1, <2>2, <2>3 DEF IInv, IdleInv, FrameDrawn
<1>4. CASE main = "waits"
  BY <1>1, <1>4 DEF IInv, FrameInv
<1>5. CASE main \in {"joins", "ended"}
  <2>1. Popping' = Popping /\ Alive' = Alive
    BY <1>1 DEF Popping, Alive
  <2>2. thread' \in [Workers -> {"idle", "pop", "applying", "exited"}]
    BY <1>1, <1>5 DEF IInv, JoinInv
  <2> QED BY <1>1, <1>2, <1>5, <2>1, <2>2 DEF IInv, JoinInv, Pending
<1> QED BY <1>1, <1>3, <1>4, <1>5 DEF TypeOK

(***************************************************************************)
(* The theorems                                                            *)
(***************************************************************************)

LEMMA NextIInv == IInv /\ [Next]_vars => IInv'
<1> SUFFICES ASSUME IInv, [Next]_vars PROVE IInv'
  OBVIOUS
<1>1. ASSUME NEW rows \in SUBSET ScreenRows, GridRender(rows) PROVE IInv'
  BY <1>1, GridRenderKeeps
<1>2. ASSUME NEW w \in Workers, Work(w) PROVE IInv'
  BY <1>2, StartKeeps, PopKeeps, DrawKeeps, PreapplyKeeps DEF Work
<1>3. CASE UNCHANGED vars
  BY <1>3 DEF vars, mainVars, workVars, IInv, TypeOK, IdleInv, FrameDrawn, AllIdle, OneIs,
              FrameInv, RowInv, Drawing, Ends, Active, JoinInv, Popping, Alive, Pending
<1> QED BY <1>1, <1>2, <1>3, FrameWaitKeeps, WaitForPreapplyKeeps, BufferReleasedKeeps,
           TermDestroyKeeps, JoinedKeeps DEF Next

\* What is in the queue, what the semaphores count and where the threads are agree in
\* every behaviour of the main thread and the workers (render_worker_thread(), grid_render()).
THEOREM Invariance == Spec => []IInv
<1> QED BY InitIInv, NextIInv, PTL DEF Spec

\* grid_render() goes on when every dirty row was drawn, once, and no other; and only
\* workers that know the frame's buffer draw, while it waits.
THEOREM FrameComplete == Spec => []FrameIsComplete
<1>1. IInv => FrameIsComplete
  <2> SUFFICES ASSUME IInv PROVE FrameIsComplete
    OBVIOUS
  <2>1. main = "loop" => \A r \in ScreenRows : drawn[r] = (IF r \in asked THEN 1 ELSE 0)
    BY DEF IInv, IdleInv, FrameDrawn
  <2>2. ASSUME NEW w \in Workers, thread[w] = "drawing" PROVE into[w] /\ main = "waits"
    <3>1. main = "waits"
      BY <2>2 DEF IInv, TypeOK, IdleInv, AllIdle, OneIs, JoinInv
    <3> QED BY <2>2, <3>1 DEF IInv, FrameInv, Active
  <2> QED BY <2>1, <2>2 DEF FrameIsComplete
<1> QED BY <1>1, Invariance, PTL

\* A thread that was started finds a job in the queue: the xassert in render_worker_thread()
\* that the queue is not empty holds.
PopsAJob == \A w \in Workers : thread[w] = "pop" => queue # <<>>
LEMMA StartedFindsAJob == IInv => PopsAJob
<1> SUFFICES ASSUME IInv, NEW w \in Workers, thread[w] = "pop" PROVE queue # <<>>
  BY DEF PopsAJob
<1>1. CASE main \in {"loop", "sleeps"}
  BY <1>1 DEF IInv, IdleInv, AllIdle, OneIs
<1>2. CASE main = "waits"
  <2>1. Active \in SUBSET Workers /\ w \in Active
    BY DEF Active
  <2>2. Cardinality(Active) \in Nat \ {0}
    BY <2>1, Finite
  <2>3. Ends # 0
    BY <1>2, <2>2 DEF IInv, FrameInv, TypeOK
  <2> QED BY <1>2, <2>3 DEF IInv, FrameInv
<1>3. CASE main \in {"joins", "ended"}
  <2>1. Popping \in SUBSET Workers /\ w \in Popping
    BY DEF Popping
  <2>2. Cardinality(Popping) \in Nat \ {0}
    BY <2>1, Finite
  <2>3. Len(queue) # 0
    BY <1>3, <2>2 DEF IInv, JoinInv, TypeOK
  <2> QED BY <2>3
<1> QED BY <1>1, <1>2, <1>3 DEF IInv, TypeOK
THEOREM QueueIsNotEmpty == Spec => []PopsAJob
<1> QED BY StartedFindsAJob, Invariance, PTL

\* The main thread and the workers never all wait for each other: not for the end of a
\* frame, for damage that is preapplied, or when the threads are joined.
THEOREM Unstuck == Spec => []NobodyIsStuck
<1>1. IInv => NobodyIsStuck
  <2> SUFFICES ASSUME IInv, main \notin {"loop", "ended"}, ~FrameMayGoOn, ~AllExited
               PROVE  \E w \in Workers :
                         MayStart(w) \/ MayPop(w) \/ thread[w] \in {"drawing", "applying"}
    BY DEF NobodyIsStuck
  <2>1. PopsAJob /\ TypeOK
    BY StartedFindsAJob DEF IInv
  <2>2. CASE main = "sleeps"
    BY <2>1, <2>2, WorkersAssumption
       DEF IInv, IdleInv, AllIdle, OneIs, MayStart, MayPop, PopsAJob
  <2>3. CASE main = "waits"
    <3>1. done = 0 /\ left >= 1 /\ left \in Nat /\ start \in Nat /\ FrameInv
      BY <2>1, <2>3, CountType DEF FrameMayGoOn, IInv, TypeOK, FrameInv
    <3>2. CASE Active # {}
      BY <2>1, <3>2 DEF Active, MayPop, PopsAJob
    <3>3. CASE Active = {}
      <4>1. Cardinality(Active) = 0
        BY <3>3, FS_EmptySet
      <4>2. start > 0
        BY <3>1, <4>1 DEF FrameInv, Ends
      <4>3. \A w \in Workers : thread[w] = "idle"
        BY <3>1, <3>3 DEF FrameInv, Active
      <4> QED BY <4>2, <4>3, WorkersAssumption DEF MayStart
    <3> QED BY <3>2, <3>3
  <2>4. CASE main = "joins"
    <3>1. JoinInv
      BY <2>4 DEF IInv
    <3>2. PICK w \in Workers : thread[w] # "exited"
      BY <2>4 DEF AllExited
    <3>3. CASE thread[w] # "idle"
      BY <2>1, <3>1, <3>2, <3>3 DEF JoinInv, MayPop, PopsAJob
    <3>4. CASE Popping # {}
      BY <2>1, <3>4 DEF Popping, MayPop, PopsAJob
    <3>5. CASE thread[w] = "idle" /\ Popping = {}
      <4>1. Alive \in SUBSET Workers /\ w \in Alive
        BY <3>2 DEF Alive
      <4>2. Cardinality(Alive) \in Nat \ {0}
        BY <4>1, Finite
      <4>3. Cardinality(Popping) = 0
        BY <3>5, FS_EmptySet
      <4>4. start \in Nat /\ Len(queue) \in Nat /\ Pending \in {0, 1}
        BY <2>1 DEF TypeOK, Pending
      <4>5. start > 0
        BY <3>1, <4>2, <4>3, <4>4 DEF JoinInv
      <4> QED BY <3>5, <4>5 DEF MayStart
    <3> QED BY <3>3, <3>4, <3>5
  <2> QED BY <2>1, <2>2, <2>3, <2>4 DEF TypeOK
<1> QED BY <1>1, Invariance, PTL
===============================================================================
