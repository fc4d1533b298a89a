---------------------------- MODULE ProcessProofs ---------------------------
(***************************************************************************)
(* Proofs about what the replicas do besides serving requests, for every   *)
(* value of the constants of Processes: Outbox, Scheduler and Lifecycle.   *)
(***************************************************************************)
EXTENDS Processes, Sequences, FiniteSetTheorems, TLAPS
-----------------------------------------------------------------------------
(* A runtime that is not off has an open bus, only such a runtime holds    *)
(* rows, and they were committed; what it published is in the stream.      *)
Held(r) ==
  /\ phase[r] # "off" => bus[r] = "open"
  /\ work[r] # {} => phase[r] # "off"
  /\ sent[r] \subseteq work[r] \cap stream
  /\ \A e \in work[r] : row[e] # "none"

IInv == TypeOK /\ MarkedMeansDelivered /\ \A r \in Replicas : Held(r)
-----------------------------------------------------------------------------
(* Nothing is committed, delivered or held at the start.                   *)
LEMMA InitHolds == Init => IInv
  BY DEF Init, IInv, TypeOK, MarkedMeansDelivered, Held

(* Commits and leases that pass touch the table only: no row becomes one   *)
(* that was never committed, and none is marked.                           *)
LEMMA TableStep ==
  ASSUME IInv, NEW e \in Events, Commit(e) \/ LeaseEnds(e)
  PROVE  IInv'
  BY DEF IInv, TypeOK, MarkedMeansDelivered, Held, Commit, LeaseEnds, runtime

(* start, stop and the death of a replica: the bus is closed, or made anew,*)
(* only while nothing is held, or together with giving it up.              *)
LEMMA RuntimeStep ==
  ASSUME IInv, NEW r \in Replicas,
         Start(r) \/ StartFails(r) \/ Cancel(r) \/ GiveUp(r) \/ Close(r) \/ Crash(r)
  PROVE  IInv'
  <1> USE DEF IInv, TypeOK, MarkedMeansDelivered, Held
  <1>1. CASE Start(r) BY <1>1 DEF Start
  <1>2. CASE StartFails(r) BY <1>2 DEF StartFails
  <1>3. CASE Cancel(r) BY <1>3 DEF Cancel
  <1>4. CASE GiveUp(r) BY <1>4 DEF GiveUp
  <1>5. CASE Close(r) BY <1>5 DEF Close, LoopsEnded
  <1>6. CASE Crash(r) BY <1>6 DEF Crash
  <1> QED BY <1>1, <1>2, <1>3, <1>4, <1>5, <1>6

(* A turn of a loop: a batch is leased from committed rows, only what is   *)
(* in the stream is marked, and only what is marked is deleted.            *)
LEMMA TurnStep ==
  ASSUME IInv, NEW r \in Replicas, Turn(r)
  PROVE  IInv'
  <1> USE DEF IInv, TypeOK, MarkedMeansDelivered, Held
  <1> PICK e \in Events : ClaimSome(r, e) \/ Publish(r, e) \/ PublishFails(r, e) \/ Mark(r, e) \/ Clean(r, e)
      BY Zenon DEF Turn
  <1>1. CASE ClaimSome(r, e)
    <2> PICK batch \in SUBSET Events : Claim(r, batch)
        BY <1>1, Zenon DEF ClaimSome
    <2>1. \A x \in Events : row'[x] # row[x] => row[x] = "due" /\ row'[x] = "leased"
        BY Zenon DEF Claim, Due
    <2> QED BY <2>1 DEF Claim
  <1>2. CASE Publish(r, e) BY <1>2 DEF Publish
  <1>3. CASE PublishFails(r, e) BY <1>3 DEF PublishFails
  <1>4. CASE Mark(r, e) BY <1>4 DEF Mark, Markable
  <1>5. CASE Clean(r, e) BY <1>5 DEF Clean, Cleanable, runtime
  <1> QED BY <1>1, <1>2, <1>3, <1>4, <1>5

(* IInv is an inductive invariant of Outbox.                               *)
LEMMA Inductive == Spec => []IInv
  <1>1. IInv /\ [Next]_vars => IInv'
    <2> SUFFICES ASSUME IInv, [Next]_vars PROVE IInv'
        BY Zenon
    <2>1. CASE UNCHANGED vars
        BY <2>1 DEF vars, IInv, TypeOK, MarkedMeansDelivered, Held
    <2>2. ASSUME NEW e \in Events, Commit(e) \/ LeaseEnds(e) PROVE IInv'
        BY <2>2, TableStep, Zenon
    <2>3. ASSUME NEW r \in Replicas, Start(r) \/ StartFails(r) \/ Cancel(r) \/ GiveUp(r) \/ Close(r) \/ Crash(r)
          PROVE  IInv'
        BY <2>3, RuntimeStep, Zenon
    <2>4. ASSUME NEW r \in Replicas, Turn(r) PROVE IInv'
        BY <2>4, TurnStep, Zenon
    <2> QED BY <2>1, <2>2, <2>3, <2>4, Zenon DEF Next
  <1> QED BY InitHolds, <1>1, PTL DEF Spec

(* The rows, the stream and the runtimes of the replicas keep their types. *)
THEOREM TypeCorrect == Spec => []TypeOK
  <1>1. IInv => TypeOK
    BY Zenon DEF IInv
  <1> QED BY <1>1, Inductive, PTL

(* No event is lost: whatever dies, and whichever acknowledgement is lost, *)
(* a row that is marked or cleaned away has its message in the stream.     *)
THEOREM NoEventIsLost == Spec => []MarkedMeansDelivered
  <1>1. IInv => MarkedMeansDelivered
    BY Zenon DEF IInv
  <1> QED BY <1>1, Inductive, PTL

(* stop waits for the loops, so no dispatcher holds a row without its bus. *)
THEOREM BusIsOpen == Spec => []BusOutlivesDispatch
  <1>1. IInv => BusOutlivesDispatch
    BY Zenon DEF IInv, Held, BusOutlivesDispatch
  <1> QED BY <1>1, Inductive, PTL
-----------------------------------------------------------------------------
(* Only the commit of a business transaction makes an event committed, and *)
(* only a publication of one that is held changes the stream.              *)
LEMMA StepDelivers ==
  ASSUME IInv, [Next]_vars
  PROVE  [Delivery!Next]_(Delivery!vars)
  <1> USE DEF IInv, TypeOK, Delivery!vars
  <1> DEFINE Committed == {e \in Events : row[e] # "none"}
  <1> DEFINE Same == stream' = stream /\ \A x \in Events : row[x] # "none" <=> row'[x] # "none"
  <1>1. ASSUME Same PROVE UNCHANGED <<Committed, stream>>
    BY <1>1, Zenon
  <1>2. ASSUME NEW e \in Events, stream' \in {stream, stream \cup {e}}, row[e] # "none",
               \A x \in Events : row[x] # "none" <=> row'[x] # "none"
        PROVE  [Delivery!Next]_(Delivery!vars)
    <2>1. Committed' = Committed
      BY <1>2, Zenon
    <2>2. CASE stream' = stream
      BY <2>1, <2>2, Zenon
    <2>3. CASE stream' # stream
      <3>1. Delivery!Deliver(e)
        BY <1>2, <2>1, <2>3 DEF Delivery!Deliver
      <3> QED BY <3>1, Zenon DEF Delivery!Next
    <2> QED BY <2>2, <2>3, Zenon
  <1>3. CASE UNCHANGED vars
    BY <1>3, Zenon DEF vars
  <1>4. ASSUME NEW e \in Events, Commit(e) PROVE [Delivery!Next]_(Delivery!vars)
    <2>1. e \notin Committed /\ Committed' = Committed \cup {e} /\ stream' = stream
      BY <1>4, Zenon DEF Commit
    <2>2. Delivery!Commit(e)
      BY <2>1, Zenon DEF Delivery!Commit
    <2> QED BY <2>2, Zenon DEF Delivery!Next
  <1>5. ASSUME NEW e \in Events, LeaseEnds(e) PROVE Same
    BY <1>5, Zenon DEF LeaseEnds
  <1>6. ASSUME NEW r \in Replicas, Start(r) \/ StartFails(r) \/ Cancel(r) \/ GiveUp(r) \/ Close(r) \/ Crash(r)
        PROVE  Same
    BY <1>6, Zenon DEF Start, StartFails, Cancel, GiveUp, Close, Crash
  <1>7. ASSUME NEW r \in Replicas, NEW e \in Events, ClaimSome(r, e) \/ Mark(r, e) \/ Clean(r, e) PROVE Same
    BY <1>7 DEF ClaimSome, Claim, Due, Mark, Markable, Held, Clean, Cleanable, runtime
  <1>8. ASSUME NEW r \in Replicas, NEW e \in Events, Publish(r, e) \/ PublishFails(r, e)
        PROVE  [Delivery!Next]_(Delivery!vars)
    <2>1. row[e] # "none"
      BY <1>8, Zenon DEF Publish, PublishFails, Held
    <2>2. stream' \in {stream, stream \cup {e}} /\ \A x \in Events : row[x] # "none" <=> row'[x] # "none"
      BY <1>8, <2>1 DEF Publish, PublishFails
    <2> QED BY <2>1, <2>2, <1>2, Zenon
  <1> QED BY <1>1, <1>3, <1>4, <1>5, <1>6, <1>7, <1>8 DEF Next, Turn

(* The dispatchers of all replicas together implement the safety half of   *)
(* EventDelivery: an event reaches the stream only after the transaction   *)
(* that told it committed, and never leaves it.                            *)
THEOREM OutboxRefinesDelivery == Spec => DeliversOnlyCommitted
  <1>1. Init => Delivery!Init
    BY DEF Init, Delivery!Init
  <1>2. IInv /\ [Next]_vars => [Delivery!Next]_(Delivery!vars)
    BY StepDelivers, Zenon
  <1> QED BY <1>1, <1>2, Inductive, PTL DEF Spec, DeliversOnlyCommitted, Delivery!Safety
-----------------------------------------------------------------------------
(* Scheduler. With a locker, a replica that runs the job holds the lock    *)
(* under the token of that run, unless its lease has lapsed. A run has     *)
(* ended before the replica is stopped.                                    *)
RunnersHold ==
  locker => \A r \in Replicas : Scheduler!Running(r) =>
    lock[Scheduler!Key] = Scheduler!Token(r) \/ Scheduler!Token(r) \in lapsed

CronInv ==
  /\ job \in [Replicas -> {"idle", "lock", "run", "unlock"}]
  /\ run \in [Replicas -> Nat] /\ runs \in Nat
  /\ lock \in [Keys -> (Replicas \X Nat) \cup {NoHolder}]
  /\ cron \in [Replicas -> {"off", "on", "stopping", "stopped"}]
  /\ \A r \in Replicas : cron[r] \in {"off", "stopped"} => job[r] = "idle"
  /\ RunnersHold

LEMMA CronInit == Scheduler!Init => CronInv
  BY DEF Scheduler!Init, CronInv, RunnersHold, Scheduler!Running

LEMMA CronStep ==
  ASSUME Scheduler!SchedulerAssumption, CronInv, [Scheduler!Next]_(Scheduler!vars)
  PROVE  CronInv'
  <1> USE DEF CronInv, RunnersHold, Scheduler!Running, Scheduler!Token, Scheduler!SchedulerAssumption, Scheduler!At,
              Scheduler!LockFree, Scheduler!Locked, Scheduler!Unlocked, Scheduler!Lapsed, Scheduler!Released
  <1>1. CASE UNCHANGED Scheduler!vars
    BY <1>1, Zenon DEF Scheduler!vars
  <1>2. CASE Scheduler!Lapse
    BY <1>2, Zenon DEF Scheduler!Lapse
  <1>3. ASSUME NEW r \in Replicas, Scheduler!Start(r) \/ Scheduler!Stop(r) \/ Scheduler!Stopped(r) \/ Scheduler!Crash(r)
        PROVE  CronInv'
    <2>1. CASE Scheduler!Start(r)
      BY <1>3, <2>1 DEF Scheduler!Start
    <2>2. CASE Scheduler!Stop(r)
      BY <1>3, <2>2 DEF Scheduler!Stop
    <2>3. CASE Scheduler!Stopped(r)
      BY <1>3, <2>3 DEF Scheduler!Stopped, Scheduler!Finished
    <2>4. CASE Scheduler!Crash(r)
      BY <1>3, <2>4 DEF Scheduler!Crash
    <2> QED
      BY <1>3, <2>1, <2>2, <2>3, <2>4, Zenon
  <1>4. ASSUME NEW r \in Replicas, Scheduler!Tick(r) PROVE CronInv'
    BY <1>4 DEF Scheduler!Tick, Scheduler!StillRunning
  <1>5. ASSUME NEW r \in Replicas, Scheduler!TryLock(r) PROVE CronInv'
    BY <1>5 DEF Scheduler!TryLock
  <1>6. ASSUME NEW r \in Replicas, Scheduler!RunUnlocked(r) \/ Scheduler!Contended(r) \/ Scheduler!Execute(r)
        PROVE  CronInv'
    BY <1>6 DEF Scheduler!RunUnlocked, Scheduler!Contended, Scheduler!Execute
  <1>7. ASSUME NEW r \in Replicas, Scheduler!TryLockFails(r) PROVE CronInv'
    BY <1>7 DEF Scheduler!TryLockFails
  <1>8. ASSUME NEW r \in Replicas, Scheduler!Unlock(r) \/ Scheduler!UnlockFails(r) PROVE CronInv'
    BY <1>8 DEF Scheduler!Unlock, Scheduler!UnlockFails
  <1> QED
    BY <1>1, <1>2, <1>3, <1>4, <1>5, <1>6, <1>7, <1>8, Zenon DEF Scheduler!Next, Scheduler!Job

(* OneRunner: whatever replies are lost and whoever crashes, with a locker *)
(* two replicas run the job at once only after the lease of one of them    *)
(* has lapsed; with or without one, a stopped replica runs nothing.        *)
THEOREM OneRunnerAtATime == Scheduler!Spec => []OneRunner
  <1>1. CronInv /\ [Scheduler!Next]_(Scheduler!vars) => CronInv'
    BY CronStep, JobAssumption, Zenon
  <1>2. CronInv => OneRunner
    <2>1. ASSUME CronInv, locker, NEW r \in Replicas, NEW q \in Replicas,
                 Scheduler!Running(r), Scheduler!Running(q), r # q
          PROVE  Scheduler!Token(r) \in lapsed \/ Scheduler!Token(q) \in lapsed
      <3>1. Scheduler!Token(r) # Scheduler!Token(q)
        BY <2>1, Zenon DEF Scheduler!Token
      <3> QED
        BY <2>1, <3>1, Zenon DEF CronInv, RunnersHold
    <2>2. ASSUME CronInv, NEW r \in Replicas, cron[r] \in {"off", "stopped"} PROVE ~Scheduler!Running(r)
      <3>1. job[r] = "idle"
        BY <2>2, Zenon DEF CronInv
      <3> QED
        BY <3>1, Zenon DEF Scheduler!Running
    <2> QED
      BY <2>1, <2>2, Zenon DEF OneRunner, Scheduler!OneRunner
  <1> QED
    BY CronInit, <1>1, <1>2, PTL DEF Scheduler!Spec
-----------------------------------------------------------------------------
(* Lifecycle. What has started are the first parts of the order. Only they *)
(* work, and they are open from the first hook on until their own hook has *)
(* run; who migrates holds the lock, and who got through with auto_up      *)
(* leaves nothing to migrate.                                              *)
First(n) == {Lifecycle!Order[i] : i \in 1..n}
AllParts == First(9)

Migrating == {"migrate", "apply"}
Late == {"start", "run", "stop"}
Places == {"down", "schema", "lock", "build"} \cup Migrating \cup Late

LifeTypes ==
  /\ auto \in BOOLEAN /\ version \in 0..Top /\ dirty \in BOOLEAN
  /\ pc \in [Replicas -> Places] /\ up \in [Replicas -> 0..9]
  /\ open \in [Replicas -> SUBSET AllParts]
  /\ serving \in [Replicas -> SUBSET Lifecycle!Parts] /\ busy \in [Replicas -> SUBSET Lifecycle!Parts]

Supported(r) ==
  /\ serving[r] \subseteq First(up[r]) /\ busy[r] \subseteq First(up[r])
  /\ pc[r] \notin Late => up[r] = 0 /\ serving[r] = {} /\ busy[r] = {}
  /\ pc[r] \in {"start", "run"} => open[r] = AllParts
  /\ pc[r] = "stop" => First(up[r]) \subseteq open[r]

Migrated(r) ==
  /\ pc[r] \in Migrating => holder = r
  /\ pc[r] = "apply" => dirty /\ version < Top
  /\ auto /\ pc[r] \in Late \cup {"build"} => version = Top /\ ~dirty

LifeInv == LifeTypes /\ \A r \in Replicas : Supported(r) /\ Migrated(r)

(* Lifecycle counts with the Cardinality that FiniteSetTheorems is about.  *)
LEMMA SameCardinality == ASSUME NEW S PROVE Lifecycle!Cardinality(S) = Cardinality(S)
  BY Zenon DEF Lifecycle!Cardinality, Cardinality

(* The order has nine different parts.                                     *)
LEMMA OrderFacts ==
  /\ Len(Lifecycle!Order) = 9
  /\ \A i, j \in 1..9 : Lifecycle!Order[i] = Lifecycle!Order[j] => i = j
  /\ Lifecycle!Parts \subseteq AllParts
  /\ IsFiniteSet(AllParts) /\ Cardinality(AllParts) = 9
  <1>1. Len(Lifecycle!Order) = 9
    BY Zenon DEF Lifecycle!Order
  <1>2. ASSUME NEW i \in 1..9, NEW j \in 1..9, Lifecycle!Order[i] = Lifecycle!Order[j] PROVE i = j
    BY <1>2 DEF Lifecycle!Order
  <1>3. /\ Lifecycle!Order[9] = "http" /\ Lifecycle!Order[8] = "grpc" /\ Lifecycle!Order[7] = "scheduler"
        /\ Lifecycle!Order[4] = "events"
    BY Zenon DEF Lifecycle!Order
  <1>4. Lifecycle!Parts = {"http", "grpc", "scheduler", "events"}
    BY Zenon DEF Lifecycle!Parts, Lifecycle!Needs
  <1>5. Lifecycle!Parts \subseteq AllParts
    BY <1>3, <1>4 DEF AllParts, First
  <1>6. ExistsBijection(1..9, AllParts)
    <2> DEFINE f == [i \in 1..9 |-> Lifecycle!Order[i]]
    <2>1. f \in [1..9 -> AllParts] /\ \A x \in AllParts : \E i \in 1..9 : f[i] = x
      BY Zenon DEF AllParts, First
    <2>2. IsInjective(f)
      BY <1>2, Zenon DEF IsInjective
    <2> QED
      BY <2>1, <2>2, Zenon DEF ExistsBijection, Bijection, Injection, Surjection
  <1>7. IsFiniteSet(AllParts) /\ Cardinality(AllParts) = 9
    BY <1>6, FS_NatBijection, FS_CountingElements
  <1> QED
    BY <1>1, <1>2, <1>5, <1>7

(* One more hook adds its part, one fewer takes its part away.             *)
LEMMA FirstFacts ==
  ASSUME NEW n \in 0..9
  PROVE  /\ First(0) = {}
         /\ n < 9 => First(n + 1) = First(n) \cup {Lifecycle!Order[n + 1]}
         /\ n > 0 => First(n - 1) = First(n) \ {Lifecycle!Order[n]} /\ Lifecycle!Order[n] \in First(n)
         /\ First(n) \subseteq AllParts
  <1>1. First(0) = {}
    BY DEF First
  <1>2. ASSUME n < 9 PROVE First(n + 1) = First(n) \cup {Lifecycle!Order[n + 1]}
    <2>1. 1..(n + 1) = (1..n) \cup {n + 1}
      BY <1>2
    <2> QED
      BY <2>1, Zenon DEF First
  <1>3. ASSUME n > 0
        PROVE  First(n - 1) = First(n) \ {Lifecycle!Order[n]} /\ Lifecycle!Order[n] \in First(n)
    <2>1. \A i \in 1..n : i \in 1..9 /\ (i \in 1..(n - 1) <=> i # n)
      OBVIOUS
    <2>2. \A i \in 1..n : i # n => Lifecycle!Order[i] # Lifecycle!Order[n]
      BY <1>3, <2>1, OrderFacts
    <2>3. 1..n = 1..(n - 1) \cup {n} /\ n \in 1..n
      BY <1>3
    <2> QED
      BY <2>1, <2>2, <2>3 DEF First
  <1>4. First(n) \subseteq AllParts
    <2>1. 1..n \subseteq 1..9
      OBVIOUS
    <2> QED
      BY <2>1, Zenon DEF First, AllParts
  <1> QED
    BY <1>1, <1>2, <1>3, <1>4

(* What a part works with comes before it in the order.                    *)
LEMMA NeedsComeFirst ==
  ASSUME NEW n \in 0..9, NEW piece \in First(n), piece \in Lifecycle!Parts
  PROVE  Lifecycle!Needs[piece] \subseteq First(n)
  <1>1. PICK i \in 1..n : piece = Lifecycle!Order[i]
    BY Zenon DEF First
  <1>2. \A j \in 1..i : Lifecycle!Order[j] \in First(n)
    BY DEF First
  <1>3. piece \in {"http", "grpc", "scheduler", "events"}
    BY Zenon DEF Lifecycle!Parts, Lifecycle!Needs
  <1>4. /\ Lifecycle!Order[2] = "database" /\ Lifecycle!Order[3] = "redis" /\ Lifecycle!Order[5] = "clients"
    BY Zenon DEF Lifecycle!Order
  <1>5. /\ piece \in {"http", "grpc"} => i >= 8
        /\ piece = "scheduler" => i >= 7
        /\ piece = "events" => i >= 4
    BY <1>1, i \in 1..9 DEF Lifecycle!Order
  <1>6. /\ Lifecycle!Needs["http"] = {"database", "redis", "clients"}
        /\ Lifecycle!Needs["grpc"] = {"database", "redis", "clients"}
        /\ Lifecycle!Needs["scheduler"] = {"redis"} /\ Lifecycle!Needs["events"] = {"database"}
    BY Zenon DEF Lifecycle!Needs
  <1>7. /\ i >= 4 => "database" \in First(n)
        /\ i >= 7 => "redis" \in First(n)
        /\ i >= 8 => "clients" \in First(n)
    BY <1>2, <1>4
  <1>8. CASE piece \in {"http", "grpc"}
    BY <1>5, <1>6, <1>7, <1>8
  <1>9. CASE piece \in {"scheduler", "events"}
    BY <1>5, <1>6, <1>7, <1>9, Zenon
  <1> QED
    BY <1>3, <1>8, <1>9, Zenon

(* Before the first process starts nothing has started or migrates.        *)
LEMMA LifeInit == Lifecycle!LifecycleAssumption /\ Lifecycle!Init => LifeInv
  <1>1. First(0) = {} /\ 0 \in 0..9
    BY FirstFacts
  <1> QED
    BY <1>1 DEF Lifecycle!LifecycleAssumption, Lifecycle!Init, LifeInv, LifeTypes, Supported, Migrated, Places, Migrating, Late

(* A process that is gone has nothing started and holds no lock; whoever   *)
(* else holds it keeps it.                                                 *)
LEMMA LifeExit ==
  ASSUME Lifecycle!LifecycleAssumption, LifeInv, NEW r \in Replicas, Lifecycle!Exit(r), UNCHANGED <<auto, version, dirty>>
  PROVE  LifeInv'
  <1>1. First(0) = {} /\ 0 \in 0..9
    BY FirstFacts
  <1> QED
    BY <1>1 DEF Lifecycle!LifecycleAssumption, Lifecycle!Exit, Lifecycle!Goto, LifeInv, LifeTypes, Supported, Migrated, Places, Migrating, Late

(* The migration: the lock is taken when it is free, so that one replica   *)
(* at a time finds a version and applies the next.                         *)
LEMMA MigrateStep ==
  ASSUME Lifecycle!LifecycleAssumption, LifeInv, NEW r \in Replicas, Lifecycle!Migrates(r)
  PROVE  LifeInv'
  <1> USE DEF LifeInv, LifeTypes, Supported, Migrated, Places, Migrating, Late
  <1>1. CASE Lifecycle!Boot(r)
    BY <1>1 DEF Lifecycle!Boot, Lifecycle!Goto, Lifecycle!settings, Lifecycle!database, Lifecycle!process
  <1>2. CASE Lifecycle!EnsureSchema(r)
    BY <1>2 DEF Lifecycle!EnsureSchema, Lifecycle!Goto, Lifecycle!settings, Lifecycle!process
  <1>3. CASE Lifecycle!Lock(r)
    BY <1>3 DEF Lifecycle!Lock, Lifecycle!MigrationLock, Lifecycle!Goto, Lifecycle!settings, Lifecycle!process, Lifecycle!LifecycleAssumption
  <1>4. CASE Lifecycle!LockFails(r)
    BY <1>4, LifeExit DEF Lifecycle!LockFails, Lifecycle!settings
  <1>5. CASE Lifecycle!Up(r)
    <2>1. CASE dirty
      <3>1. Lifecycle!Found = "dirty"
        BY <2>1, Zenon DEF Lifecycle!Found
      <3> QED
        BY <1>5, <3>1, LifeExit DEF Lifecycle!Up, Lifecycle!Continues, Lifecycle!settings
    <2>2. CASE ~dirty /\ version = Top
      <3>1. Lifecycle!Found = "no change"
        BY <2>2, Zenon DEF Lifecycle!Found
      <3>2. pc[r] = "migrate" /\ pc' = [pc EXCEPT ![r] = "build"] /\ holder' = None
            /\ UNCHANGED <<auto, version, dirty, up, open, serving, busy>>
        BY <1>5, <3>1 DEF Lifecycle!Up, Lifecycle!Continues, Lifecycle!Goto, Lifecycle!settings, Lifecycle!process
      <3> QED
        BY <2>2, <3>2
    <2>3. CASE ~dirty /\ version # Top
      <3>1. Lifecycle!Found = "pending"
        BY <2>3, Zenon DEF Lifecycle!Found
      <3>2. pc[r] = "migrate" /\ pc' = [pc EXCEPT ![r] = "apply"] /\ dirty'
            /\ UNCHANGED <<auto, version, holder, up, open, serving, busy>>
        BY <1>5, <3>1, Zenon DEF Lifecycle!Up, Lifecycle!Continues, Lifecycle!Goto, Lifecycle!settings, Lifecycle!process
      <3> QED
        BY <2>3, <3>2 DEF Lifecycle!LifecycleAssumption
    <2> QED
      BY <2>1, <2>2, <2>3
  <1>6. CASE Lifecycle!Apply(r)
    <2>1. /\ pc[r] = "apply" /\ pc' = [pc EXCEPT ![r] = "migrate"]
          /\ version' = version + 1 /\ ~dirty' /\ dirty' \in BOOLEAN
          /\ UNCHANGED <<auto, holder, up, open, serving, busy>>
      BY <1>6, Zenon DEF Lifecycle!Apply, Lifecycle!Goto, Lifecycle!settings, Lifecycle!process
    <2>2. version < Top /\ version + 1 \in 0..Top
      BY <2>1 DEF Lifecycle!LifecycleAssumption
    <2>3. LifeTypes'
      BY <2>1, <2>2, Zenon
    <2>4. ASSUME NEW q \in Replicas PROVE Migrated(q)'
      BY <2>1, <2>2, Zenon
    <2>5. ASSUME NEW q \in Replicas PROVE Supported(q)'
      BY <2>1, Zenon
    <2> QED
      BY <2>3, <2>4, <2>5, Zenon
  <1>7. CASE Lifecycle!ApplyFails(r)
    BY <1>7, LifeExit, Zenon DEF Lifecycle!ApplyFails, Lifecycle!settings
  <1> QED
    BY <1>1, <1>2, <1>3, <1>4, <1>5, <1>6, <1>7, Zenon DEF Lifecycle!Migrates

(* A step of one replica that leaves the database and the lock alone.      *)
LEMMA LifeAlone ==
  ASSUME LifeInv, NEW r \in Replicas, LifeTypes', Supported(r)', Migrated(r)', UNCHANGED <<auto, version, dirty, holder>>,
         \A q \in Replicas \ {r} : /\ pc'[q] = pc[q] /\ up'[q] = up[q] /\ open'[q] = open[q]
                                   /\ serving'[q] = serving[q] /\ busy'[q] = busy[q]
  PROVE  LifeInv'
  <1>1. ASSUME NEW q \in Replicas, q # r PROVE Supported(q)' /\ Migrated(q)'
    <2>1. Supported(q) /\ Migrated(q)
      BY Zenon DEF LifeInv
    <2>2. /\ pc'[q] = pc[q] /\ up'[q] = up[q] /\ open'[q] = open[q] /\ serving'[q] = serving[q] /\ busy'[q] = busy[q]
      BY <1>1, Zenon
    <2>3. Supported(q)'
      BY <2>1, <2>2 DEF Supported
    <2>4. Migrated(q)'
      BY <2>1, <2>2 DEF Migrated
    <2> QED
      BY <2>3, <2>4, Zenon
  <1> QED
    BY <1>1, Zenon DEF LifeInv

(* The hook of the next part runs, or the last one has.                    *)
LEMMA StartStep ==
  ASSUME LifeInv, NEW r \in Replicas, Lifecycle!Start(r)
  PROVE  LifeInv'
  <1>0. LifeTypes /\ Supported(r) /\ Migrated(r) /\ up[r] \in 0..9
    BY Zenon DEF LifeInv, LifeTypes
  <1>1. /\ pc[r] = "start" /\ UNCHANGED <<auto, version, dirty, holder, open, busy>>
        /\ IF up[r] = 9 THEN pc' = [pc EXCEPT ![r] = "run"] /\ UNCHANGED <<up, serving>>
           ELSE /\ up' = [up EXCEPT ![r] = @ + 1] /\ UNCHANGED pc
                /\ serving' = [serving EXCEPT ![r] = @ \cup ({Lifecycle!Order[up[r] + 1]} \cap Lifecycle!Parts)]
    BY OrderFacts, Zenon DEF Lifecycle!Start, Lifecycle!Goto, Lifecycle!settings, Lifecycle!database
  <1>2. Migrated(r)'
    BY <1>0, <1>1 DEF LifeTypes, Migrated, Migrating, Late
  <1>3. CASE up[r] = 9
    <2>1. LifeTypes'
      BY <1>0, <1>1, <1>3 DEF LifeTypes, Places, Late
    <2>2. pc'[r] = "run" /\ up'[r] = up[r] /\ serving' = serving
      BY <1>0, <1>1, <1>3 DEF LifeTypes
    <2>3. Supported(r)'
      BY <1>0, <1>1, <2>2 DEF Supported, Late
    <2> QED
      BY <1>0, <1>1, <1>2, <1>3, <2>1, <2>3, LifeAlone DEF LifeTypes
  <1>4. CASE up[r] # 9
    <2>1. up[r] + 1 \in 0..9 /\ up[r] < 9
      BY <1>0, <1>4
    <2>2. First(up[r] + 1) = First(up[r]) \cup {Lifecycle!Order[up[r] + 1]}
      BY <1>0, <2>1, FirstFacts, Zenon
    <2>3. LifeTypes'
      BY <1>0, <1>1, <1>4, <2>1 DEF LifeTypes
    <2>4. /\ pc' = pc /\ up'[r] = up[r] + 1 /\ open' = open /\ busy' = busy
          /\ serving'[r] \subseteq serving[r] \cup {Lifecycle!Order[up[r] + 1]}
      BY <1>0, <1>1, <1>4 DEF LifeTypes
    <2>5. Supported(r)'
      BY <1>0, <1>1, <2>2, <2>4 DEF Supported, Late
    <2> QED
      BY <1>0, <1>1, <1>2, <1>4, <2>3, <2>5, LifeAlone DEF LifeTypes
  <1> QED
    BY <1>3, <1>4

(* The hook of the last part that still runs closes it.                    *)
LEMMA StopHookStep ==
  ASSUME LifeInv, NEW r \in Replicas, Lifecycle!StopHook(r)
  PROVE  LifeInv'
  <1>0. LifeTypes /\ Supported(r) /\ Migrated(r) /\ up[r] \in 0..9
    BY Zenon DEF LifeInv, LifeTypes
  <1>1. /\ pc[r] = "stop" /\ up[r] > 0 /\ Lifecycle!Order[up[r]] \notin serving[r] \cup busy[r]
        /\ open' = [open EXCEPT ![r] = @ \ {Lifecycle!Order[up[r]]}] /\ up' = [up EXCEPT ![r] = @ - 1]
        /\ UNCHANGED <<auto, version, dirty, holder, pc, serving, busy>>
    BY Zenon DEF Lifecycle!StopHook, Lifecycle!Drained, Lifecycle!Last, Lifecycle!settings, Lifecycle!database
  <1>2. up[r] - 1 \in 0..9
    BY <1>0, <1>1
  <1>3. First(up[r] - 1) = First(up[r]) \ {Lifecycle!Order[up[r]]}
    BY <1>0, <1>1, FirstFacts, Zenon
  <1>4. LifeTypes'
    BY <1>0, <1>1, <1>2 DEF LifeTypes
  <1>5. up'[r] = up[r] - 1 /\ open'[r] = open[r] \ {Lifecycle!Order[up[r]]}
    BY <1>0, <1>1, Zenon DEF LifeTypes
  <1>6. Supported(r)'
    BY <1>0, <1>1, <1>3, <1>5 DEF Supported, Late
  <1>7. Migrated(r)'
    BY <1>0, <1>1 DEF Migrated
  <1> QED
    BY <1>0, <1>1, <1>4, <1>6, <1>7, LifeAlone DEF LifeTypes

(* Construction, start and work: a hook runs only when everything is       *)
(* constructed, and its part takes work from then on.                      *)
LEMMA RunStep ==
  ASSUME Lifecycle!LifecycleAssumption, LifeInv, NEW r \in Replicas, Lifecycle!Runs(r)
  PROVE  LifeInv'
  <1> USE DEF LifeInv, LifeTypes, Supported, Migrated, Places, Migrating, Late
  <1>1. CASE Lifecycle!Build(r)
    <2> DEFINE n == Cardinality(open[r])
    <2>1. n \in Nat /\ n <= 9 /\ (n = 9 => open[r] = AllParts)
      BY OrderFacts, FS_Subset, FS_CardinalityType
    <2>0. Lifecycle!Cardinality(open[r]) = n /\ Len(Lifecycle!Order) = 9
      BY SameCardinality, OrderFacts, Zenon
    <2> HIDE DEF n
    <2>2. pc[r] = "build" /\ UNCHANGED <<auto, version, dirty, holder, up, serving, busy>>
      BY <1>1, Zenon DEF Lifecycle!Build, Lifecycle!settings, Lifecycle!database
    <2>3. CASE n = 9
      <3>1. pc' = [pc EXCEPT ![r] = "start"] /\ UNCHANGED open
        BY <1>1, <2>0, <2>3 DEF Lifecycle!Build, Lifecycle!Goto
      <3> QED
        BY <2>1, <2>2, <2>3, <3>1
    <2>4. CASE n # 9
      <3>1. open' = [open EXCEPT ![r] = @ \cup {Lifecycle!Order[n + 1]}] /\ UNCHANGED pc
        BY <1>1, <2>0, <2>4, Zenon DEF Lifecycle!Build
      <3>2. Lifecycle!Order[n + 1] \in AllParts
        BY <2>1, <2>4 DEF AllParts, First
      <3> QED
        BY <2>2, <3>1, <3>2
    <2> QED
      BY <2>3, <2>4
  <1>2. CASE Lifecycle!BuildFails(r)
    BY <1>2, LifeExit, Zenon DEF Lifecycle!BuildFails, Lifecycle!settings
  <1>3. CASE Lifecycle!Start(r)
    BY <1>3, StartStep, Zenon
  <1>4. CASE Lifecycle!StartFails(r)
    <2>1. First(up[r]) \subseteq AllParts
      BY FirstFacts, Zenon
    <2> QED
      BY <1>4, <2>1 DEF Lifecycle!StartFails, Lifecycle!Goto, Lifecycle!settings, Lifecycle!database, Lifecycle!process
  <1>5. ASSUME NEW piece \in Lifecycle!Parts, Lifecycle!Begin(r, piece) PROVE LifeInv'
    BY <1>5 DEF Lifecycle!Begin, Lifecycle!settings, Lifecycle!database
  <1>6. ASSUME NEW piece \in Lifecycle!Parts, Lifecycle!End(r, piece) PROVE LifeInv'
    BY <1>6 DEF Lifecycle!End, Lifecycle!settings, Lifecycle!database
  <1> QED
    BY <1>1, <1>2, <1>3, <1>4, <1>5, <1>6 DEF Lifecycle!Runs

(* Stop: the part of a hook is closed when it takes no work and has none;  *)
(* what started before it stays open.                                      *)
LEMMA StopStep ==
  ASSUME Lifecycle!LifecycleAssumption, LifeInv, NEW r \in Replicas, Lifecycle!Stops(r)
  PROVE  LifeInv'
  <1> USE DEF LifeInv, LifeTypes, Supported, Migrated, Places, Migrating, Late
  <1>1. CASE Lifecycle!Signal(r)
    <2>1. First(up[r]) \subseteq AllParts
      BY FirstFacts, Zenon
    <2> QED
      BY <1>1, <2>1 DEF Lifecycle!Signal, Lifecycle!Goto, Lifecycle!settings, Lifecycle!database, Lifecycle!process
  <1>2. CASE Lifecycle!StopIntake(r)
    BY <1>2 DEF Lifecycle!StopIntake, Lifecycle!settings, Lifecycle!database
  <1>3. CASE Lifecycle!StopHook(r)
    BY <1>3, StopHookStep, Zenon
  <1>4. CASE Lifecycle!Stopped(r) \/ Lifecycle!Crash(r)
    BY <1>4, LifeExit, Zenon DEF Lifecycle!Stopped, Lifecycle!Crash, Lifecycle!settings
  <1> QED
    BY <1>1, <1>2, <1>3, <1>4 DEF Lifecycle!Stops

(* LifeInv is inductive.                                                   *)
LEMMA LifeNext ==
  ASSUME Lifecycle!LifecycleAssumption, LifeInv, [Lifecycle!Next]_(Lifecycle!vars)
  PROVE  LifeInv'
  <1>1. CASE UNCHANGED Lifecycle!vars
    BY <1>1 DEF LifeInv, LifeTypes, Supported, Migrated, Lifecycle!vars, Lifecycle!settings, Lifecycle!database, Lifecycle!process
  <1> QED
    BY <1>1, MigrateStep, RunStep, StopStep DEF Lifecycle!Next

(* Every behaviour keeps to LifeInv.                                       *)
LEMMA LifeInvariant == Lifecycle!Spec => []LifeInv
  <1>1. Lifecycle!Init => LifeInv
    BY LifeInit, MigrationAssumption, Zenon
  <1>2. LifeInv /\ [Lifecycle!Next]_(Lifecycle!vars) => LifeInv'
    BY LifeNext, MigrationAssumption, Zenon
  <1> QED
    BY <1>1, <1>2, PTL DEF Lifecycle!Spec

(* WorkHasItsPools: construction, a failed start that is rolled back, stop *)
(* and crashes included, no request, call, job or dispatch round works on  *)
(* a pool that is not open; and stop waits for the loops, so that no       *)
(* dispatcher holds a row without its bus.                                 *)
THEOREM NothingWorksOnAClosedPool == Spec /\ Lifecycle!Spec => []WorkHasItsPools
  <1>1. LifeInv => Lifecycle!WorkHasItsPools
    <2> SUFFICES ASSUME LifeInv, NEW r \in Replicas, NEW piece \in busy[r]
        PROVE  Lifecycle!Needs[piece] \subseteq open[r]
      BY Zenon DEF Lifecycle!WorkHasItsPools
    <2>1. up[r] \in 0..9 /\ piece \in First(up[r]) /\ piece \in Lifecycle!Parts
      BY Zenon DEF LifeInv, LifeTypes, Supported
    <2>2. First(up[r]) \subseteq open[r]
      BY <2>1, FirstFacts DEF LifeInv, LifeTypes, Supported, Late
    <2> QED
      BY <2>1, <2>2, NeedsComeFirst
  <1> QED
    BY <1>1, LifeInvariant, BusIsOpen, PTL DEF WorkHasItsPools

(* ServesMigrated: with auto_up every replica that serves, serves from the *)
(* last migration, and no replica takes the version that another is        *)
(* applying for a failed one.                                              *)
THEOREM OnlyMigratedIsServed == Lifecycle!Spec => []ServesMigrated
  <1>1. LifeInv => ServesMigrated
    BY Zenon DEF LifeInv, Supported, Migrated, Migrating, ServesMigrated, Lifecycle!ServesMigrated, Lifecycle!DirtyMeansFailed
  <1> QED
    BY <1>1, LifeInvariant, PTL
=============================================================================
