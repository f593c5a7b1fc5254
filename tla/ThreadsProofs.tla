--------------------------- MODULE ThreadsProofs ----------------------------
(***************************************************************************)
(* What holds of the threads of MCThreads for any number of waiters,       *)
(* stoppers, net threads and logging threads, and any bound: the counters  *)
(* of Semaphore and its refinement of CountingSemaphore, what a returned   *)
(* stop guarantees (ThreadLife, Lifecycle), and what the log thread keeps  *)
(* (AsyncSink).                                                            *)
(***************************************************************************)
EXTENDS MCThreads, QueueFacts, FiniteSetTheorems, TLAPS

-----------------------------------------------------------------------------
(* Semaphore *)

(* A thread inside wait is asleep or notified, never both. *)
SemType == /\ wait_count \in Int /\ wakeup_count \in Nat /\ wakeups \in Nat
           /\ asleep \subseteq Waiters /\ notified \subseteq Waiters
           /\ asleep \cap notified = {}

(* No more calls of wakeup are unanswered than were made. *)
SemInv == /\ SemType
          /\ wait_count <= wakeups /\ wakeups <= MaxWakeups
          /\ Sem!CountersAgree

(* Semaphore's Cardinality is the one the theorems are about. *)
LEMMA SemCardinality ==
  ASSUME NEW S
  PROVE  Sem!Cardinality(S) = Cardinality(S)
BY DEF Sem!Cardinality, Cardinality

(* A set of waiters is finite and no larger than all of them. *)
LEMMA WaitersFacts ==
  ASSUME NEW S \in SUBSET Waiters
  PROVE  /\ IsFiniteSet(S)
         /\ Cardinality(S) \in 0 .. Cardinality(Waiters)
         /\ Cardinality(Waiters) \in Nat
BY WaitersAssumption, FS_Subset, FS_CardinalityType

(* ... as are the threads inside wait. *)
LEMMA InsideFacts ==
  ASSUME SemType
  PROVE  /\ IsFiniteSet(asleep \cup notified)
         /\ Cardinality(asleep \cup notified) \in 0 .. Cardinality(Waiters)
         /\ Cardinality(Waiters) \in Nat
BY WaitersFacts DEF SemType

LEMMA SemInit == Sem!Init => SemInv
BY WaitersAssumption, FS_EmptySet, FS_CardinalityType, SemCardinality
   DEF Sem!Init, SemInv, SemType, Sem!CountersAgree

(* wait: a thread more inside, or a permit less. *)
LEMMA SemWait ==
  ASSUME SemInv, NEW w \in Waiters, Sem!Wait(w)
  PROVE  SemInv'
<1> DEFINE Inside == asleep \cup notified
<1>1. /\ IsFiniteSet(Inside) /\ w \notin Inside
      /\ Cardinality(Inside) \in Nat /\ Cardinality(Waiters) \in Nat
  BY InsideFacts DEF SemInv, Sem!Wait
<1>2. Cardinality(Inside \cup {w}) = Cardinality(Inside) + 1
  BY <1>1, FS_AddElement
<1>3. CASE wait_count' < 0 /\ wakeup_count = 0
  <2>1. asleep' \cup notified' = Inside \cup {w} BY <1>3 DEF Sem!Wait
  <2>2. SemType' BY <1>1, <1>3 DEF Sem!Wait, SemInv, SemType
  <2>3. /\ Cardinality(asleep' \cup notified') \in 0 .. Cardinality(Waiters)
        /\ Cardinality(asleep' \cup notified') = Cardinality(Inside) + 1
    BY <1>2, <2>1, <2>2, WaitersFacts DEF SemType
  <2> HIDE DEF Inside
  <2>4. wait_count <= 0 /\ Cardinality(Inside) = -wait_count
    BY <1>3, SemCardinality DEF Inside, Sem!Wait, SemInv, SemType, Sem!CountersAgree
  <2> QED BY <1>1, <1>3, <2>2, <2>3, <2>4, WaitersAssumption, SemCardinality
          DEF Sem!Wait, SemInv, SemType, Sem!CountersAgree
<1>4. CASE ~(wait_count' < 0 /\ wakeup_count = 0)
  <2>1. asleep' \cup notified' = Inside BY <1>4 DEF Sem!Wait
  <2>2. SemType' BY <1>1, <1>4 DEF Sem!Wait, SemInv, SemType
  <2>3. Cardinality(Inside) \in 0 .. Cardinality(Waiters) BY InsideFacts DEF SemInv
  <2> QED BY <1>1, <1>4, <2>1, <2>2, <2>3, WaitersAssumption, SemCardinality
          DEF Sem!Wait, SemInv, SemType, Sem!CountersAgree
<1> QED BY <1>3, <1>4

(* wakeup: a permit more, and whoever is notified stays inside. *)
LEMMA SemWakeup ==
  ASSUME SemInv, Sem!Wakeup
  PROVE  SemInv'
<1>1. asleep' \cup notified' = asleep \cup notified
  BY DEF Sem!Wakeup, Sem!NotifyOne
<1>2. SemType' BY DEF Sem!Wakeup, Sem!NotifyOne, SemInv, SemType
<1>3. Cardinality(asleep \cup notified) \in 0 .. Cardinality(Waiters) /\ Cardinality(Waiters) \in Nat
  BY InsideFacts DEF SemInv
<1> QED BY <1>1, <1>2, <1>3, WaitersAssumption, SemCardinality
        DEF Sem!Wakeup, SemInv, SemType, Sem!CountersAgree

(* A wakeup of the operating system changes nobody's standing. *)
LEMMA SemSpurious ==
  ASSUME SemInv, NEW w \in Waiters, Sem!Spurious(w)
  PROVE  SemInv'
<1>1. asleep' \cup notified' = asleep \cup notified BY DEF Sem!Spurious
<1>2. SemType' BY DEF Sem!Spurious, SemInv, SemType
<1> QED BY <1>1, <1>2 DEF Sem!Spurious, SemInv, SemType, Sem!CountersAgree

(* A notified thread takes a permit and leaves, or sleeps again. *)
LEMMA SemResume ==
  ASSUME SemInv, NEW w \in Waiters, Sem!Resume(w)
  PROVE  SemInv'
<1>1. SemType' BY DEF Sem!Resume, SemInv, SemType
<1>2. Cardinality(asleep \cup notified) \in Nat BY InsideFacts DEF SemInv
<1>3. CASE wakeup_count > 0
  <2>1. asleep' \cup notified' = (asleep \cup notified) \ {w} /\ w \in asleep \cup notified
    BY <1>3 DEF Sem!Resume, SemInv, SemType
  <2>2. Cardinality(asleep' \cup notified') = Cardinality(asleep \cup notified) - 1
    BY <2>1, InsideFacts, FS_RemoveElement DEF SemInv
  <2> QED BY <1>1, <1>2, <1>3, <2>2, SemCardinality
          DEF Sem!Resume, SemInv, SemType, Sem!CountersAgree
<1>4. CASE ~(wakeup_count > 0)
  <2>1. asleep' \cup notified' = asleep \cup notified
    BY <1>4 DEF Sem!Resume, SemInv, SemType
  <2> QED BY <1>1, <1>4, <2>1 DEF Sem!Resume, SemInv, SemType, Sem!CountersAgree
<1> QED BY <1>3, <1>4

LEMMA SemNext == SemInv /\ [Sem!Next]_semVars => SemInv'
<1> SUFFICES ASSUME SemInv, [Sem!Next]_semVars PROVE SemInv' OBVIOUS
<1>1. CASE Sem!Next
  BY <1>1, SemWait, SemWakeup, SemSpurious, SemResume DEF Sem!Next
<1>2. CASE UNCHANGED semVars
  BY <1>2 DEF semVars, SemInv, SemType, Sem!CountersAgree
<1> QED BY <1>1, <1>2

-----------------------------------------------------------------------------
(* Semaphore implements CountingSemaphore *)

LEMMA SemStepRefines ==
  SemInv /\ [Sem!Next]_semVars => [Sem!Counting!SemNext]_(Sem!Counting!svars)
<1> SUFFICES ASSUME SemInv, [Sem!Next]_semVars
             PROVE  [Sem!Counting!SemNext]_(Sem!Counting!svars)
  OBVIOUS
<1> USE DEF Sem!Counting!SemNext, Sem!Counting!svars, Sem!Permits, SemInv, SemType
<1>1. ASSUME NEW w \in Waiters, Sem!Wait(w)
      PROVE  Sem!Counting!Ask(w) \/ Sem!Counting!Pass
  <2>1. CASE wait_count' < 0 /\ wakeup_count = 0
    BY <1>1, <2>1 DEF Sem!Wait, Sem!Counting!Ask
  <2>2. CASE ~(wait_count' < 0 /\ wakeup_count = 0)
    BY <1>1, <2>2 DEF Sem!Wait, Sem!Counting!Pass
  <2> QED BY <2>1, <2>2
<1>2. ASSUME Sem!Wakeup PROVE Sem!Counting!Post
  <2>1. asleep' \cup notified' = asleep \cup notified
    BY <1>2 DEF Sem!Wakeup, Sem!NotifyOne
  <2> QED BY <1>2, <2>1 DEF Sem!Wakeup, Sem!Counting!Post
<1>3. ASSUME NEW w \in Waiters, Sem!Spurious(w)
      PROVE  UNCHANGED Sem!Counting!svars
  BY <1>3 DEF Sem!Spurious
<1>4. ASSUME NEW w \in Waiters, Sem!Resume(w)
      PROVE  Sem!Counting!Grant \/ UNCHANGED Sem!Counting!svars
  <2>1. CASE wakeup_count > 0
    <3>1. asleep' \cup notified' = (asleep \cup notified) \ {w} /\ w \in asleep \cup notified
      BY <1>4, <2>1 DEF Sem!Resume
    <3> QED BY <1>4, <2>1, <3>1 DEF Sem!Resume, Sem!Counting!Grant
  <2>2. CASE ~(wakeup_count > 0)
    BY <1>4, <2>2 DEF Sem!Resume
  <2> QED BY <2>1, <2>2
<1>5. ASSUME UNCHANGED semVars PROVE UNCHANGED Sem!Counting!svars
  BY <1>5 DEF semVars
<1> QED BY <1>1, <1>2, <1>3, <1>4, <1>5 DEF Sem!Next

-----------------------------------------------------------------------------
(* ThreadLife: one start, any number of threads that stop *)

LifeType ==
  /\ is_run \in BOOLEAN /\ stopped \in BOOLEAN
  /\ mutex \in Stoppers \cup {NoCaller}
  /\ permits \in {0, 1} /\ starts \in {0, 1}
  /\ pc \in [Stoppers -> {"idle", "close", "clear", "wait"}]
  /\ workers \in [1 .. 1 -> {"none", "run", "ended", "woken", "gone"}]

(* The end of the run has been signalled and not waited for, or will be. *)
PermitOwed == permits > 0 \/ workers[1] \in {"run", "ended"}

(* Who is past close's lock has the mutex. *)
MutexHeld == \A c \in Stoppers : pc[c] \in {"clear", "wait"} <=> mutex = c

(* is_run_ is true only while a permit is owed; a close that relies on it
   gets the permit; and it is false during a run only for a close that
   waits. *)
RunFlag ==
  /\ starts = 0 <=> workers[1] = "none"
  /\ permits > 0 => workers[1] \in {"woken", "gone"}
  /\ is_run => PermitOwed
  /\ \A c \in Stoppers : pc[c] \in {"clear", "wait"} => PermitOwed
  /\ \A c \in Stoppers : pc[c] = "wait" => ~is_run
  /\ workers[1] = "run" => is_run \/ \E c \in Stoppers : pc[c] = "wait"
  /\ stopped => workers[1] # "run"

LifeInv == LifeType /\ MutexHeld /\ RunFlag

LEMMA LifeInit == Life!Init => LifeInv
<1> SUFFICES ASSUME Life!Init PROVE LifeInv OBVIOUS
<1>1. LifeType BY DEF Life!Init, Life!Workers, LifeType
<1>2. MutexHeld BY StoppersAssumption DEF Life!Init, MutexHeld
<1>3. workers[1] = "none" BY DEF Life!Init, Life!Workers
<1>4. RunFlag BY <1>3 DEF Life!Init, RunFlag, PermitOwed
<1> QED BY <1>1, <1>2, <1>4 DEF LifeInv

(* Every step of a stopper keeps it. *)
LEMMA LifeStopper ==
  ASSUME LifeInv, NEW c \in Stoppers,
         Life!Start(c) \/ Life!Stop(c) \/ Life!Destroy(c)
           \/ Life!Close(c) \/ Life!CloseClear(c) \/ Life!CloseReturn(c)
  PROVE  LifeInv'
<1> USE StoppersAssumption
    DEF LifeInv, LifeType, MutexHeld, RunFlag, PermitOwed, Life!Goes, Life!Workers
<1>1. CASE Life!Start(c)
  <2>1. starts = 0 /\ workers[1] = "none" /\ permits = 0 BY <1>1 DEF Life!Start
  <2>2. ~is_run BY <2>1
  <2>3. /\ starts' = starts + 1 /\ is_run' = TRUE /\ stopped' = FALSE
        /\ workers' = IF is_run THEN workers ELSE [workers EXCEPT ![starts + 1] = "run"]
        /\ UNCHANGED <<mutex, permits, pc>>
    BY <1>1 DEF Life!Start
  <2>4. workers' = [workers EXCEPT ![starts + 1] = "run"] BY <2>3, <2>2
  <2>5. /\ starts' = 1
        /\ workers' = [workers EXCEPT ![1] = "run"]
        /\ UNCHANGED <<mutex, permits, pc>>
    BY <2>1, <2>3, <2>4
  <2>6. \A d \in Stoppers : pc[d] = "idle" BY <1>1 DEF Life!Start, Life!NobodyInside
  <2>7. workers'[1] = "run" BY <2>5
  <2>8. LifeType' BY <2>3, <2>5
  <2>9. MutexHeld' BY <2>6, <2>5
  <2>10. RunFlag' BY <2>1, <2>3, <2>6, <2>5, <2>7
  <2> QED BY <2>8, <2>9, <2>10
<1>2. CASE Life!Stop(c) BY <1>2 DEF Life!Stop
<1>3. CASE Life!Destroy(c) BY <1>3 DEF Life!Destroy, Life!NobodyInside
<1>4. CASE Life!Close(c) BY <1>4 DEF Life!Close
<1>5. CASE Life!CloseClear(c) BY <1>5 DEF Life!CloseClear
<1>6. CASE Life!CloseReturn(c) BY <1>6 DEF Life!CloseReturn
<1> QED BY <1>1, <1>2, <1>3, <1>4, <1>5, <1>6

(* So does every step of the thread. *)
LEMMA LifeWorker ==
  ASSUME LifeInv, NEW n \in Life!Workers,
         Life!RunEnds(n) \/ Life!Wakeup(n) \/ Life!NotRun(n)
  PROVE  LifeInv'
<1>0. n = 1 BY DEF Life!Workers
<1> USE <1>0, StoppersAssumption
    DEF LifeInv, LifeType, MutexHeld, RunFlag, PermitOwed, Life!Moves
<1>1. CASE Life!RunEnds(n) BY <1>1 DEF Life!RunEnds
<1>2. CASE Life!Wakeup(n) BY <1>2 DEF Life!Wakeup
<1>3. CASE Life!NotRun(n) BY <1>3 DEF Life!NotRun
<1> QED BY <1>1, <1>2, <1>3

LEMMA LifeNext == LifeInv /\ [Life!Next]_lifeVars => LifeInv'
<1> SUFFICES ASSUME LifeInv, [Life!Next]_lifeVars PROVE LifeInv' OBVIOUS
<1>1. CASE Life!Next
  BY <1>1, LifeStopper, LifeWorker DEF Life!Next
<1>2. CASE UNCHANGED lifeVars
  BY <1>2 DEF lifeVars, LifeInv, LifeType, MutexHeld, RunFlag, PermitOwed
<1> QED BY <1>1, <1>2

LEMMA LifeCardinality ==
  ASSUME NEW S
  PROVE  Life!Cardinality(S) = Cardinality(S)
BY DEF Life!Cardinality, Cardinality

(* What the runs check follows: the mutex admits one waiter, and the only
   run gives the only permit. *)
LEMMA LifeSafe == LifeInv => Life!StopWaits /\ Life!OnePermitPerRun
<1> SUFFICES ASSUME LifeInv PROVE Life!StopWaits /\ Life!OnePermitPerRun OBVIOUS
<1> DEFINE W == {c \in Stoppers : pc[c] = "wait"}
           E == {n \in 1 .. 1 : workers[n] \in {"woken", "gone"}}
<1>1. Life!StopWaits
  BY DEF LifeInv, RunFlag, Life!StopWaits, Life!Workers
<1>2. Cardinality(W) <= 1
  <2>1. W \in SUBSET {mutex} BY DEF LifeInv, MutexHeld
  <2>2. IsFiniteSet({mutex}) /\ Cardinality({mutex}) = 1 BY FS_Singleton
  <2> HIDE DEF W
  <2> QED BY <2>1, <2>2, FS_Subset
<1>3. permits <= Cardinality(E)
  <2>1. IsFiniteSet({1}) /\ Cardinality({1}) = 1 BY FS_Singleton
  <2>2. E \in SUBSET {1} OBVIOUS
  <2>3. IsFiniteSet(E) /\ Cardinality(E) \in Nat BY <2>1, <2>2, FS_Subset, FS_CardinalityType
  <2>4. CASE permits = 0 BY <2>3, <2>4
  <2>5. CASE permits = 1
    <3>1. E = {1} BY <2>5 DEF LifeInv, RunFlag, LifeType
    <3> QED BY <3>1, <2>1, <2>5
  <2> QED BY <2>4, <2>5 DEF LifeInv, LifeType
<1>4. (\E c \in Stoppers : pc[c] = "wait") =>
        permits > 0 \/ \E n \in 1 .. 1 : workers[n] \in {"run", "ended"}
  BY DEF LifeInv, RunFlag, PermitOwed
<1> QED BY <1>1, <1>2, <1>3, <1>4, LifeCardinality
        DEF Life!OnePermitPerRun, Life!Workers

-----------------------------------------------------------------------------
(* Lifecycle: any number of net threads *)

ServiceThreads == 1 .. ThreadNum

ServiceType ==
  /\ at \in Nat
  /\ running \subseteq ServiceThreads
  /\ quit_flag \in [ServiceThreads -> BOOLEAN]
  /\ io_quit \in [ServiceThreads -> BOOLEAN]
  /\ command \in [ServiceThreads -> Seq({"cmd", "nil"})]
  /\ main \in {"create", "accept", "resize", "make", "init", "callbacks", "start",
              "loop", "push", "close", "stopped", "failed"}
  /\ main \in {"start", "push", "close"} => at \in ServiceThreads

(* stop has not yet given thread t its nullptr. *)
NotAsked(t) == main \notin {"push", "close", "stopped"} \/ (main = "push" /\ t >= at)

(* A nullptr is the last command of its queue, there is none before stop
   has pushed it, and none left when it has been popped. *)
NilIsLast ==
  \A t \in ServiceThreads :
    /\ \A i \in 1 .. Len(command[t]) :
         command[t][i] = "nil" => i = Len(command[t]) /\ ~NotAsked(t) /\ ~io_quit[t]
    /\ io_quit[t] => ~NotAsked(t) /\ command[t] = << >>

(* stop has waited for the threads before the one it waits for. *)
ClosedAreGone ==
  /\ main = "close" => \A t \in running : t >= at
  /\ main = "stopped" => running = {}

ServiceInv == ServiceType /\ NilIsLast /\ ClosedAreGone

LEMMA ServiceInit == Service!Init => ServiceInv
BY DEF Service!Init, Service!Threads, ServiceInv, ServiceType, ServiceThreads,
       NilIsLast, NotAsked, ClosedAreGone

(* The steps of the main thread before stop, of the acceptor, and of a net
   thread that reads or loses its epoll: no queue and no nullptr changes. *)
LEMMA ServiceQuiet ==
  ASSUME ServiceInv, ServiceType', UNCHANGED <<command, io_quit>>,
         main \notin {"push", "close", "stopped"}, main' \notin {"close", "stopped"},
         main' = "push" => at' = 1
  PROVE  ServiceInv'
<1>1. \A t \in ServiceThreads : NotAsked(t) /\ NotAsked(t)'
  BY DEF NotAsked, ServiceThreads
<1>2. NilIsLast' BY <1>1 DEF ServiceInv, NilIsLast
<1>3. ClosedAreGone' BY DEF ClosedAreGone
<1> QED BY <1>2, <1>3 DEF ServiceInv

LEMMA ServiceStartUp ==
  ASSUME ServiceInv,
         \/ Service!CreateService \/ Service!StartAcceptor \/ Service!Resize
         \/ Service!MakeThread \/ Service!InitThread \/ Service!SetCallbacks
         \/ Service!StartThread \/ Service!ProcessNew \/ Service!Stop
  PROVE  ServiceInv'
<1> USE ServiceAssumption DEF Service!Rest, Service!netVars, Service!NextAt, Service!Does
<1>1. ServiceType'
  <2> USE DEF ServiceInv, ServiceType, ServiceThreads
  <2>1. CASE Service!CreateService BY <2>1 DEF Service!CreateService
  <2>2. CASE Service!StartAcceptor BY <2>2 DEF Service!StartAcceptor
  <2>3. CASE Service!Resize BY <2>3 DEF Service!Resize
  <2>4. CASE Service!MakeThread
    <3>1. /\ main' \in {"make", "init"} /\ at' \in {1, at + 1}
          /\ UNCHANGED <<running, quit_flag, io_quit, command>>
      BY <2>4 DEF Service!MakeThread
    <3> QED BY <3>1
  <2>5. CASE Service!InitThread BY <2>5 DEF Service!InitThread
  <2>6. CASE Service!SetCallbacks BY <2>6 DEF Service!SetCallbacks
  <2>7. CASE Service!StartThread
    <3>1. /\ main = "start" /\ at \in ServiceThreads /\ running' = running \cup {at}
          /\ quit_flag' = [quit_flag EXCEPT ![at] = FALSE] /\ UNCHANGED <<io_quit, command>>
          /\ \/ at = ThreadNum /\ main' = "loop" /\ at' = 0
             \/ at # ThreadNum /\ main' = "start" /\ at' = at + 1
      BY <2>7 DEF Service!StartThread
    <3>2. quit_flag' \in [ServiceThreads -> BOOLEAN] BY <3>1
    <3> QED BY <3>1, <3>2
  <2>8. CASE Service!ProcessNew BY <2>8 DEF Service!ProcessNew
  <2>9. CASE Service!Stop BY <2>9 DEF Service!Stop
  <2> QED BY <2>1, <2>2, <2>3, <2>4, <2>5, <2>6, <2>7, <2>8, <2>9
<1>2. /\ UNCHANGED <<command, io_quit>>
      /\ main \notin {"push", "close", "stopped"} /\ main' \notin {"close", "stopped"}
      /\ main' = "push" => at' = 1
  BY DEF Service!CreateService, Service!StartAcceptor, Service!Resize, Service!MakeThread,
         Service!InitThread, Service!SetCallbacks, Service!StartThread,
         Service!ProcessNew, Service!Stop
<1> QED BY <1>1, <1>2, ServiceQuiet

(* A command goes to the end of a queue that has no nullptr yet. *)
LEMMA ServiceSendDown ==
  ASSUME ServiceInv, NEW t \in Service!Threads, Service!SendDown(t)
  PROVE  ServiceInv'
<1> DEFINE q == command[t]
<1>1. q \in Seq({"cmd", "nil"}) /\ t \in ServiceThreads
  BY DEF ServiceInv, ServiceType, ServiceThreads, Service!Threads
<1>2. /\ command' = [command EXCEPT ![t] = Append(q, "cmd")] /\ main = "loop"
      /\ UNCHANGED <<main, at, running, quit_flag, io_quit>>
  BY DEF Service!SendDown
<1>3. /\ Append(q, "cmd") \in Seq({"cmd", "nil"})
      /\ Len(Append(q, "cmd")) = Len(q) + 1 /\ Len(q) \in Nat
      /\ \A i \in 1 .. Len(q) : Append(q, "cmd")[i] = q[i]
      /\ Append(q, "cmd")[Len(q) + 1] = "cmd"
  BY <1>1, AppendFacts
<1> HIDE DEF q
<1>4. ServiceType' BY <1>1, <1>2, <1>3 DEF ServiceInv, ServiceType
<1>5. \A u \in ServiceThreads : NotAsked(u) /\ NotAsked(u)' BY <1>2 DEF NotAsked
<1>6. \A u \in ServiceThreads : ~io_quit[u] BY <1>5 DEF ServiceInv, NilIsLast
<1>7. \A u \in ServiceThreads : \A i \in 1 .. Len(command[u]) : command[u][i] # "nil"
  BY <1>5 DEF ServiceInv, NilIsLast
<1>8. \A u \in ServiceThreads : \A i \in 1 .. Len(command'[u]) : command'[u][i] # "nil"
  <2> SUFFICES ASSUME NEW u \in ServiceThreads, NEW i \in 1 .. Len(command'[u])
               PROVE  command'[u][i] # "nil"
    OBVIOUS
  <2>1. CASE u = t
    <3>1. command'[u] = Append(q, "cmd") BY <1>1, <1>2, <2>1 DEF ServiceInv, ServiceType
    <3>2. i \in 1 .. Len(q) \/ i = Len(q) + 1 BY <3>1, <1>3
    <3> QED BY <3>1, <3>2, <2>1, <1>1, <1>3, <1>7 DEF q
  <2>2. CASE u # t
    BY <1>1, <1>2, <1>7, <2>2 DEF ServiceInv, ServiceType
  <2> QED BY <2>1, <2>2
<1>9. NilIsLast' BY <1>2, <1>6, <1>8 DEF NilIsLast
<1>10. ClosedAreGone' BY <1>2 DEF ClosedAreGone
<1> QED BY <1>4, <1>9, <1>10 DEF ServiceInv

(* stop's nullptr goes behind the commands of its thread. *)
LEMMA ServicePushNull ==
  ASSUME ServiceInv, Service!PushNull
  PROVE  ServiceInv'
<1> DEFINE q == command[at]
<1>1. /\ at \in ServiceThreads /\ q \in Seq({"cmd", "nil"}) /\ at \in Nat
      /\ \A u \in ServiceThreads : u \in Nat
  BY DEF ServiceInv, ServiceType, ServiceThreads, Service!PushNull
<1>2. /\ command' = [command EXCEPT ![at] = Append(q, "nil")] /\ main = "push"
      /\ UNCHANGED <<running, quit_flag, io_quit>>
      /\ \/ at = ThreadNum /\ main' = "close" /\ at' = 1
         \/ at # ThreadNum /\ main' = "push" /\ at' = at + 1
  BY DEF Service!PushNull
<1>3. /\ Append(q, "nil") \in Seq({"cmd", "nil"})
      /\ Len(Append(q, "nil")) = Len(q) + 1 /\ Len(q) \in Nat
      /\ \A i \in 1 .. Len(q) : Append(q, "nil")[i] = q[i]
  BY <1>1, AppendFacts
<1> HIDE DEF q
<1>4. ServiceType'
  BY <1>1, <1>2, <1>3, ServiceAssumption DEF ServiceInv, ServiceType, ServiceThreads
<1>5. NotAsked(at) BY <1>1, <1>2 DEF NotAsked
<1>6. \A u \in ServiceThreads : (NotAsked(u)' => NotAsked(u)) /\ (u = at => ~NotAsked(u)')
  BY <1>1, <1>2, ServiceAssumption DEF NotAsked, ServiceThreads
<1>7. ~io_quit[at] /\ \A i \in 1 .. Len(q) : q[i] # "nil"
  BY <1>1, <1>5 DEF ServiceInv, NilIsLast, q
<1>8. NilIsLast'
  <2> SUFFICES ASSUME NEW u \in ServiceThreads
               PROVE  /\ \A i \in 1 .. Len(command'[u]) :
                           command'[u][i] = "nil" =>
                             i = Len(command'[u]) /\ ~NotAsked(u)' /\ ~io_quit'[u]
                      /\ io_quit'[u] => ~NotAsked(u)' /\ command'[u] = << >>
    BY DEF NilIsLast
  <2>1. CASE u = at
    <3>1. command'[u] = Append(q, "nil") BY <1>1, <1>2, <2>1 DEF ServiceInv, ServiceType
    <3>2. \A i \in 1 .. Len(command'[u]) : i \in 1 .. Len(q) \/ i = Len(command'[u])
      BY <3>1, <1>3
    <3> QED BY <3>1, <3>2, <2>1, <1>2, <1>3, <1>6, <1>7
  <2>2. CASE u # at
    <3>1. command'[u] = command[u] BY <1>1, <1>2, <2>2 DEF ServiceInv, ServiceType
    <3> QED BY <3>1, <1>2, <1>6 DEF ServiceInv, NilIsLast
  <2> QED BY <2>1, <2>2
<1>9. ClosedAreGone'
  BY <1>2, ServiceAssumption DEF ClosedAreGone, ServiceInv, ServiceType, ServiceThreads
<1> QED BY <1>4, <1>8, <1>9 DEF ServiceInv

(* A net thread pops the first command: nullptr only when it is the last. *)
LEMMA ServicePopCommand ==
  ASSUME ServiceInv, NEW t \in Service!Threads, Service!PopCommand(t)
  PROVE  ServiceInv'
<1> DEFINE q == command[t]
<1>1. q \in Seq({"cmd", "nil"}) /\ t \in ServiceThreads /\ q # << >>
  BY DEF ServiceInv, ServiceType, ServiceThreads, Service!Threads, Service!PopCommand
<1>2. /\ command' = [command EXCEPT ![t] = Tail(q)]
      /\ io_quit' = [io_quit EXCEPT ![t] = io_quit[t] \/ Head(q) = "nil"]
      /\ UNCHANGED <<main, at, running, quit_flag>>
  BY DEF Service!PopCommand
<1>3. /\ Tail(q) \in Seq({"cmd", "nil"}) /\ Head(q) = q[1]
      /\ Len(q) \in Nat /\ Len(q) > 0 /\ Len(Tail(q)) = Len(q) - 1
      /\ \A i \in 1 .. Len(Tail(q)) : Tail(q)[i] = q[i + 1]
  BY <1>1, TailFacts
<1>4. ~io_quit[t] BY <1>1 DEF ServiceInv, NilIsLast
<1>5. \A i \in 1 .. Len(q) : q[i] = "nil" => i = Len(q) /\ ~NotAsked(t)
  BY <1>1 DEF ServiceInv, NilIsLast
<1> HIDE DEF q
<1>6. ServiceType' BY <1>1, <1>2, <1>3 DEF ServiceInv, ServiceType
<1>7. \A u \in ServiceThreads : NotAsked(u)' <=> NotAsked(u) BY <1>2 DEF NotAsked
<1>8. NilIsLast'
  <2> SUFFICES ASSUME NEW u \in ServiceThreads
               PROVE  /\ \A i \in 1 .. Len(command'[u]) :
                           command'[u][i] = "nil" =>
                             i = Len(command'[u]) /\ ~NotAsked(u)' /\ ~io_quit'[u]
                      /\ io_quit'[u] => ~NotAsked(u)' /\ command'[u] = << >>
    BY DEF NilIsLast
  <2>1. CASE u = t
    <3>1. command'[u] = Tail(q) /\ (io_quit'[u] <=> Head(q) = "nil")
      BY <1>1, <1>2, <1>4, <2>1 DEF ServiceInv, ServiceType
    <3>2. Head(q) = "nil" => Len(Tail(q)) = 0 /\ ~NotAsked(u)
      <4>1. 1 \in 1 .. Len(q) BY <1>3
      <4>2. q[1] = "nil" => 1 = Len(q) /\ ~NotAsked(t) BY <4>1, <1>5
      <4> QED BY <4>2, <1>3, <2>1
    <3>3. Head(q) = "nil" => Tail(q) = << >> BY <3>2, <1>3
    <3>4. ASSUME NEW i \in 1 .. Len(Tail(q)), Tail(q)[i] = "nil"
          PROVE  i = Len(Tail(q)) /\ ~NotAsked(u) /\ Head(q) # "nil"
      <4>1. i + 1 \in 1 .. Len(q) /\ q[i + 1] = "nil" BY <3>4, <1>3
      <4>2. i + 1 = Len(q) /\ ~NotAsked(t) BY <4>1, <1>5
      <4> QED BY <4>2, <3>2, <1>3, <2>1
    <3> QED BY <3>1, <3>2, <3>3, <3>4, <1>7
  <2>2. CASE u # t
    <3>1. command'[u] = command[u] /\ io_quit'[u] = io_quit[u]
      BY <1>1, <1>2, <2>2 DEF ServiceInv, ServiceType
    <3> QED BY <3>1, <1>7 DEF ServiceInv, NilIsLast
  <2> QED BY <2>1, <2>2
<1>9. ClosedAreGone' BY <1>2 DEF ClosedAreGone, ServiceInv
<1> QED BY <1>6, <1>8, <1>9 DEF ServiceInv

(* stop waits for a thread; a thread ends, reads or loses its epoll; a
   connection is accepted: queues and nullptrs stay as they are. *)
LEMMA ServiceOthers ==
  ASSUME ServiceInv,
         \/ Service!Close
         \/ \E t \in Service!Threads :
              Service!Accept(t) \/ Service!ReadSocket(t) \/ Service!ThreadEnds(t)
                \/ Service!EpollFails(t)
  PROVE  ServiceInv'
<1>1. CASE Service!Close
  <2>1. /\ main = "close" /\ at \in ServiceThreads /\ at \notin running
        /\ UNCHANGED <<command, io_quit, running, quit_flag>>
        /\ \/ at = ThreadNum /\ main' = "stopped" /\ at' = 0
           \/ at # ThreadNum /\ main' = "close" /\ at' = at + 1
    BY <1>1 DEF Service!Close, Service!NextAt, Service!Rest, Service!netVars,
                ServiceInv, ServiceType
  <2>2. ServiceType'
    BY <2>1, ServiceAssumption DEF ServiceInv, ServiceType, ServiceThreads
  <2>3. \A t \in ServiceThreads : ~NotAsked(t) /\ ~NotAsked(t)' BY <2>1 DEF NotAsked
  <2>4. NilIsLast' BY <2>1, <2>3 DEF ServiceInv, NilIsLast
  <2>5. ClosedAreGone'
    BY <2>1, ServiceAssumption
       DEF ServiceInv, ServiceType, ServiceThreads, ClosedAreGone
  <2> QED BY <2>2, <2>4, <2>5 DEF ServiceInv
<1>2. CASE \E t \in Service!Threads :
              Service!Accept(t) \/ Service!ReadSocket(t) \/ Service!ThreadEnds(t)
                \/ Service!EpollFails(t)
  <2>1. PICK t \in ServiceThreads :
              Service!Accept(t) \/ Service!ReadSocket(t) \/ Service!ThreadEnds(t)
                \/ Service!EpollFails(t)
    BY <1>2 DEF Service!Threads, ServiceThreads
  <2>2. /\ UNCHANGED <<main, at, command, io_quit>>
        /\ running' \subseteq running
        /\ quit_flag' \in {quit_flag, [quit_flag EXCEPT ![t] = TRUE]}
    BY <2>1 DEF Service!Accept, Service!ReadSocket, Service!ThreadEnds, Service!EpollFails
  <2>3. ServiceType' BY <2>2 DEF ServiceInv, ServiceType
  <2>4. \A u \in ServiceThreads : NotAsked(u)' <=> NotAsked(u) BY <2>2 DEF NotAsked
  <2>5. NilIsLast' BY <2>2, <2>4 DEF ServiceInv, NilIsLast
  <2>6. ClosedAreGone' BY <2>2 DEF ServiceInv, ClosedAreGone
  <2> QED BY <2>3, <2>5, <2>6 DEF ServiceInv
<1> QED BY <1>1, <1>2

LEMMA ServiceNext == ServiceInv /\ [Service!Next]_serviceVars => ServiceInv'
<1> SUFFICES ASSUME ServiceInv, [Service!Next]_serviceVars PROVE ServiceInv' OBVIOUS
<1>1. CASE Service!Next
  BY <1>1, ServiceStartUp, ServiceSendDown, ServicePushNull, ServicePopCommand, ServiceOthers
     DEF Service!Next, Service!Main, Service!NetThread
<1>2. CASE UNCHANGED serviceVars
  BY <1>2 DEF serviceVars, ServiceInv, ServiceType, NilIsLast, NotAsked, ClosedAreGone
<1> QED BY <1>1, <1>2

LEMMA ServiceSafe == ServiceInv => Service!NothingCutOff /\ Service!StoppedIsQuiet
BY DEF ServiceInv, NilIsLast, ClosedAreGone, Service!NothingCutOff, Service!StoppedIsQuiet,
       Service!Threads, ServiceThreads

-----------------------------------------------------------------------------
(* AsyncSink *)

LogProducers == Loggers \cup {"owner"}
LogText == Log!Lines \cup {Log!NoLine}

(* The log thread has a buffer in its hands. *)
Writing == writer \in {"write", "return"}

LogType ==
  /\ lines \in Seq(Nat) /\ pool \in Seq(Nat) /\ made \in Nat /\ current \in Nat
  /\ at_line \in [LogProducers -> {"idle", "fill", "push", "full", "close", "done"}]
  /\ said \in [Loggers -> 0 .. MaxLines] /\ held \in [LogProducers -> Nat]
  /\ text \in [Log!Buffers -> LogText]
  /\ writer \in {"pop", "empty", "write", "return", "ended"}
  /\ file \in Seq(LogText)

(* Who holds a buffer is inside log, and what it pushes is its last line. *)
HandsAgree ==
  /\ held["owner"] = 0 /\ at_line["owner"] # "fill"
  /\ \A p \in Loggers :
       /\ at_line[p] \in {"idle", "fill", "push", "full"}
       /\ held[p] # 0 <=> at_line[p] # "idle"
       /\ at_line[p] # "idle" => said[p] > 0
       /\ at_line[p] \in {"push", "full"} => text[held[p]] = <<p, said[p]>>

(* No more buffers were made than lines begun. *)
Begun == {l \in Log!Lines : l[2] <= said[l[1]]}
MadeForLines == made <= Cardinality(Begun)

(* A buffer that is somewhere was made. *)
AllMade ==
  /\ \A p \in LogProducers : held[p] <= made
  /\ \A i \in 1 .. Len(lines) : lines[i] <= made
  /\ \A i \in 1 .. Len(pool) : pool[i] <= made /\ pool[i] # 0
  /\ Writing => current <= made /\ current # 0

(* No two places hold the same buffer. *)
Apart ==
  /\ \A p, q \in LogProducers : held[p] # 0 /\ held[p] = held[q] => p = q
  /\ \A i, j \in 1 .. Len(lines) : lines[i] = lines[j] => i = j
  /\ \A i, j \in 1 .. Len(pool) : pool[i] = pool[j] => i = j
  /\ \A p \in LogProducers, i \in 1 .. Len(lines) : held[p] # 0 => held[p] # lines[i]
  /\ \A p \in LogProducers, i \in 1 .. Len(pool) : held[p] # pool[i]
  /\ \A i \in 1 .. Len(lines), j \in 1 .. Len(pool) : lines[i] # pool[j]
  /\ Writing => /\ \A p \in LogProducers : held[p] # current
                /\ \A i \in 1 .. Len(lines) : lines[i] # current
                /\ \A i \in 1 .. Len(pool) : pool[i] # current

(* No buffer is lost. *)
Somewhere(b) == \/ \E p \in LogProducers : held[p] = b
                \/ \E i \in 1 .. Len(lines) : lines[i] = b
                \/ \E i \in 1 .. Len(pool) : pool[i] = b
                \/ Writing /\ current = b
NoneLost == \A b \in 1 .. made : Somewhere(b)

(* What is queued, or about to be written, is a line. *)
Filled ==
  /\ \A i \in 1 .. Len(lines) : lines[i] # 0 => text[lines[i]] \in Log!Lines
  /\ writer = "write" => text[current] \in Log!Lines

(* NULL comes from the destructor, and the log thread ends after it. *)
NullIsOwners ==
  /\ at_line["owner"] \in {"idle", "push", "full"} =>
       writer # "ended" /\ \A i \in 1 .. Len(lines) : lines[i] # 0
  /\ at_line["owner"] = "done" => writer = "ended"
  /\ writer = "ended" => \A i \in 1 .. Len(lines) : lines[i] # 0

(* A line logged in time is in the file, in the log thread's hands, or in
   the queue before NULL. *)
Coming(l) ==
  \/ \E i \in 1 .. Len(file) : file[i] = l
  \/ writer = "write" /\ text[current] = l
  \/ /\ writer # "ended"
     /\ \E i \in 1 .. Len(lines) :
          /\ lines[i] # 0 /\ text[lines[i]] = l
          /\ \A j \in 1 .. i : lines[j] # 0
LoggedComes == \A l \in logged : Coming(l)

LogInv == /\ LogType /\ HandsAgree /\ MadeForLines /\ AllMade /\ Apart
          /\ NoneLost /\ Filled /\ NullIsOwners /\ LoggedComes
(* AsyncSink's Cardinality, and its constants written out. *)
LEMMA LogCardinality ==
  ASSUME NEW S
  PROVE  Log!Cardinality(S) = Cardinality(S)
BY DEF Log!Cardinality, Cardinality

LEMMA LogNames ==
  /\ Log!Producers = LogProducers /\ Log!Owner = "owner" /\ Log!NoLine = <<"owner", 0>>
  /\ Log!Lines = Loggers \X (1 .. MaxLines) /\ Log!NoLine \notin Log!Lines
  /\ Log!Buffers = 1 .. Cardinality(Log!Lines)
  /\ "owner" \notin Loggers /\ "owner" \in LogProducers /\ Loggers \subseteq LogProducers
BY LoggersAssumption, LogCardinality
   DEF Log!Producers, LogProducers, Log!Owner, Log!NoLine, Log!Lines, Log!Buffers

(* There are finitely many lines, and a buffer for each. *)
LEMMA LogLinesFinite == IsFiniteSet(Log!Lines) /\ Cardinality(Log!Lines) \in Nat
<1>1. IsFiniteSet(1 .. MaxLines) BY LoggersAssumption, FS_Interval
<1>2. IsFiniteSet(Loggers \X (1 .. MaxLines)) BY <1>1, LoggersAssumption, FS_Product
<1> QED BY <1>2, LogNames, FS_CardinalityType

LEMMA BegunFacts ==
  ASSUME NEW S \in SUBSET Log!Lines
  PROVE  /\ IsFiniteSet(S) /\ Cardinality(S) \in Nat
         /\ Cardinality(S) <= Cardinality(Log!Lines)
BY LogLinesFinite, FS_Subset, FS_CardinalityType

LEMMA LogInit == Log!Init => LogInv
<1> SUFFICES ASSUME Log!Init PROVE LogInv OBVIOUS
<1>1. /\ lines = << >> /\ file = << >> /\ logged = {} /\ pool = << >> /\ made = 0
      /\ at_line = [p \in LogProducers |-> "idle"] /\ said = [p \in Loggers |-> 0]
      /\ held = [p \in LogProducers |-> 0]
      /\ text = [b \in Log!Buffers |-> Log!NoLine]
      /\ writer = "pop" /\ current = 0
  BY LogNames DEF Log!Init
<1>2. LogType BY <1>1, LoggersAssumption DEF LogType, LogText
<1>3. HandsAgree BY <1>1, LogNames DEF HandsAgree
<1>4. Begun \in SUBSET Log!Lines BY DEF Begun
<1>5. MadeForLines BY <1>1, <1>4, BegunFacts DEF MadeForLines
<1>6. AllMade /\ Apart /\ NoneLost /\ Filled BY <1>1 DEF AllMade, Apart, NoneLost, Filled, Writing
<1>7. NullIsOwners /\ LoggedComes BY <1>1, LogNames DEF NullIsOwners, LoggedComes
<1> QED BY <1>2, <1>3, <1>5, <1>6, <1>7 DEF LogInv

(* Steps that only move a process or the log thread from one place of
   waiting to another: no buffer, no line and no NULL moves. *)
LEMMA LogQuiet ==
  ASSUME LogInv, UNCHANGED <<lines, pool, made, current, said, held, text, file, logged>>,
         writer' = writer \/ {writer, writer'} \subseteq {"pop", "empty"},
         NEW p \in LogProducers, NEW v,
         at_line' = at_line \/ at_line' = [at_line EXCEPT ![p] = v],
         \/ at_line[p] \in {"push", "full"} /\ v \in {"push", "full"}
         \/ p = "owner" /\ at_line[p] = "idle" /\ v = "push"
         \/ p = "owner" /\ at_line[p] = "close" /\ v = "done" /\ writer = "ended"
         \/ at_line' = at_line
  PROVE  LogInv'
<1>1. /\ Writing' <=> Writing
      /\ writer' = "write" <=> writer = "write"
      /\ writer' = "ended" <=> writer = "ended"
      /\ writer' \in {"pop", "empty", "write", "return", "ended"}
  BY DEF Writing, LogInv, LogType
<1>2. /\ at_line' \in [LogProducers -> {"idle", "fill", "push", "full", "close", "done"}]
      /\ \A q \in LogProducers :
           \/ at_line'[q] = at_line[q]
           \/ at_line[q] \in {"push", "full"} /\ at_line'[q] \in {"push", "full"}
           \/ q = "owner" /\ at_line[q] = "idle" /\ at_line'[q] = "push"
           \/ q = "owner" /\ at_line[q] = "close" /\ at_line'[q] = "done" /\ writer = "ended"
  BY DEF LogInv, LogType
<1>3. LogType' BY <1>1, <1>2 DEF LogInv, LogType
<1>4. HandsAgree' BY <1>2, LogNames DEF LogInv, HandsAgree
<1>5. MadeForLines' BY DEF LogInv, MadeForLines, Begun
<1>6. AllMade' /\ Apart' BY <1>1 DEF LogInv, AllMade, Apart
<1>7. NoneLost' BY <1>1 DEF LogInv, NoneLost, Somewhere
<1>8. Filled' BY <1>1 DEF LogInv, Filled
<1>9. NullIsOwners' BY <1>1, <1>2, LogNames DEF LogInv, NullIsOwners
<1>10. LoggedComes' BY <1>1 DEF LogInv, LoggedComes, Coming
<1> QED BY <1>3, <1>4, <1>5, <1>6, <1>7, <1>8, <1>9, <1>10 DEF LogInv

(* push of a buffer, or of NULL, into a queue that has room. *)
LEMMA LogPushRoom ==
  ASSUME LogInv, NEW p \in LogProducers, Log!Push(p), ~Log!Full
  PROVE  LogInv'
<1>1. /\ at_line[p] = "push"
      /\ lines' = Append(lines, held[p])
      /\ held' = [held EXCEPT ![p] = 0]
      /\ writer' = IF writer = "empty" THEN "pop" ELSE writer
      /\ at_line' = [at_line EXCEPT ![p] = IF p = "owner" THEN "close" ELSE "idle"]
      /\ logged' = IF p # "owner" /\ at_line["owner"] = "idle"
                   THEN logged \cup {<<p, said[p]>>} ELSE logged
      /\ UNCHANGED <<said, pool, made, text, current, file>>
  BY LogNames DEF Log!Push, Log!NotifyNotEmpty, Log!Goes, Log!poolVars
<1> DEFINE x == held[p]
           n == Len(lines)
<1>2. /\ x \in Nat /\ n \in Nat /\ x <= made
      /\ lines' \in Seq(Nat) /\ Len(lines') = n + 1 /\ lines'[n + 1] = x
      /\ \A i \in 1 .. n : lines'[i] = lines[i]
  BY <1>1, AppendFacts DEF LogInv, LogType, AllMade
<1>3. /\ held' \in [LogProducers -> Nat] /\ held'[p] = 0
      /\ \A q \in LogProducers : q # p => held'[q] = held[q]
  BY <1>1 DEF LogInv, LogType
<1>4. /\ at_line' \in [LogProducers -> {"idle", "fill", "push", "full", "close", "done"}]
      /\ at_line'[p] = IF p = "owner" THEN "close" ELSE "idle"
      /\ \A q \in LogProducers : q # p => at_line'[q] = at_line[q]
  BY <1>1 DEF LogInv, LogType
<1>5. /\ Writing' <=> Writing
      /\ writer' = "write" <=> writer = "write"
      /\ writer' = "ended" <=> writer = "ended"
      /\ writer' \in {"pop", "empty", "write", "return", "ended"}
  BY <1>1 DEF Writing, LogInv, LogType
<1>6. /\ p = "owner" => x = 0
      /\ p # "owner" => x # 0 /\ p \in Loggers /\ text[x] = <<p, said[p]>> /\ said[p] > 0
  BY <1>1 DEF LogInv, HandsAgree, LogProducers
<1>7. p # "owner" => text[x] \in Log!Lines
  <2>1. p # "owner" => said[p] \in 1 .. MaxLines
    BY <1>6, LoggersAssumption DEF LogInv, LogType
  <2> HIDE DEF x
  <2> QED BY <1>6, <2>1, LogNames
<1>8. x = 0 => \A i \in 1 .. n : lines[i] # 0
  BY <1>1, <1>6 DEF LogInv, NullIsOwners
<1> HIDE DEF x, n
<1>9. LogType' BY <1>1, <1>2, <1>3, <1>4, <1>5 DEF LogInv, LogType
<1>10. HandsAgree'
  <2>1. held'["owner"] = 0 /\ at_line'["owner"] # "fill"
    BY <1>3, <1>4, LogNames DEF LogInv, HandsAgree
  <2>2. ASSUME NEW q \in Loggers
        PROVE  /\ at_line'[q] \in {"idle", "fill", "push", "full"}
               /\ held'[q] # 0 <=> at_line'[q] # "idle"
               /\ at_line'[q] # "idle" => said[q] > 0
               /\ at_line'[q] \in {"push", "full"} => text[held'[q]] = <<q, said[q]>>
    BY <1>3, <1>4, LogNames DEF LogInv, HandsAgree
  <2> QED BY <2>1, <2>2, <1>1 DEF HandsAgree
<1>11. MadeForLines' BY <1>1 DEF LogInv, MadeForLines, Begun
<1>12. \A i \in 1 .. Len(lines') : (i \in 1 .. n /\ lines'[i] = lines[i]) \/ (i = n + 1 /\ lines'[i] = x)
  BY <1>2
<1>13. AllMade' BY <1>1, <1>2, <1>3, <1>5, <1>12 DEF LogInv, LogType, AllMade, n
<1>14. Apart'
  <2>1. \A q, r \in LogProducers : held'[q] # 0 /\ held'[q] = held'[r] => q = r
    BY <1>3 DEF LogInv, Apart
  <2>2. \A i \in 1 .. n : lines[i] # x
    BY <1>8 DEF LogInv, Apart, x, n
  <2>3. \A i, j \in 1 .. Len(lines') : lines'[i] = lines'[j] => i = j
    BY <1>12, <2>2 DEF LogInv, Apart, n
  <2>4. \A q \in LogProducers, i \in 1 .. Len(lines') : held'[q] # 0 => held'[q] # lines'[i]
    BY <1>3, <1>12 DEF LogInv, Apart, n, x
  <2>5. \A q \in LogProducers, i \in 1 .. Len(pool') : held'[q] # pool'[i]
    BY <1>1, <1>3 DEF LogInv, Apart, AllMade
  <2>6. \A i \in 1 .. Len(lines'), j \in 1 .. Len(pool') : lines'[i] # pool'[j]
    BY <1>1, <1>12 DEF LogInv, Apart, n, x
  <2>7. \A i, j \in 1 .. Len(pool') : pool'[i] = pool'[j] => i = j
    BY <1>1 DEF LogInv, Apart
  <2>8. Writing' => /\ \A q \in LogProducers : held'[q] # current'
                    /\ \A i \in 1 .. Len(lines') : lines'[i] # current'
                    /\ \A i \in 1 .. Len(pool') : pool'[i] # current'
    BY <1>1, <1>3, <1>5, <1>12 DEF LogInv, Apart, AllMade, n, x
  <2> QED BY <2>1, <2>3, <2>4, <2>5, <2>6, <2>7, <2>8 DEF Apart
<1>15. NoneLost'
  <2> SUFFICES ASSUME NEW b \in 1 .. made PROVE Somewhere(b)' BY <1>1 DEF NoneLost
  <2>1. Somewhere(b) BY DEF LogInv, NoneLost
  <2>2. CASE b = x
    <3>1. n + 1 \in 1 .. Len(lines') /\ lines'[n + 1] = b BY <1>2, <2>2
    <3> QED BY <3>1 DEF Somewhere
  <2>3. CASE b # x
    <3>1. \A q \in LogProducers : held[q] = b => held'[q] = b BY <1>3, <2>3 DEF x
    <3>2. \A i \in 1 .. n : i \in 1 .. Len(lines') /\ lines'[i] = lines[i] BY <1>2
    <3> QED BY <2>1, <3>1, <3>2, <1>1, <1>5 DEF Somewhere, n
  <2> QED BY <2>2, <2>3
<1>16. Filled' BY <1>1, <1>5, <1>6, <1>7, <1>12 DEF LogInv, Filled, n
<1>17. NullIsOwners'
  <2>1. CASE p = "owner"
    BY <2>1, <1>1, <1>4, <1>5, <1>12 DEF LogInv, NullIsOwners, n
  <2>2. CASE p # "owner"
    <3>1. at_line'["owner"] = at_line["owner"] BY <1>4, <2>2, LogNames
    <3> QED BY <2>2, <3>1, <1>5, <1>6, <1>12 DEF LogInv, NullIsOwners, n
  <2> QED BY <2>1, <2>2
<1>18. LoggedComes'
  <2> SUFFICES ASSUME NEW l \in logged' PROVE Coming(l)' BY DEF LoggedComes
  <2>1. CASE l \in logged
    <3>1. Coming(l) BY <2>1 DEF LogInv, LoggedComes
    <3>2. ASSUME NEW i \in 1 .. n, lines[i] # 0, text[lines[i]] = l, writer # "ended",
                 \A j \in 1 .. i : lines[j] # 0
          PROVE  Coming(l)'
      <4>1. /\ i \in 1 .. Len(lines') /\ lines'[i] # 0 /\ text'[lines'[i]] = l
            /\ \A j \in 1 .. i : lines'[j] # 0
        <5>1. 1 .. i \subseteq 1 .. n /\ i \in 1 .. Len(lines') BY <1>2
        <5>2. \A j \in 1 .. i : lines'[j] = lines[j] BY <5>1, <1>2
        <5>3. lines'[i] = lines[i] /\ text' = text BY <1>1, <1>2
        <5> QED BY <3>2, <5>1, <5>2, <5>3
      <4> QED BY <4>1, <3>2, <1>5 DEF Coming
    <3> QED BY <3>1, <3>2, <1>1, <1>5 DEF Coming, n
  <2>2. CASE l \notin logged
    <3>1. p # "owner" /\ at_line["owner"] = "idle" /\ l = <<p, said[p]>> BY <2>2, <1>1
    <3>2. writer # "ended" /\ \A i \in 1 .. n : lines[i] # 0
      BY <3>1 DEF LogInv, NullIsOwners, n
    <3>3. /\ n + 1 \in 1 .. Len(lines') /\ lines'[n + 1] # 0 /\ text'[lines'[n + 1]] = l
          /\ \A j \in 1 .. n + 1 : lines'[j] # 0
      BY <3>1, <3>2, <1>1, <1>2, <1>6
    <3> QED BY <3>2, <3>3, <1>5 DEF Coming
  <2> QED BY <2>1, <2>2
<1> QED BY <1>9, <1>10, <1>11, <1>13, <1>14, <1>15, <1>16, <1>17, <1>18 DEF LogInv

(* A waiting producer is notified: it will try to push again. *)
LEMMA LogNotify ==
  ASSUME LogType, Log!NotifyNotFull
  PROVE  \E p \in LogProducers :
           \/ at_line' = at_line
           \/ at_line[p] = "full" /\ at_line' = [at_line EXCEPT ![p] = "push"]
BY LogNames DEF Log!NotifyNotFull, Log!Goes, LogType

(* pop of the first entry: the log thread takes a buffer, or NULL. *)
LEMMA LogPopOne ==
  ASSUME LogInv, Log!Pop, lines # << >>
  PROVE  LogInv'
<1>1. /\ writer = "pop" /\ lines' = Tail(lines) /\ current' = Head(lines)
      /\ writer' = IF Head(lines) = 0 THEN "ended" ELSE "write"
      /\ Log!NotifyNotFull
      /\ UNCHANGED <<said, held, pool, made, text, file, logged>>
  BY DEF Log!Pop, Log!poolVars, Log!callerVars
<1> DEFINE n == Len(lines)
           m == Len(lines')
           x == Head(lines)
<1>2. PICK p \in LogProducers :
           \/ at_line' = at_line
           \/ at_line[p] = "full" /\ at_line' = [at_line EXCEPT ![p] = "push"]
  BY <1>1, LogNotify DEF LogInv
<1>3. /\ at_line' \in [LogProducers -> {"idle", "fill", "push", "full", "close", "done"}]
      /\ \A q \in LogProducers :
           \/ at_line'[q] = at_line[q]
           \/ at_line[q] \in {"push", "full"} /\ at_line'[q] \in {"push", "full"}
  BY <1>2 DEF LogInv, LogType
<1>4. /\ lines' \in Seq(Nat) /\ n \in Nat /\ n > 0 /\ m = n - 1
      /\ x = lines[1] /\ x \in Nat
      /\ \A i \in 1 .. m : lines'[i] = lines[i + 1]
  BY <1>1, TailFacts DEF LogInv, LogType
<1>5. 1 \in 1 .. n /\ \A i \in 1 .. m : i + 1 \in 1 .. n BY <1>4
<1>6. /\ ~Writing /\ (Writing' <=> x # 0)
      /\ writer' \in {"pop", "empty", "write", "return", "ended"}
      /\ writer' = "write" <=> x # 0
      /\ writer' = "ended" <=> x = 0
  BY <1>1 DEF Writing
<1>7. current' = x /\ UNCHANGED <<said, held, pool, made, text, file, logged>> BY <1>1
<1> HIDE DEF x, n, m
<1>8. LogType' BY <1>3, <1>4, <1>6, <1>7 DEF LogInv, LogType
<1>9. HandsAgree' BY <1>3, <1>7, LogNames DEF LogInv, HandsAgree
<1>10. MadeForLines' BY <1>7 DEF LogInv, MadeForLines, Begun
<1>11. AllMade' BY <1>4, <1>5, <1>6, <1>7 DEF LogInv, AllMade, n, m
<1>12. Apart'
  <2>1. \A i, j \in 1 .. m : lines'[i] = lines'[j] => i = j
    BY <1>4, <1>5 DEF LogInv, Apart, n
  <2>2. \A i \in 1 .. m : lines'[i] # x
    <3> SUFFICES ASSUME NEW i \in 1 .. m, lines[i + 1] = lines[1] PROVE FALSE BY <1>4
    <3>1. i + 1 = 1 BY <1>5 DEF LogInv, Apart, n
    <3> QED BY <3>1, <1>4
  <2>3. \A q \in LogProducers, i \in 1 .. m : held[q] # 0 => held[q] # lines'[i]
    BY <1>4, <1>5 DEF LogInv, Apart, n
  <2>4. \A i \in 1 .. m, j \in 1 .. Len(pool) : lines'[i] # pool[j]
    BY <1>4, <1>5 DEF LogInv, Apart, n
  <2>5. x # 0 => /\ \A q \in LogProducers : held[q] # x
                 /\ \A i \in 1 .. Len(pool) : pool[i] # x
    BY <1>4, <1>5 DEF LogInv, Apart, n
  <2> QED BY <2>1, <2>2, <2>3, <2>4, <2>5, <1>6, <1>7 DEF LogInv, Apart, m
<1>13. NoneLost'
  <2> SUFFICES ASSUME NEW b \in 1 .. made PROVE Somewhere(b)' BY <1>7 DEF NoneLost
  <2>1. Somewhere(b) BY DEF LogInv, NoneLost
  <2>2. ASSUME NEW i \in 1 .. n, lines[i] = b PROVE Somewhere(b)'
    <3>1. CASE i = 1
      BY <2>2, <3>1, <1>4, <1>6, <1>7 DEF Somewhere
    <3>2. CASE i # 1
      <4>1. i - 1 \in 1 .. m /\ lines'[i - 1] = b BY <2>2, <3>2, <1>4
      <4> QED BY <4>1 DEF Somewhere, m
    <3> QED BY <3>1, <3>2
  <2> QED BY <2>1, <2>2, <1>6, <1>7 DEF Somewhere, n
<1>14. Filled' BY <1>4, <1>5, <1>6, <1>7 DEF LogInv, Filled, n, m
<1>15. NullIsOwners'
  <2>1. \/ at_line'["owner"] = at_line["owner"]
        \/ at_line["owner"] \in {"push", "full"} /\ at_line'["owner"] \in {"push", "full"}
    BY <1>3, LogNames
  <2>2. x = 0 => \A i \in 1 .. m : lines'[i] # 0
    <3> SUFFICES ASSUME x = 0, NEW i \in 1 .. m, lines[i + 1] = lines[1] PROVE FALSE BY <1>4
    <3>1. i + 1 = 1 BY <1>5 DEF LogInv, Apart, n
    <3> QED BY <3>1, <1>4
  <2>3. at_line["owner"] \in {"idle", "push", "full"} =>
          x # 0 /\ \A i \in 1 .. m : lines'[i] # 0
    BY <1>4, <1>5 DEF LogInv, NullIsOwners, n
  <2>4. at_line["owner"] # "done" BY <1>1 DEF LogInv, NullIsOwners
  <2> QED BY <2>1, <2>2, <2>3, <2>4, <1>6 DEF NullIsOwners, m
<1>16. LoggedComes'
  <2> SUFFICES ASSUME NEW l \in logged PROVE Coming(l)' BY <1>7 DEF LoggedComes
  <2>1. Coming(l) BY DEF LogInv, LoggedComes
  <2>2. ASSUME NEW i \in 1 .. n, lines[i] # 0, text[lines[i]] = l,
               \A j \in 1 .. i : lines[j] # 0
        PROVE  Coming(l)'
    <3>1. x # 0 BY <2>2, <1>4
    <3>2. CASE i = 1
      BY <2>2, <3>1, <3>2, <1>4, <1>6, <1>7 DEF Coming
    <3>3. CASE i # 1
      <4>1. i - 1 \in 1 .. m /\ lines'[i - 1] = lines[i] BY <3>3, <1>4
      <4>2. \A j \in 1 .. i - 1 : j \in 1 .. m /\ j + 1 \in 1 .. i BY <4>1, <1>4
      <4>3. \A j \in 1 .. i - 1 : lines'[j] # 0 BY <4>2, <1>4, <2>2
      <4>4. text' = text /\ writer' # "ended" BY <3>1, <1>6, <1>7
      <4> QED BY <4>1, <4>3, <4>4, <2>2 DEF Coming, m
    <3> QED BY <3>2, <3>3
  <2> QED BY <2>1, <2>2, <1>1, <1>7 DEF Coming, n
<1> QED BY <1>8, <1>9, <1>10, <1>11, <1>12, <1>13, <1>14, <1>15, <1>16 DEF LogInv

(* The log thread writes the buffer it has. *)
LEMMA LogWriteOut ==
  ASSUME LogInv, Log!WriteOut
  PROVE  LogInv'
<1>1. /\ writer = "write" /\ writer' = "return" /\ file' = Append(file, text[current])
      /\ UNCHANGED <<lines, at_line, said, held, pool, made, text, current, logged>>
  BY DEF Log!WriteOut, Log!poolVars, Log!callerVars
<1>2. Writing /\ Writing' BY <1>1 DEF Writing
<1>3. text[current] \in LogText BY <1>1 DEF LogInv, Filled, LogText
<1>4. /\ file' \in Seq(LogText) /\ Len(file') = Len(file) + 1 /\ Len(file) \in Nat
      /\ \A i \in 1 .. Len(file) : file'[i] = file[i]
      /\ file'[Len(file) + 1] = text[current]
  BY <1>1, <1>3, AppendFacts DEF LogInv, LogType
<1>5. LogType' BY <1>1, <1>4 DEF LogInv, LogType
<1>6. HandsAgree' BY <1>1 DEF LogInv, HandsAgree
<1>7. MadeForLines' BY <1>1 DEF LogInv, MadeForLines, Begun
<1>8. AllMade' /\ Apart' BY <1>1, <1>2 DEF LogInv, AllMade, Apart
<1>9. NoneLost' BY <1>1, <1>2 DEF LogInv, NoneLost, Somewhere
<1>10. Filled' /\ NullIsOwners' BY <1>1 DEF LogInv, Filled, NullIsOwners
<1>11. LoggedComes'
  <2> SUFFICES ASSUME NEW l \in logged PROVE Coming(l)' BY <1>1 DEF LoggedComes
  <2>1. Coming(l) BY DEF LogInv, LoggedComes
  <2>2. ASSUME NEW i \in 1 .. Len(file), file[i] = l PROVE Coming(l)'
    <3>1. i \in 1 .. Len(file') /\ file'[i] = l BY <1>4, <2>2
    <3> QED BY <3>1 DEF Coming
  <2>3. CASE text[current] = l
    <3>1. Len(file) + 1 \in 1 .. Len(file') /\ file'[Len(file) + 1] = l BY <1>4, <2>3
    <3> QED BY <3>1 DEF Coming
  <2>4. CASE \E i \in 1 .. Len(lines) : /\ lines[i] # 0 /\ text[lines[i]] = l
                                        /\ \A j \in 1 .. i : lines[j] # 0
    <3>1. writer' # "ended" BY <1>1
    <3> QED BY <3>1, <2>4, <1>1 DEF Coming
  <2> QED BY <2>1, <2>2, <2>3, <2>4 DEF Coming
<1> QED BY <1>5, <1>6, <1>7, <1>8, <1>9, <1>10, <1>11 DEF LogInv

(* The written buffer goes back to the pool. *)
LEMMA LogReturn ==
  ASSUME LogInv, Log!ReturnObject
  PROVE  LogInv'
<1>1. /\ writer = "return" /\ writer' = "pop" /\ current' = 0
      /\ pool' = Append(pool, current)
      /\ UNCHANGED <<lines, at_line, said, held, made, text, file, logged>>
  BY DEF Log!ReturnObject, Log!callerVars
<1> DEFINE n == Len(pool)
           x == current
<1>2. Writing /\ ~Writing' BY <1>1 DEF Writing
<1>3. /\ x \in Nat /\ x # 0 /\ x <= made BY <1>2 DEF LogInv, LogType, AllMade
<1>4. /\ pool' \in Seq(Nat) /\ Len(pool') = n + 1 /\ n \in Nat /\ pool'[n + 1] = x
      /\ \A i \in 1 .. n : pool'[i] = pool[i]
  BY <1>1, <1>3, AppendFacts DEF LogInv, LogType
<1>5. UNCHANGED <<lines, at_line, said, held, made, text, file, logged>> BY <1>1
<1> HIDE DEF x, n
<1>6. \A i \in 1 .. Len(pool') : (i \in 1 .. n /\ pool'[i] = pool[i]) \/ (i = n + 1 /\ pool'[i] = x)
  BY <1>4
<1>7. LogType' BY <1>1, <1>4 DEF LogInv, LogType
<1>8. HandsAgree' BY <1>1 DEF LogInv, HandsAgree
<1>9. MadeForLines' BY <1>1 DEF LogInv, MadeForLines, Begun
<1>10. AllMade' BY <1>2, <1>3, <1>5, <1>6 DEF LogInv, AllMade, n
<1>11. Apart'
  <2>1. \A i, j \in 1 .. Len(pool') : pool'[i] = pool'[j] => i = j
    BY <1>2, <1>6 DEF LogInv, Apart, n, x
  <2>2. \A q \in LogProducers, i \in 1 .. Len(pool') : held[q] # pool'[i]
    BY <1>2, <1>6 DEF LogInv, Apart, n, x
  <2>3. \A i \in 1 .. Len(lines), j \in 1 .. Len(pool') : lines[i] # pool'[j]
    BY <1>2, <1>6 DEF LogInv, Apart, n, x
  <2> QED BY <2>1, <2>2, <2>3, <1>2, <1>5 DEF LogInv, Apart
<1>12. NoneLost'
  <2> SUFFICES ASSUME NEW b \in 1 .. made PROVE Somewhere(b)' BY <1>5 DEF NoneLost
  <2>1. Somewhere(b) BY DEF LogInv, NoneLost
  <2>2. n + 1 \in 1 .. Len(pool') /\ \A i \in 1 .. n : i \in 1 .. Len(pool') BY <1>4
  <2> QED BY <2>1, <2>2, <1>4, <1>5 DEF Somewhere, n, x
<1>13. Filled' /\ NullIsOwners' BY <1>1 DEF LogInv, Filled, NullIsOwners
<1>14. LoggedComes' BY <1>1 DEF LogInv, LoggedComes, Coming
<1> QED BY <1>7, <1>8, <1>9, <1>10, <1>11, <1>12, <1>13, <1>14 DEF LogInv

(* log fills the buffer it holds: nobody else sees that buffer. *)
LEMMA LogFill ==
  ASSUME LogInv, NEW p \in Loggers, Log!Fill(p)
  PROVE  LogInv'
<1>1. /\ at_line[p] = "fill" /\ text' = [text EXCEPT ![held[p]] = <<p, said[p]>>]
      /\ at_line' = [at_line EXCEPT ![p] = "push"]
      /\ UNCHANGED <<lines, said, held, pool, made, writer, current, file, logged>>
  BY DEF Log!Fill, Log!Goes, Log!callerVars
<1> DEFINE x == held[p]
<1>2. p \in LogProducers /\ p # "owner" /\ x \in Nat /\ x # 0 /\ x <= made
  BY <1>1, LogNames DEF LogInv, LogType, HandsAgree, AllMade
<1>3. said[p] \in 1 .. MaxLines
  <2>1. said[p] \in 0 .. MaxLines BY DEF LogInv, LogType
  <2>2. said[p] > 0 BY <1>1 DEF LogInv, HandsAgree
  <2> QED BY <2>1, <2>2, LoggersAssumption
<1>4. <<p, said[p]>> \in Log!Lines /\ <<p, said[p]>> \in LogText
  BY <1>3, LogNames DEF LogText
<1>5. x \in Log!Buffers
  <2>1. Begun \in SUBSET Log!Lines BY DEF Begun
  <2>2. Cardinality(Begun) \in Nat /\ Cardinality(Begun) <= Cardinality(Log!Lines)
    BY <2>1, BegunFacts
  <2>3. made \in Nat /\ made <= Cardinality(Begun) BY DEF LogInv, LogType, MadeForLines
  <2>4. x \in 1 .. Cardinality(Log!Lines) BY <1>2, <2>2, <2>3, LogLinesFinite
  <2> QED BY <2>4, LogNames
<1>6. /\ text' \in [Log!Buffers -> LogText] /\ text'[x] = <<p, said[p]>>
      /\ \A b : b # x => text'[b] = text[b]
  BY <1>1, <1>4, <1>5 DEF LogInv, LogType
<1>7. /\ at_line' \in [LogProducers -> {"idle", "fill", "push", "full", "close", "done"}]
      /\ at_line'[p] = "push"
      /\ \A q \in LogProducers : q # p => at_line'[q] = at_line[q]
  BY <1>1, <1>2 DEF LogInv, LogType
<1>8. /\ \A q \in LogProducers : q # p => held[q] # x
      /\ \A i \in 1 .. Len(lines) : lines[i] # x
      /\ Writing => current # x
  BY <1>2 DEF LogInv, Apart
<1>9. UNCHANGED <<lines, said, held, pool, made, writer, current, file, logged>> BY <1>1
<1> HIDE DEF x
<1>10. LogType' BY <1>6, <1>7, <1>9 DEF LogInv, LogType
<1>11. HandsAgree'
  <2>1. held["owner"] = 0 /\ at_line'["owner"] # "fill"
    BY <1>2, <1>7, LogNames DEF LogInv, HandsAgree
  <2>2. ASSUME NEW q \in Loggers
        PROVE  /\ at_line'[q] \in {"idle", "fill", "push", "full"}
               /\ held[q] # 0 <=> at_line'[q] # "idle"
               /\ at_line'[q] # "idle" => said[q] > 0
               /\ at_line'[q] \in {"push", "full"} => text'[held[q]] = <<q, said[q]>>
    <3>1. CASE q = p
      BY <3>1, <1>2, <1>3, <1>6, <1>7 DEF x
    <3>2. CASE q # p
      <4>1. at_line'[q] = at_line[q] /\ text'[held[q]] = text[held[q]]
        BY <3>2, <1>6, <1>7, <1>8, LogNames
      <4> QED BY <4>1 DEF LogInv, HandsAgree
    <3> QED BY <3>1, <3>2
  <2> QED BY <2>1, <2>2, <1>9 DEF HandsAgree
<1>12. MadeForLines' BY <1>9 DEF LogInv, MadeForLines, Begun
<1>13. AllMade' /\ Apart' BY <1>9 DEF LogInv, AllMade, Apart, Writing
<1>14. NoneLost' BY <1>9 DEF LogInv, NoneLost, Somewhere, Writing
<1>15. Filled'
  <2>1. \A i \in 1 .. Len(lines) : text'[lines[i]] = text[lines[i]] BY <1>6, <1>8
  <2>2. writer = "write" => text'[current] = text[current] BY <1>6, <1>8 DEF Writing
  <2> QED BY <2>1, <2>2, <1>9 DEF LogInv, Filled
<1>16. NullIsOwners' 
  <2>1. at_line'["owner"] = at_line["owner"] BY <1>2, <1>7, LogNames
  <2> QED BY <2>1, <1>9 DEF LogInv, NullIsOwners
<1>17. LoggedComes'
  <2>1. \A i \in 1 .. Len(lines) : text'[lines[i]] = text[lines[i]] BY <1>6, <1>8
  <2>2. writer = "write" => text'[current] = text[current] BY <1>6, <1>8 DEF Writing
  <2> QED BY <2>1, <2>2, <1>9 DEF LogInv, LoggedComes, Coming
<1> QED BY <1>10, <1>11, <1>12, <1>13, <1>14, <1>15, <1>16, <1>17 DEF LogInv

(* A line more is begun. *)
LEMMA BegunGrows ==
  ASSUME LogType, NEW p \in Loggers, said[p] < MaxLines,
         said' = [said EXCEPT ![p] = said[p] + 1]
  PROVE  Cardinality(Begun') = Cardinality(Begun) + 1 /\ Cardinality(Begun) \in Nat
<1> DEFINE l == <<p, said[p] + 1>>
<1>1. said[p] \in Nat /\ l \in Log!Lines BY LogNames, LoggersAssumption DEF LogType
<1>2. \A q \in Loggers : said'[q] = IF q = p THEN said[p] + 1 ELSE said[q] BY DEF LogType
<1>3. \A k \in Log!Lines : k[2] <= said'[k[1]] <=> k[2] <= said[k[1]] \/ k = l
  <2> SUFFICES ASSUME NEW q \in Loggers, NEW i \in 1 .. MaxLines
               PROVE  i <= said'[q] <=> i <= said[q] \/ (q = p /\ i = said[p] + 1)
    BY LogNames
  <2>1. said[q] \in Nat BY DEF LogType
  <2> QED BY <1>1, <1>2, <2>1
<1>4. l \notin Begun BY <1>1 DEF Begun
<1> HIDE DEF l
<1>5. Begun' = Begun \cup {l} BY <1>1, <1>3 DEF Begun
<1>6. IsFiniteSet(Begun) /\ Cardinality(Begun) \in Nat BY BegunFacts DEF Begun
<1>7. Cardinality(Begun \cup {l}) = Cardinality(Begun) + 1 BY <1>4, <1>6, FS_AddElement
<1> QED BY <1>5, <1>6, <1>7

(* log takes the last buffer of the pool. *)
LEMMA LogReuse ==
  ASSUME LogInv, NEW p \in Loggers, Log!GetObject(p), pool # << >>
  PROVE  LogInv'
<1>1. /\ at_line[p] = "idle" /\ said[p] < MaxLines
      /\ said' = [said EXCEPT ![p] = said[p] + 1]
      /\ held' = [held EXCEPT ![p] = pool[Len(pool)]]
      /\ pool' = SubSeq(pool, 1, Len(pool) - 1)
      /\ at_line' = [at_line EXCEPT ![p] = "fill"]
      /\ UNCHANGED <<lines, made, text, writer, current, file, logged>>
  BY DEF Log!GetObject, Log!Goes
<1> DEFINE n == Len(pool)
           m == Len(pool')
           x == pool[Len(pool)]
<1>2. n \in Nat /\ n > 0 BY DEF LogInv, LogType
<1>3. /\ pool' \in Seq(Nat) /\ m = n - 1 /\ \A i \in 1 .. m : pool'[i] = pool[i]
  <2>1. n - 1 \in 0 .. Len(pool) BY <1>2
  <2> QED BY <1>1, <2>1, SplitFacts DEF LogInv, LogType
<1>4. n \in 1 .. n /\ \A i \in 1 .. m : i \in 1 .. n /\ i # n BY <1>2, <1>3
<1>5. x \in Nat /\ x # 0 /\ x <= made BY <1>4 DEF LogInv, LogType, AllMade
<1>6. p \in LogProducers /\ p # "owner" /\ held[p] = 0
  BY <1>1, LogNames DEF LogInv, HandsAgree
<1>7. /\ held' \in [LogProducers -> Nat] /\ held'[p] = x
      /\ \A q \in LogProducers : q # p => held'[q] = held[q]
  BY <1>1, <1>5, <1>6 DEF LogInv, LogType
<1>8. /\ at_line' \in [LogProducers -> {"idle", "fill", "push", "full", "close", "done"}]
      /\ at_line'[p] = "fill"
      /\ \A q \in LogProducers : q # p => at_line'[q] = at_line[q]
  BY <1>1, <1>6 DEF LogInv, LogType
<1>9. /\ said' \in [Loggers -> 0 .. MaxLines] /\ said'[p] > 0
      /\ \A q \in Loggers : q # p => said'[q] = said[q]
  BY <1>1, LoggersAssumption DEF LogInv, LogType
<1>10. UNCHANGED <<lines, made, text, writer, current, file, logged>> BY <1>1
<1>11. MadeForLines'
  <2>1. Cardinality(Begun') = Cardinality(Begun) + 1 /\ Cardinality(Begun) \in Nat
    BY <1>1, BegunGrows DEF LogInv
  <2>2. made \in Nat /\ made <= Cardinality(Begun) BY DEF LogInv, LogType, MadeForLines
  <2> QED BY <1>1, <2>1, <2>2 DEF MadeForLines
<1> HIDE DEF x, n, m
<1>12. LogType' BY <1>3, <1>7, <1>8, <1>9, <1>10 DEF LogInv, LogType
<1>13. HandsAgree'
  <2>1. held'["owner"] = 0 /\ at_line'["owner"] # "fill"
    BY <1>5, <1>6, <1>7, <1>8, <1>9, LogNames DEF LogInv, HandsAgree
  <2>2. ASSUME NEW q \in Loggers
        PROVE  /\ at_line'[q] \in {"idle", "fill", "push", "full"}
               /\ held'[q] # 0 <=> at_line'[q] # "idle"
               /\ at_line'[q] # "idle" => said'[q] > 0
               /\ at_line'[q] \in {"push", "full"} => text[held'[q]] = <<q, said'[q]>>
    <3>1. CASE q = p BY <3>1, <1>5, <1>6, <1>7, <1>8, <1>9
    <3>2. CASE q # p BY <3>2, <1>5, <1>6, <1>7, <1>8, <1>9, LogNames DEF LogInv, HandsAgree
    <3> QED BY <3>1, <3>2
  <2> QED BY <2>1, <2>2, <1>10 DEF HandsAgree
<1>14. AllMade' BY <1>3, <1>4, <1>5, <1>7, <1>10 DEF LogInv, AllMade, Writing, m, n
<1>15. Apart'
  <2>1. /\ \A q \in LogProducers : held[q] # x
        /\ \A i \in 1 .. Len(lines) : lines[i] # x
        /\ \A i \in 1 .. m : pool'[i] # x
        /\ Writing => current # x
    BY <1>3, <1>4 DEF LogInv, Apart, x, n
  <2>2. \A q, r \in LogProducers : held'[q] # 0 /\ held'[q] = held'[r] => q = r
    BY <1>7, <2>1 DEF LogInv, Apart
  <2>3. \A q \in LogProducers, i \in 1 .. m : held'[q] # pool'[i]
    <3>1. \A q \in LogProducers, i \in 1 .. n : held[q] # pool[i] BY DEF LogInv, Apart, n
    <3>2. \A q \in LogProducers, i \in 1 .. m : held[q] # pool'[i] BY <3>1, <1>3, <1>4
    <3> QED BY <3>2, <1>7, <2>1
  <2>4. /\ \A q \in LogProducers, i \in 1 .. Len(lines) : held'[q] # 0 => held'[q] # lines[i]
        /\ Writing => \A q \in LogProducers : held'[q] # current
    BY <1>7, <2>1 DEF LogInv, Apart
  <2>5. /\ \A i, j \in 1 .. m : pool'[i] = pool'[j] => i = j
        /\ \A i \in 1 .. Len(lines), j \in 1 .. m : lines[i] # pool'[j]
        /\ Writing => \A i \in 1 .. m : pool'[i] # current
    <3>1. /\ \A i, j \in 1 .. n : pool[i] = pool[j] => i = j
          /\ \A i \in 1 .. Len(lines), j \in 1 .. n : lines[i] # pool[j]
          /\ Writing => \A i \in 1 .. n : pool[i] # current
      BY DEF LogInv, Apart, n
    <3> QED BY <3>1, <1>3, <1>4
  <2> QED BY <2>2, <2>3, <2>4, <2>5, <1>10 DEF LogInv, Apart, Writing, m
<1>16. NoneLost'
  <2> SUFFICES ASSUME NEW b \in 1 .. made PROVE Somewhere(b)' BY <1>10 DEF NoneLost
  <2>1. Somewhere(b) /\ b # 0 BY DEF LogInv, NoneLost
  <2>2. \A i \in 1 .. n : i = n \/ i \in 1 .. m BY <1>2, <1>3
  <2>3. \A q \in LogProducers : held[q] = b => held'[q] = b BY <1>6, <1>7, <2>1
  <2>4. CASE \E i \in 1 .. n : pool[i] = b
    BY <2>2, <2>4, <1>3, <1>6, <1>7 DEF Somewhere, x, m, n
  <2> QED BY <2>1, <2>3, <2>4, <1>10 DEF Somewhere, Writing, n
<1>17. Filled' BY <1>10 DEF LogInv, Filled
<1>18. NullIsOwners'
  <2>1. at_line'["owner"] = at_line["owner"] BY <1>6, <1>8, LogNames
  <2> QED BY <2>1, <1>10 DEF LogInv, NullIsOwners
<1>19. LoggedComes' BY <1>10 DEF LogInv, LoggedComes, Coming
<1> QED BY <1>11, <1>12, <1>13, <1>14, <1>15, <1>16, <1>17, <1>18, <1>19 DEF LogInv

(* log makes a buffer: none that was made before is that one. *)
LEMMA LogMake ==
  ASSUME LogInv, NEW p \in Loggers, Log!GetObject(p), pool = << >>
  PROVE  LogInv'
<1>1. /\ at_line[p] = "idle" /\ said[p] < MaxLines
      /\ said' = [said EXCEPT ![p] = said[p] + 1]
      /\ held' = [held EXCEPT ![p] = made + 1] /\ made' = made + 1
      /\ at_line' = [at_line EXCEPT ![p] = "fill"]
      /\ UNCHANGED <<lines, pool, text, writer, current, file, logged>>
  BY DEF Log!GetObject, Log!Goes
<1>2. p \in LogProducers /\ p # "owner" /\ held[p] = 0 /\ made \in Nat
  BY <1>1, LogNames DEF LogInv, LogType, HandsAgree
<1>3. /\ held' \in [LogProducers -> Nat] /\ held'[p] = made + 1
      /\ \A q \in LogProducers : q # p => held'[q] = held[q]
  BY <1>1, <1>2 DEF LogInv, LogType
<1>4. /\ at_line' \in [LogProducers -> {"idle", "fill", "push", "full", "close", "done"}]
      /\ at_line'[p] = "fill"
      /\ \A q \in LogProducers : q # p => at_line'[q] = at_line[q]
  BY <1>1, <1>2 DEF LogInv, LogType
<1>5. /\ said' \in [Loggers -> 0 .. MaxLines] /\ said'[p] > 0
      /\ \A q \in Loggers : q # p => said'[q] = said[q]
  BY <1>1, LoggersAssumption DEF LogInv, LogType
<1>6. UNCHANGED <<lines, pool, text, writer, current, file, logged>> BY <1>1
<1>7. MadeForLines'
  <2>1. Cardinality(Begun') = Cardinality(Begun) + 1 /\ Cardinality(Begun) \in Nat
    BY <1>1, BegunGrows DEF LogInv
  <2>2. made <= Cardinality(Begun) BY DEF LogInv, MadeForLines
  <2> QED BY <1>1, <1>2, <2>1, <2>2 DEF MadeForLines
<1>8. LogType' BY <1>1, <1>2, <1>3, <1>4, <1>5 DEF LogInv, LogType
<1>9. HandsAgree'
  <2>1. held'["owner"] = 0 /\ at_line'["owner"] # "fill"
    BY <1>2, <1>3, <1>4, <1>5, LogNames DEF LogInv, HandsAgree
  <2>2. ASSUME NEW q \in Loggers
        PROVE  /\ at_line'[q] \in {"idle", "fill", "push", "full"}
               /\ held'[q] # 0 <=> at_line'[q] # "idle"
               /\ at_line'[q] # "idle" => said'[q] > 0
               /\ at_line'[q] \in {"push", "full"} => text[held'[q]] = <<q, said'[q]>>
    <3>1. CASE q = p BY <3>1, <1>2, <1>3, <1>4, <1>5
    <3>2. CASE q # p BY <3>2, <1>2, <1>3, <1>4, <1>5, LogNames DEF LogInv, HandsAgree
    <3> QED BY <3>1, <3>2
  <2> QED BY <2>1, <2>2, <1>6 DEF HandsAgree
<1>10. AllMade'
  <2>1. \A q \in LogProducers : held'[q] <= made + 1
    <3>1. \A q \in LogProducers : held[q] \in Nat /\ held[q] <= made
      BY DEF LogInv, LogType, AllMade
    <3> QED BY <1>2, <1>3, <3>1
  <2>2. \A i \in 1 .. Len(lines) : lines[i] <= made + 1
    BY <1>2 DEF LogInv, LogType, AllMade
  <2>3. Writing => current <= made + 1 BY <1>2 DEF LogInv, LogType, AllMade
  <2>4. \A i \in 1 .. Len(pool) : pool[i] <= made + 1
    BY <1>2 DEF LogInv, LogType, AllMade
  <2> QED BY <2>1, <2>2, <2>3, <2>4, <1>1 DEF LogInv, AllMade, Writing
<1>11. Apart'
  <2>1. /\ \A q \in LogProducers : held[q] # made + 1
        /\ \A i \in 1 .. Len(lines) : lines[i] # made + 1
        /\ \A i \in 1 .. Len(pool) : pool[i] # made + 1
        /\ Writing => current # made + 1
    BY <1>2 DEF LogInv, LogType, AllMade
  <2>2. \A q, r \in LogProducers : held'[q] # 0 /\ held'[q] = held'[r] => q = r
    BY <1>3, <2>1 DEF LogInv, Apart
  <2>3. /\ \A q \in LogProducers, i \in 1 .. Len(pool) : held'[q] # pool[i]
        /\ \A q \in LogProducers, i \in 1 .. Len(lines) : held'[q] # 0 => held'[q] # lines[i]
        /\ Writing => \A q \in LogProducers : held'[q] # current
    BY <1>3, <2>1 DEF LogInv, Apart
  <2> QED BY <2>2, <2>3, <1>6 DEF LogInv, Apart, Writing
<1>12. NoneLost'
  <2> SUFFICES ASSUME NEW b \in 1 .. made + 1 PROVE Somewhere(b)' BY <1>1 DEF NoneLost
  <2>1. CASE b = made + 1 BY <2>1, <1>2, <1>3 DEF Somewhere
  <2>2. CASE b # made + 1
    <3>1. Somewhere(b) /\ b # 0 BY <2>2, <1>2 DEF LogInv, NoneLost
    <3>2. \A q \in LogProducers : held[q] = b => held'[q] = b BY <3>1, <1>2, <1>3
    <3> QED BY <3>1, <3>2, <1>6 DEF Somewhere, Writing
  <2> QED BY <2>1, <2>2
<1>13. Filled' BY <1>6 DEF LogInv, Filled
<1>14. NullIsOwners'
  <2>1. at_line'["owner"] = at_line["owner"] BY <1>2, <1>4, LogNames
  <2> QED BY <2>1, <1>6 DEF LogInv, NullIsOwners
<1>15. LoggedComes' BY <1>6 DEF LogInv, LoggedComes, Coming
<1> QED BY <1>7, <1>8, <1>9, <1>10, <1>11, <1>12, <1>13, <1>14, <1>15 DEF LogInv

LEMMA LogNext == LogInv /\ [Log!Next]_logVars => LogInv'
<1> SUFFICES ASSUME LogInv, [Log!Next]_logVars PROVE LogInv' OBVIOUS
<1>1. CASE Log!Pop
  <2>1. CASE lines = << >>
    <3>1. /\ writer = "pop" /\ writer' = "empty" /\ at_line' = at_line
          /\ UNCHANGED <<lines, pool, made, current, said, held, text, file, logged>>
      BY <1>1, <2>1 DEF Log!Pop, Log!poolVars, Log!callerVars
    <3> QED BY <3>1, LogQuiet, LogNames
  <2> QED BY <1>1, <2>1, LogPopOne
<1>2. CASE Log!WriteOut BY <1>2, LogWriteOut
<1>3. CASE Log!ReturnObject BY <1>3, LogReturn
<1>4. CASE Log!Spurious
  <2>1. UNCHANGED <<lines, pool, made, current, said, held, text, file, logged>>
    BY <1>4 DEF Log!Spurious, Log!poolVars, Log!callerVars
  <2>2. CASE writer = "empty" /\ writer' = "pop" /\ UNCHANGED at_line
    BY <2>1, <2>2, LogQuiet, LogNames
  <2>3. CASE \E p \in LogProducers : /\ at_line[p] = "full" /\ UNCHANGED writer
                                     /\ at_line' = [at_line EXCEPT ![p] = "push"]
    BY <2>1, <2>3, LogQuiet
  <2> QED BY <1>4, <2>2, <2>3, LogNames DEF Log!Spurious, Log!Goes
<1>5. CASE Log!Destroy
  <2>1. /\ UNCHANGED <<lines, pool, made, current, said, held, text, file, logged>>
        /\ at_line["owner"] = "idle" /\ at_line' = [at_line EXCEPT !["owner"] = "push"]
        /\ UNCHANGED writer
    BY <1>5, LogNames DEF Log!Destroy, Log!Goes, Log!poolVars, Log!callerVars
  <2> QED BY <2>1, LogQuiet, LogNames
<1>6. CASE Log!Close
  <2>1. /\ UNCHANGED <<lines, pool, made, current, said, held, text, file, logged>>
        /\ at_line["owner"] = "close" /\ at_line' = [at_line EXCEPT !["owner"] = "done"]
        /\ writer = "ended" /\ UNCHANGED writer
    BY <1>6, LogNames DEF Log!Close, Log!Goes, Log!poolVars, Log!callerVars
  <2> QED BY <2>1, LogQuiet, LogNames
<1>7. ASSUME NEW p \in LogProducers, Log!Push(p) PROVE LogInv'
  <2>1. CASE Log!Full
    <3>1. /\ UNCHANGED <<lines, pool, made, current, said, held, text, file, logged, writer>>
          /\ at_line[p] = "push" /\ at_line' = [at_line EXCEPT ![p] = "full"]
      BY <1>7, <2>1 DEF Log!Push, Log!Goes, Log!poolVars
    <3> QED BY <3>1, LogQuiet
  <2> QED BY <1>7, <2>1, LogPushRoom
<1>8. ASSUME NEW p \in Loggers, Log!GetObject(p) PROVE LogInv' BY <1>8, LogReuse, LogMake
<1>9. ASSUME NEW p \in Loggers, Log!Fill(p) PROVE LogInv' BY <1>9, LogFill
<1>10. CASE UNCHANGED logVars
  <2>1. UNCHANGED <<lines, pool, made, current, said, held, text, file, logged, writer, at_line>>
    BY <1>10 DEF logVars
  <2> QED BY <2>1, LogQuiet, LogNames
<1> QED BY <1>1, <1>2, <1>3, <1>4, <1>5, <1>6, <1>7, <1>8, <1>9, <1>10, LogNames
        DEF Log!Next, Log!LogThread

(* From no two places and none lost to exactly one place. *)
LEMMA LogOneHolder == LogInv => Log!OneHolder
<1> SUFFICES ASSUME LogInv, NEW b \in Log!Buffers
             PROVE  IF b <= made THEN \E x \in Log!Places(b) : Log!Places(b) = {x}
                                 ELSE Log!Places(b) = {}
  BY DEF Log!OneHolder
<1>1. b \in Nat /\ b # 0 /\ made \in Nat BY LogNames DEF LogInv, LogType
<1> DEFINE Held == {p \in LogProducers : held[p] = b}
           Queued == {i \in 1 .. Len(lines) : lines[i] = b}
           Pooled == {i \in 1 .. Len(pool) : pool[i] = b}
           InHand == Writing /\ current = b
           A == {<<"caller", p>> : p \in Held}
           B == {<<"queue", i>> : i \in Queued}
           C == {<<"pool", i>> : i \in Pooled}
           D == IF InHand THEN {<<"thread", 0>>} ELSE {}
<1>2. DOMAIN lines = 1 .. Len(lines) /\ DOMAIN pool = 1 .. Len(pool) BY DEF LogInv, LogType
<1>3. Log!Places(b) = A \cup B \cup C \cup D
  BY <1>2, LogNames DEF Log!Places, Writing
<1>4. CASE b <= made
  <2>1. Somewhere(b) BY <1>1, <1>4 DEF LogInv, NoneLost
  <2>2. CASE Held # {}
    <3>1. PICK p \in LogProducers : held[p] = b BY <2>2
    <3>2. Held = {p} /\ Queued = {} /\ Pooled = {} /\ ~InHand
      BY <3>1, <1>1 DEF LogInv, Apart
    <3> HIDE DEF Held, Queued, Pooled, InHand
    <3>3. A = {<<"caller", p>>} /\ B = {} /\ C = {} /\ D = {} BY <3>2
    <3> QED BY <3>3, <1>3, <1>4
  <2>3. CASE Queued # {}
    <3>1. PICK i \in 1 .. Len(lines) : lines[i] = b BY <2>3
    <3>2. Queued = {i} /\ Held = {} /\ Pooled = {} /\ ~InHand
      BY <3>1, <1>1 DEF LogInv, Apart
    <3> HIDE DEF Held, Queued, Pooled, InHand
    <3>3. B = {<<"queue", i>>} /\ A = {} /\ C = {} /\ D = {} BY <3>2
    <3> QED BY <3>3, <1>3, <1>4
  <2>4. CASE Pooled # {}
    <3>1. PICK i \in 1 .. Len(pool) : pool[i] = b BY <2>4
    <3>2. Pooled = {i} /\ Held = {} /\ Queued = {} /\ ~InHand
      BY <3>1, <1>1 DEF LogInv, Apart
    <3> HIDE DEF Held, Queued, Pooled, InHand
    <3>3. C = {<<"pool", i>>} /\ A = {} /\ B = {} /\ D = {} BY <3>2
    <3> QED BY <3>3, <1>3, <1>4
  <2>5. CASE InHand
    <3>1. Held = {} /\ Queued = {} /\ Pooled = {} BY <2>5, <1>1 DEF LogInv, Apart
    <3> HIDE DEF Held, Queued, Pooled
    <3>2. A = {} /\ B = {} /\ C = {} BY <3>1
    <3>3. D = {<<"thread", 0>>} BY <2>5
    <3> QED BY <3>2, <3>3, <1>3, <1>4
  <2> QED BY <2>1, <2>2, <2>3, <2>4, <2>5 DEF Somewhere
<1>5. CASE ~(b <= made)
  <2>1. Held = {} /\ Queued = {} /\ Pooled = {} /\ ~InHand
    <3>1. \A p \in LogProducers : held[p] \in Nat /\ held[p] <= made
      BY DEF LogInv, LogType, AllMade
    <3>2. \A i \in 1 .. Len(lines) : lines[i] \in Nat /\ lines[i] <= made
      BY DEF LogInv, LogType, AllMade
    <3>3. \A i \in 1 .. Len(pool) : pool[i] \in Nat /\ pool[i] <= made
      BY DEF LogInv, LogType, AllMade
    <3>4. Writing => current \in Nat /\ current <= made BY DEF LogInv, LogType, AllMade
    <3> QED BY <1>1, <1>5, <3>1, <3>2, <3>3, <3>4
  <2> HIDE DEF Held, Queued, Pooled, InHand
  <2> QED BY <2>1, <1>3, <1>5
<1> QED BY <1>4, <1>5

LEMMA LogSafe == LogInv => Log!OneHolder /\ Log!NothingLost
<1> SUFFICES ASSUME LogInv PROVE Log!NothingLost BY LogOneHolder
<1> SUFFICES ASSUME at_line["owner"] = "done", NEW l \in logged
             PROVE  \E i \in DOMAIN file : file[i] = l
  BY LogNames DEF Log!NothingLost
<1>1. writer = "ended" BY DEF LogInv, NullIsOwners
<1>2. \E i \in 1 .. Len(file) : file[i] = l BY <1>1 DEF LogInv, LoggedComes, Coming
<1> QED BY <1>2 DEF LogInv, LogType

(* What the bounded log holds: the line in the log thread's hands and the
   queue, with the text of its buffers. *)
LineOf(b, t) == IF b = 0 THEN Log!NoLine ELSE t[b]
Queued(q, t) == [i \in 1 .. Len(q) |-> LineOf(q[i], t)]
Pending == Log!InHand \o Queued(lines, text)

LEMMA QueuedFacts ==
  ASSUME NEW q \in Seq(Nat), NEW t,
         \A i \in 1 .. Len(q) : q[i] # 0 => t[q[i]] \in Log!Lines
  PROVE  /\ Queued(q, t) \in Seq(LogText) /\ Len(Queued(q, t)) = Len(q) /\ Len(q) \in Nat
         /\ \A i \in 1 .. Len(q) : Queued(q, t)[i] = LineOf(q[i], t)
<1>1. Len(q) \in Nat OBVIOUS
<1>2. \A i \in 1 .. Len(q) : LineOf(q[i], t) \in LogText BY DEF LineOf, LogText
<1>3. Queued(q, t) \in [1 .. Len(q) -> LogText] BY <1>2 DEF Queued
<1> QED BY <1>1, <1>3, TableFacts DEF Queued

LEMMA PendingFacts ==
  ASSUME LogInv
  PROVE  /\ Log!InHand \in Seq(LogText) /\ Queued(lines, text) \in Seq(LogText)
         /\ Len(Queued(lines, text)) = Len(lines) /\ Len(lines) \in Nat
         /\ \A i \in 1 .. Len(lines) : Queued(lines, text)[i] = LineOf(lines[i], text)
<1>1. lines \in Seq(Nat) /\ \A i \in 1 .. Len(lines) : lines[i] # 0 => text[lines[i]] \in Log!Lines
  BY DEF LogInv, LogType, Filled
<1>2. writer = "write" => text[current] \in LogText BY DEF LogInv, Filled, LogText
<1> QED BY <1>1, <1>2, QueuedFacts DEF Log!InHand

(* The names of BoundedLog, as AsyncSink maps them. *)
LEMMA LogMapped ==
  ASSUME LogType
  PROVE  Pending = Log!InHand \o [i \in DOMAIN lines |->
                                    IF lines[i] = 0 THEN Log!NoLine ELSE text[lines[i]]]
<1>1. DOMAIN lines = 1 .. Len(lines) BY DEF LogType
<1> QED BY <1>1 DEF Pending, Queued, LineOf

(* A push into the queue is an Accept. *)
LEMMA LogAccepts ==
  ASSUME LogInv, NEW p \in LogProducers, Log!Push(p), ~Log!Full
  PROVE  \E l \in Log!Lines \cup {Log!NoLine} : Log!Log!Accept(l)
<1>1. /\ at_line[p] = "push"
      /\ lines' = Append(lines, held[p])
      /\ writer' = IF writer = "empty" THEN "pop" ELSE writer
      /\ UNCHANGED <<text, current, file>>
  BY LogNames DEF Log!Push, Log!NotifyNotEmpty, Log!Goes, Log!poolVars
<1>2. LogInv' BY LogPushRoom
<1> DEFINE l == LineOf(held[p], text)
           h == Log!InHand
           n == Len(lines)
<1>3. Log!InHand' = h /\ (writer' = "ended") = (writer = "ended") BY <1>1 DEF Log!InHand
<1>4. /\ lines' \in Seq(Nat) /\ n \in Nat /\ Len(lines') = n + 1 /\ lines'[n + 1] = held[p]
      /\ \A i \in 1 .. n : lines'[i] = lines[i]
  BY <1>1, AppendFacts DEF LogInv, LogType
<1>5. /\ h \in Seq(LogText) /\ Queued(lines, text) \in Seq(LogText)
      /\ Len(Queued(lines, text)) = n
      /\ \A i \in 1 .. n : Queued(lines, text)[i] = LineOf(lines[i], text)
  BY PendingFacts
<1>6. Queued(lines, text)' = Queued(lines', text) BY <1>1 DEF Queued
<1>7. /\ Queued(lines', text) \in Seq(LogText)
      /\ Len(Queued(lines', text)) = n + 1
      /\ \A i \in 1 .. n + 1 : Queued(lines', text)[i] = LineOf(lines'[i], text)
  <2>1. \A i \in 1 .. Len(lines') : lines'[i] # 0 => text[lines'[i]] \in Log!Lines
    BY <1>1, <1>2 DEF LogInv, Filled
  <2> QED BY <1>4, <2>1, QueuedFacts
<1>8. l \in LogText /\ LineOf(lines'[n + 1], text) = l
  <2>1. n + 1 \in 1 .. n + 1 BY <1>4
  <2>2. LineOf(lines'[n + 1], text) = l BY <1>4
  <2> HIDE DEF l
  <2>3. \A i \in 1 .. n + 1 : LineOf(lines'[i], text) \in LogText BY <1>7
  <2> QED BY <2>1, <2>2, <2>3
<1> HIDE DEF l, h, n
<1>9. Queued(lines', text) = Append(Queued(lines, text), l)
  <2>1. /\ Append(Queued(lines, text), l) \in Seq(LogText)
        /\ Len(Append(Queued(lines, text), l)) = n + 1
        /\ \A i \in 1 .. n : Append(Queued(lines, text), l)[i] = Queued(lines, text)[i]
        /\ Append(Queued(lines, text), l)[n + 1] = l
    BY <1>5, <1>8, AppendFacts
  <2>2. \A i \in 1 .. n + 1 : Queued(lines', text)[i] = Append(Queued(lines, text), l)[i]
    <3> SUFFICES ASSUME NEW i \in 1 .. n + 1
                 PROVE  Queued(lines', text)[i] = Append(Queued(lines, text), l)[i]
      OBVIOUS
    <3>1. CASE i = n + 1 BY <3>1, <1>7, <1>8, <2>1
    <3>2. CASE i # n + 1
      <4>1. i \in 1 .. n BY <3>2, <1>4
      <4> QED BY <4>1, <1>4, <1>5, <1>7, <2>1
    <3> QED BY <3>1, <3>2
  <2> QED BY <1>7, <2>1, <2>2, SameEntries
<1>10. Pending' = Append(Pending, l)
  <2>1. Pending' = h \o Queued(lines', text) BY <1>3, <1>6 DEF Pending
  <2>2. h \o Append(Queued(lines, text), l) = Append(h \o Queued(lines, text), l)
    BY <1>5, <1>8, AppendConcat
  <2> QED BY <2>1, <2>2, <1>9 DEF Pending, h
<1>11. LogSize # 0 => Len(Pending) < LogSize + 1
  <2>1. LogSize # 0 => n < LogSize BY <1>4, LoggersAssumption DEF Log!Full, n
  <2>2. Len(h) \in 0 .. 1 BY DEF h, Log!InHand
  <2>3. Len(Pending) = Len(h) + n BY <1>5, ConcatFacts DEF Pending, h
  <2>4. n \in Nat /\ LogSize \in Nat BY <1>4, LoggersAssumption
  <2> HIDE DEF Pending
  <2> QED BY <2>1, <2>2, <2>3, <2>4
<1>12. (IF LogSize = 0 THEN 0 ELSE LogSize + 1) # 0 =>
         Len(Pending) < IF LogSize = 0 THEN 0 ELSE LogSize + 1
  BY <1>11
<1>13. LogType /\ LogType' BY <1>2 DEF LogInv
<1>14. Pending' = Log!InHand' \o [i \in DOMAIN lines' |->
                                    IF lines'[i] = 0 THEN Log!NoLine ELSE text'[lines'[i]]]
  <2>1. DOMAIN lines' = 1 .. Len(lines') BY <1>4
  <2> QED BY <2>1 DEF Pending, Queued, LineOf
<1>15. PICK k \in LogText : k = l BY <1>8
<1>16. Log!Log!Accept(k)
  BY <1>1, <1>3, <1>10, <1>12, <1>13, <1>14, <1>15, LogMapped DEF Log!Log!Accept
<1> QED BY <1>15, <1>16 DEF LogText

(* The first entry of the queue, and the others. *)
LEMMA QueuedTail ==
  ASSUME LogInv, lines # << >>
  PROVE  /\ Queued(lines, text) \in Seq(LogText) /\ Queued(lines, text) # << >>
         /\ Head(Queued(lines, text)) = LineOf(Head(lines), text)
         /\ Tail(Queued(lines, text)) = Queued(Tail(lines), text)
<1> DEFINE q == Queued(lines, text)
           t == Tail(lines)
<1>1. /\ q \in Seq(LogText) /\ Len(q) = Len(lines) /\ Len(lines) \in Nat
      /\ \A i \in 1 .. Len(lines) : q[i] = LineOf(lines[i], text)
  BY PendingFacts
<1>2. /\ t \in Seq(Nat) /\ Head(lines) = lines[1] /\ Len(lines) > 0
      /\ Len(t) = Len(lines) - 1 /\ \A i \in 1 .. Len(t) : t[i] = lines[i + 1]
  BY TailFacts DEF LogInv, LogType
<1> HIDE DEF q, t
<1>3. q # << >> /\ 1 \in 1 .. Len(lines) BY <1>1, <1>2
<1>4. Head(q) = LineOf(Head(lines), text) BY <1>1, <1>2, <1>3
<1>5. /\ Tail(q) \in Seq(LogText) /\ Len(Tail(q)) = Len(q) - 1
      /\ \A i \in 1 .. Len(Tail(q)) : Tail(q)[i] = q[i + 1]
  BY <1>1, <1>3, TailFacts
<1>6. \A i \in 1 .. Len(t) : i + 1 \in 1 .. Len(lines) BY <1>1, <1>2
<1>7. /\ Queued(t, text) \in Seq(LogText) /\ Len(Queued(t, text)) = Len(t)
      /\ \A i \in 1 .. Len(t) : Queued(t, text)[i] = LineOf(t[i], text)
  <2>1. \A i \in 1 .. Len(t) : t[i] # 0 => text[t[i]] \in Log!Lines
    BY <1>2, <1>6 DEF LogInv, Filled
  <2> QED BY <1>2, <2>1, QueuedFacts
<1>8. Len(Tail(q)) = Len(t) /\ \A i \in 1 .. Len(t) : Tail(q)[i] = Queued(t, text)[i]
  BY <1>1, <1>2, <1>5, <1>6, <1>7
<1>9. Tail(q) = Queued(t, text) BY <1>5, <1>7, <1>8, SameEntries
<1> QED BY <1>1, <1>3, <1>4, <1>9 DEF q, t

(* After a step of the log thread or of a caller, Pending is again what the
   refinement mapping says. *)
LEMMA LogMappedNext ==
  ASSUME LogType'
  PROVE  Pending' = Log!InHand' \o [i \in DOMAIN lines' |->
                                      IF lines'[i] = 0 THEN Log!NoLine ELSE text'[lines'[i]]]
<1>1. DOMAIN lines' = 1 .. Len(lines') BY DEF LogType
<1> QED BY <1>1 DEF Pending, Queued, LineOf

(* The log thread takes a line: invisible.  It takes NULL: the log closes. *)
LEMMA LogTakes ==
  ASSUME LogInv, Log!Pop, lines # << >>
  PROVE  Log!Log!Close \/ UNCHANGED Log!Log!vars
<1>1. /\ writer = "pop" /\ lines' = Tail(lines) /\ current' = Head(lines)
      /\ writer' = IF Head(lines) = 0 THEN "ended" ELSE "write"
      /\ UNCHANGED <<text, file>>
  BY DEF Log!Pop, Log!poolVars
<1> DEFINE q == Queued(lines, text)
<1>2. /\ q \in Seq(LogText) /\ q # << >> /\ Head(q) = LineOf(Head(lines), text)
      /\ Tail(q) = Queued(lines, text)'
  BY <1>1, QueuedTail DEF Queued
<1>3. Tail(q) \in Seq(LogText) /\ Head(q) \in LogText BY <1>2, TailFacts
<1>4. Log!InHand = << >> BY <1>1 DEF Log!InHand
<1>5. LogType /\ LogType' BY LogPopOne DEF LogInv
<1>6. Pending = q
  BY <1>2, <1>3, <1>4, ConsFacts DEF Pending
<1> HIDE DEF q
<1>7. CASE Head(lines) = 0
  <2>1. Log!InHand' = << >> BY <1>1, <1>7 DEF Log!InHand
  <2>2. Pending' = Tail(q) BY <2>1, <1>2, <1>3, ConsFacts DEF Pending
  <2>3. Head(q) = Log!NoLine BY <1>2, <1>7 DEF LineOf
  <2>4. writer # "ended" /\ writer' = "ended" /\ file' = file BY <1>1, <1>7
  <2> QED BY <2>2, <2>3, <2>4, <1>2, <1>5, <1>6, LogMapped, LogMappedNext DEF Log!Log!Close
<1>8. CASE Head(lines) # 0
  <2>1. Log!InHand' = <<Head(q)>> BY <1>1, <1>2, <1>8 DEF Log!InHand, LineOf
  <2>2. Pending' = q BY <2>1, <1>2, <1>3, ConsFacts DEF Pending
  <2>3. (writer' = "ended") = (writer = "ended") /\ file' = file BY <1>1, <1>8
  <2> QED BY <2>2, <2>3, <1>5, <1>6, LogMapped, LogMappedNext DEF Log!Log!vars
<1> QED BY <1>7, <1>8

(* The log thread writes its line. *)
LEMMA LogWrites ==
  ASSUME LogInv, Log!WriteOut
  PROVE  Log!Log!Write
<1>1. /\ writer = "write" /\ writer' = "return" /\ file' = Append(file, text[current])
      /\ UNCHANGED <<lines, text, current>>
  BY DEF Log!WriteOut, Log!poolVars
<1> DEFINE q == Queued(lines, text)
           l == text[current]
<1>2. q \in Seq(LogText) /\ Queued(lines, text)' = q BY <1>1, PendingFacts DEF Queued
<1>3. l \in LogText /\ l # Log!NoLine BY <1>1, LogNames DEF LogInv, Filled, LogText
<1>4. Log!InHand = <<l>> /\ Log!InHand' = << >> BY <1>1 DEF Log!InHand
<1>5. LogType /\ LogType' BY LogWriteOut DEF LogInv
<1> HIDE DEF q, l
<1>6. Pending = <<l>> \o q /\ Pending' = << >> \o q BY <1>2, <1>4 DEF Pending, q
<1>7. Pending # << >> /\ Head(Pending) = l /\ Tail(Pending) = Pending'
  BY <1>2, <1>3, <1>6, ConsFacts
<1>8. /\ file' = Append(file, Head(Pending)) /\ Head(Pending) # Log!NoLine
      /\ writer # "ended" /\ (writer' = "ended") = (writer = "ended")
  BY <1>1, <1>3, <1>7 DEF l
<1> QED BY <1>5, <1>7, <1>8, LogMapped, LogMappedNext DEF Log!Log!Write

(* Whatever leaves the queue, the texts in it and the log thread's hands
   alone is invisible. *)
LEMMA LogInvisible ==
  ASSUME LogInv, LogType', UNCHANGED <<lines, file>>, Log!InHand' = Log!InHand,
         (writer' = "ended") = (writer = "ended"),
         \A i \in 1 .. Len(lines) : text'[lines[i]] = text[lines[i]]
  PROVE  UNCHANGED Log!Log!vars
<1>1. Queued(lines, text)' = Queued(lines, text) BY DEF Queued, LineOf
<1>2. Pending' = Pending BY <1>1 DEF Pending
<1>3. LogType BY DEF LogInv
<1> QED BY <1>2, <1>3, LogMapped, LogMappedNext DEF Log!Log!vars

LEMMA LogStepRefines ==
  LogInv /\ [Log!Next]_logVars => [Log!Log!Next]_(Log!Log!vars)
<1> SUFFICES ASSUME LogInv, [Log!Next]_logVars
             PROVE  Log!Log!Next \/ UNCHANGED Log!Log!vars
  OBVIOUS
<1>1. LogType' BY LogNext DEF LogInv
<1>2. ASSUME UNCHANGED <<lines, file, text, current>>,
             writer' = writer \/ {writer, writer'} \subseteq {"pop", "empty", "return"}
      PROVE  UNCHANGED Log!Log!vars
  <2>1. Log!InHand' = Log!InHand /\ (writer' = "ended") = (writer = "ended")
    BY <1>2 DEF Log!InHand
  <2> QED BY <2>1, <1>1, <1>2, LogInvisible
<1>3. CASE Log!Pop
  <2>1. CASE lines = << >> BY <2>1, <1>2, <1>3 DEF Log!Pop, Log!poolVars
  <2> QED BY <2>1, <1>3, LogTakes DEF Log!Log!Next
<1>4. CASE Log!WriteOut BY <1>4, LogWrites DEF Log!Log!Next
<1>5. CASE Log!ReturnObject
  <2>1. Log!InHand' = Log!InHand /\ (writer' = "ended") = (writer = "ended")
        /\ UNCHANGED <<lines, file, text>>
    BY <1>5 DEF Log!ReturnObject, Log!InHand
  <2> QED BY <2>1, <1>1, LogInvisible
<1>6. CASE Log!Spurious \/ Log!Destroy \/ Log!Close
  BY <1>2, <1>6 DEF Log!Spurious, Log!Destroy, Log!Close, Log!poolVars
<1>7. ASSUME NEW p \in LogProducers, Log!Push(p)
      PROVE  Log!Log!Next \/ UNCHANGED Log!Log!vars
  <2>1. CASE Log!Full BY <2>1, <1>2, <1>7 DEF Log!Push, Log!poolVars
  <2> QED BY <2>1, <1>7, LogAccepts DEF Log!Log!Next
<1>8. ASSUME NEW p \in Loggers, Log!GetObject(p) PROVE UNCHANGED Log!Log!vars
  BY <1>2, <1>8 DEF Log!GetObject
<1>9. ASSUME NEW p \in Loggers, Log!Fill(p) PROVE UNCHANGED Log!Log!vars
  <2>1. /\ at_line[p] = "fill" /\ text' = [text EXCEPT ![held[p]] = <<p, said[p]>>]
        /\ UNCHANGED <<lines, file, writer, current>>
    BY <1>9 DEF Log!Fill
  <2>2. p \in LogProducers /\ held[p] # 0 BY <2>1, LogNames DEF LogInv, HandsAgree
  <2>3. /\ \A i \in 1 .. Len(lines) : lines[i] # held[p]
        /\ writer = "write" => current # held[p]
    BY <2>2 DEF LogInv, Apart, Writing
  <2>4. \A b : b # held[p] => text'[b] = text[b] BY <2>1 DEF LogInv, LogType
  <2>5. Log!InHand' = Log!InHand BY <2>1, <2>3, <2>4 DEF Log!InHand
  <2> QED BY <2>1, <2>3, <2>4, <2>5, <1>1, LogInvisible
<1>10. CASE UNCHANGED logVars BY <1>2, <1>10 DEF logVars
<1> QED BY <1>3, <1>4, <1>5, <1>6, <1>7, <1>8, <1>9, <1>10, LogNames
        DEF Log!Next, Log!LogThread

-----------------------------------------------------------------------------
(* The specification of MCThreads *)

allVars == <<part, vars, netVars, semVars, lifeVars, serviceVars, logVars>>

(* A step of MCThreads is a step of each part, or leaves it alone. *)
LEMMA PartsStep ==
  [ThreadsNext]_allVars => /\ [Net!Next]_netVars /\ [Sem!Next]_semVars
                           /\ [Life!Next]_lifeVars /\ [Service!Next]_serviceVars
                           /\ [Log!Next]_logVars
<1> SUFFICES ASSUME [ThreadsNext]_allVars
             PROVE  /\ [Net!Next]_netVars /\ [Sem!Next]_semVars
                    /\ [Life!Next]_lifeVars /\ [Service!Next]_serviceVars
                    /\ [Log!Next]_logVars
  OBVIOUS
<1>1. CASE ThreadsNext BY <1>1 DEF ThreadsNext, Picked
<1>2. CASE UNCHANGED allVars BY <1>2 DEF allVars
<1> QED BY <1>1, <1>2

(* The parts keep their invariants. *)
ThreadsInv == SemInv /\ LifeInv /\ ServiceInv /\ LogInv

THEOREM ThreadsInvariance == ThreadsSpec => []ThreadsInv
<1>1. ThreadsInit => ThreadsInv
  BY SemInit, LifeInit, ServiceInit, LogInit DEF ThreadsInit, ThreadsInv
<1>2. ThreadsInv /\ [ThreadsNext]_allVars => ThreadsInv'
  BY PartsStep, SemNext, LifeNext, ServiceNext, LogNext DEF ThreadsInv
<1> QED BY <1>1, <1>2, PTL DEF ThreadsSpec, allVars

(* thread.cc and tcp_service.h: a stop that has returned is safe to rely on,
   for any number of stoppers, net threads, connections and commands, and
   semaphore.cc's counters tell who waits, for any number of waiters. *)
THEOREM StopSafe == ThreadsSpec => []StopIsSafe
<1>1. ThreadsInv => StopIsSafe
  BY LifeSafe, ServiceSafe DEF ThreadsInv, StopIsSafe, SemInv
<1> QED BY <1>1, ThreadsInvariance, PTL

(* logger_async_sink.cc: a log buffer is in one place, and no line logged
   before the destructor is lost, for any number of callers and lines and any
   size of the queue. *)
THEOREM NoLineLost == ThreadsSpec => []LinesKept
<1>1. ThreadsInv => LinesKept BY LogSafe DEF ThreadsInv, LinesKept
<1> QED BY <1>1, ThreadsInvariance, PTL

(* semaphore.cc implements a counting semaphore, as far as safety goes. *)
THEOREM RefinesSemaphore == ThreadsSpec => Sem!Counting!SemSafety
<1>1. ThreadsInit => Sem!Counting!SemInit
  BY DEF ThreadsInit, Sem!Init, Sem!Counting!SemInit, Sem!Permits
<1>2. ThreadsInv /\ [ThreadsNext]_allVars => [Sem!Counting!SemNext]_(Sem!Counting!svars)
  BY PartsStep, SemStepRefines DEF ThreadsInv
<1> QED BY <1>1, <1>2, ThreadsInvariance, PTL DEF ThreadsSpec, allVars, Sem!Counting!SemSafety

(* The callers of log and the log thread implement the bounded log: lines are
   written once, in the order they were accepted in, and none after NULL. *)
THEOREM RefinesLog == ThreadsSpec => Log!Log!Safety
<1>1. ThreadsInit => Log!Log!Init
  <2> SUFFICES ASSUME ThreadsInit PROVE Log!Log!Init OBVIOUS
  <2>1. Log!Init BY DEF ThreadsInit
  <2>2. lines = << >> /\ file = << >> /\ writer = "pop" BY <2>1 DEF Log!Init
  <2>3. LogType BY <2>1, LogInit DEF LogInv
  <2>4. LogInv BY <2>1, LogInit
  <2>5. Log!InHand = << >> BY <2>2 DEF Log!InHand
  <2>6. Queued(lines, text) \in Seq(LogText) /\ Len(Queued(lines, text)) = 0
    BY <2>2, <2>4, PendingFacts
  <2>7. Queued(lines, text) = << >> BY <2>6
  <2>8. Pending = << >> BY <2>5, <2>7 DEF Pending
  <2>9. (writer = "ended") = FALSE BY <2>2
  <2> QED BY <2>2, <2>3, <2>8, <2>9, LogMapped DEF Log!Log!Init
<1>2. ThreadsInv /\ [ThreadsNext]_allVars => [Log!Log!Next]_(Log!Log!vars)
  BY PartsStep, LogStepRefines DEF ThreadsInv
<1> QED BY <1>1, <1>2, ThreadsInvariance, PTL DEF ThreadsSpec, allVars, Log!Log!Safety

(* A net thread's queue implements the mailbox, as far as safety goes. *)
THEOREM NetRefinesMailbox == ThreadsSpec => Net!Box!MailboxSafety
<1>1. ThreadsInit => Net!Box!MailboxInit
  BY DEF ThreadsInit, Net!Init, Net!Box!MailboxInit
<1>2. [Net!Next]_netVars => [Net!Box!MailboxNext]_(Net!Box!mvars)
  BY DEF Net!Next, Net!Reader, netVars, Net!Push, Net!Notify, Net!Wake, Net!DrainRead,
         Net!DrainDone, Net!Pop, Net!PopEmpty, Net!Box!MailboxNext, Net!Box!Send,
         Net!Box!Deliver, Net!Box!mvars
<1>3. [ThreadsNext]_allVars => [Net!Next]_netVars BY PartsStep
<1> QED BY <1>1, <1>2, <1>3, PTL DEF ThreadsSpec, allVars, Net!Box!MailboxSafety
=============================================================================
