------------------------------ MODULE ThreadsProofs ------------------------------
(***************************************************************************)
(* Proofs about the two pools of threads, for every set of worker threads  *)
(* and every number of blocks, inputs, heights and answers: a verdict of   *)
(* the ring checker counts the results of its block and no others, the     *)
(* wallet applies the blocks of the answer at hand and loses none, and no  *)
(* notification of either pool is lost.  RingInv and PrepInv are the       *)
(* inductive invariants; both are kept by every step of the composition.   *)
(***************************************************************************)
EXTENDS MCBlockChain, FiniteSetTheorems, TLAPS

\* The inputs that workers hold for the current block, and those queued.
HeldArgs == {r_worker[w].arg : w \in Rc!Held}
Queued(s) == {s[i] : i \in 1..Len(s)}

\* A worker that does not check has no input; what it checks was queued for this
\* block or for an earlier one; it returns only when told to.
WorkersOK ==
  \A w \in RingWorker :
    /\ r_worker[w] \in {Rc!Ready, Rc!Asleep, Rc!Returned} \/ r_worker[w].at = "checking"
    /\ r_worker[w].local <= r_counter
    /\ r_worker[w] = Rc!Returned => r_quit

\* The inputs gone through are those counted in total_counter and none of them
\* was refused, errors are those of the inputs counted, and the applying thread
\* sleeps only while results are missing.
MainOK ==
  /\ total_counter = fed
  /\ \A i \in 1..fed : block[i] # "unknown"
  /\ r_main \in {"waiting", "asleep"} => fed = Len(block)
  /\ errors = {i \in counted : block[i] = "bad"}
  /\ r_main = "asleep" => ready_counter # total_counter

RingInv ==
  /\ Rc!TypeOK /\ WorkersOK /\ MainOK
  /\ Rc!NoStaleResult /\ Rc!VerdictExact /\ Rc!NoLostWakeup

-------------------------------------------------------------------------------
\* The pool's finite sets and cardinalities are those of FiniteSets.
LEMMA SameSets ==
  ASSUME NEW S
  PROVE  /\ Rc!IsFiniteSet(S) <=> IsFiniteSet(S)
         /\ Rc!Cardinality(S) = Cardinality(S)
  <1>1. Rc!IsFiniteSet(S) <=> IsFiniteSet(S)
    BY DEF Rc!IsFiniteSet, IsFiniteSet
  <1>2. Rc!Cardinality(S) = Cardinality(S)
    BY DEF Rc!Cardinality, Cardinality
  <1> QED
    BY <1>1, <1>2

-------------------------------------------------------------------------------
\* The first input of the queue and the rest of it are the queue.
LEMMA QueuedTail ==
  ASSUME NEW s \in Seq(Nat), s # <<>>
  PROVE  /\ Head(s) \in Nat /\ Tail(s) \in Seq(Nat) /\ Len(Tail(s)) = Len(s) - 1
         /\ Queued(s) = {Head(s)} \cup Queued(Tail(s))
  <1>1. /\ Len(s) \in Nat \ {0} /\ Head(s) = s[1] /\ Tail(s) \in Seq(Nat)
        /\ Len(Tail(s)) = Len(s) - 1
        /\ \A i \in 1..(Len(s) - 1) : Tail(s)[i] = s[i + 1]
        /\ Head(s) \in Nat
    OBVIOUS
  <1>2. ASSUME NEW x \in Queued(s) PROVE x \in {Head(s)} \cup Queued(Tail(s))
    <2>1. PICK i \in 1..Len(s) : x = s[i]
      BY <1>2 DEF Queued
    <2>2. CASE i = 1
      BY <1>1, <2>1, <2>2
    <2>3. CASE i # 1
      <3>1. i - 1 \in 1..(Len(s) - 1) /\ Tail(s)[i - 1] = s[i]
        BY <1>1, <2>3
      <3> QED
        BY <3>1, <2>1, <1>1 DEF Queued
    <2> QED
      BY <2>2, <2>3
  <1>3. ASSUME NEW x \in {Head(s)} \cup Queued(Tail(s)) PROVE x \in Queued(s)
    <2>1. CASE x = Head(s)
      BY <1>1, <2>1 DEF Queued
    <2>2. CASE x \in Queued(Tail(s))
      <3>1. PICK i \in 1..(Len(s) - 1) : x = Tail(s)[i]
        BY <2>2, <1>1 DEF Queued
      <3>2. i + 1 \in 1..Len(s) /\ x = s[i + 1]
        BY <3>1, <1>1
      <3> QED
        BY <3>2 DEF Queued
    <2> QED
      BY <1>3, <2>1, <2>2
  <1> QED
    BY <1>1, <1>2, <1>3

\* Appending an input adds it to those queued.
LEMMA QueuedAppend ==
  ASSUME NEW s \in Seq(Nat), NEW x \in Nat
  PROVE  /\ Append(s, x) \in Seq(Nat) /\ Len(Append(s, x)) = Len(s) + 1
         /\ Queued(Append(s, x)) = Queued(s) \cup {x}
  <1> DEFINE t == Append(s, x)
  <1>1. /\ t \in Seq(Nat) /\ Len(s) \in Nat /\ Len(t) = Len(s) + 1
        /\ t[Len(s) + 1] = x /\ \A i \in 1..Len(s) : t[i] = s[i]
    OBVIOUS
  <1>2. ASSUME NEW y \in Queued(t) PROVE y \in Queued(s) \cup {x}
    <2>1. PICK i \in 1..Len(t) : y = t[i]
      BY <1>2 DEF Queued
    <2>2. i \in 1..Len(s) \/ i = Len(s) + 1
      BY <1>1
    <2> QED
      BY <1>1, <2>1, <2>2 DEF Queued
  <1>3. ASSUME NEW y \in Queued(s) \cup {x} PROVE y \in Queued(t)
    <2>1. CASE y = x
      BY <1>1, <2>1 DEF Queued
    <2>2. CASE y \in Queued(s)
      <3>1. PICK i \in 1..Len(s) : y = s[i]
        BY <2>2 DEF Queued
      <3>2. i \in 1..Len(t) /\ y = t[i]
        BY <3>1, <1>1
      <3> QED
        BY <3>2 DEF Queued
    <2> QED
      BY <1>3, <2>1, <2>2
  <1> QED
    BY <1>1, <1>2, <1>3

\* An empty queue has no inputs.
LEMMA QueuedEmpty == Len(<<>>) = 0 /\ Queued(<<>>) = {} /\ <<>> \in Seq(Nat)
  BY DEF Queued

-------------------------------------------------------------------------------
\* NoStaleResult, in terms of the sets above.
LEMMA Stale ==
  Rc!NoStaleResult <=>
    /\ Len(args) + Rc!Cardinality(Rc!Held) + ready_counter = total_counter
    /\ counted \cup HeldArgs \cup Queued(args) = 1..total_counter
  BY DEF Rc!NoStaleResult, HeldArgs, Queued

\* Workers that hold no input for the current block may change as they like.
LEMMA SameHeld ==
  ASSUME UNCHANGED r_counter,
         \A w \in RingWorker : \/ r_worker'[w] = r_worker[w]
                               \/ r_worker[w].at # "checking" /\ r_worker'[w].at # "checking"
  PROVE  Rc!Held' = Rc!Held /\ HeldArgs' = HeldArgs
  <1>1. \A w \in RingWorker : w \in Rc!Held' <=> w \in Rc!Held
    BY DEF Rc!Held
  <1>2. Rc!Held' = Rc!Held
    BY <1>1 DEF Rc!Held
  <1>3. \A w \in Rc!Held : r_worker'[w] = r_worker[w]
    BY <1>2 DEF Rc!Held
  <1> QED
    BY <1>2, <1>3 DEF HeldArgs

\* The workers that hold an input for the current block are finitely many.
LEMMA HeldFinite ==
  ASSUME Rc!PoolAssumption
  PROVE  /\ IsFiniteSet(Rc!Held) /\ Rc!Cardinality(Rc!Held) \in Nat
         /\ (Rc!Cardinality(Rc!Held) = 0 <=> Rc!Held = {})
  <1>1. IsFiniteSet(RingWorker) /\ Rc!Held \subseteq RingWorker
    BY SameSets DEF Rc!PoolAssumption, Rc!Held
  <1>2. IsFiniteSet(Rc!Held)
    BY <1>1, FS_Subset, SameSets
  <1> QED
    BY <1>2, FS_CardinalityType, FS_EmptySet, SameSets

\* Steps that leave the results, the block and the queue alone keep what is
\* said about them.
LEMMA SameResults ==
  ASSUME MainOK, Rc!NoStaleResult, Rc!VerdictExact,
         UNCHANGED <<args, errors, ready_counter, total_counter, block, fed, result, counted>>,
         Rc!Held' = Rc!Held, HeldArgs' = HeldArgs,
         r_main' \in {"waiting", "asleep"} => fed = Len(block),
         r_main' = "asleep" => ready_counter # total_counter
  PROVE  MainOK' /\ Rc!NoStaleResult' /\ Rc!VerdictExact'
  <1>1. MainOK'
    BY DEF MainOK
  <1>2. Rc!VerdictExact'
    BY DEF Rc!VerdictExact
  <1>3. Rc!NoStaleResult'
    BY DEF Rc!NoStaleResult, HeldArgs
  <1> QED
    BY <1>1, <1>2, <1>3

\* notify_all wakes every sleeping worker and leaves the others alone.
LEMMA AllWoken ==
  ASSUME Rc!TypeOK, WorkersOK, Rc!have_work_notify_all, UNCHANGED r_counter,
         r_quit' = r_quit \/ r_quit'
  PROVE  /\ r_worker' \in [RingWorker -> Rc!WorkerState] /\ WorkersOK'
         /\ Rc!Held' = Rc!Held /\ HeldArgs' = HeldArgs
         /\ ~r_quit => \A w \in RingWorker : r_worker'[w].at \in {"loop", "checking"}
  <1>1. ASSUME NEW w \in RingWorker
        PROVE  /\ r_worker'[w] = IF r_worker[w] = Rc!Asleep THEN Rc!Ready ELSE r_worker[w]
               /\ r_worker'[w] \in Rc!WorkerState
               /\ \/ r_worker'[w] = r_worker[w]
                  \/ r_worker[w].at # "checking" /\ r_worker'[w].at # "checking"
               /\ r_worker'[w] \in {Rc!Ready, Rc!Asleep, Rc!Returned} \/ r_worker'[w].at = "checking"
               /\ r_worker'[w].local <= r_counter
               /\ r_worker'[w] = Rc!Returned => r_quit
               /\ r_worker'[w] # Rc!Asleep
    BY <1>1 DEF Rc!have_work_notify_all, Rc!TypeOK, WorkersOK, Rc!WorkerState, Rc!Ready,
                Rc!Asleep, Rc!Returned
  <1>2. r_worker' \in [RingWorker -> Rc!WorkerState]
    BY <1>1 DEF Rc!have_work_notify_all
  <1>3. WorkersOK'
    BY <1>1 DEF WorkersOK, Rc!Ready, Rc!Asleep, Rc!Returned
  <1>4. Rc!Held' = Rc!Held /\ HeldArgs' = HeldArgs
    BY <1>1, SameHeld
  <1>5. ~r_quit => \A w \in RingWorker : r_worker'[w].at \in {"loop", "checking"}
    BY <1>1 DEF Rc!Ready, Rc!Asleep, Rc!Returned
  <1> QED
    BY <1>2, <1>3, <1>4, <1>5

\* The applying thread sleeps only while an input is queued or held.
LEMMA SleepsForSomething ==
  ASSUME Rc!PoolAssumption, Rc!TypeOK, MainOK, Rc!NoStaleResult, r_main = "asleep"
  PROVE  args # <<>> \/ Rc!Held # {}
  <1>1. SUFFICES ASSUME args = <<>>, Rc!Held = {} PROVE FALSE
    OBVIOUS
  <1>2. Len(args) = 0 /\ Rc!Cardinality(Rc!Held) = 0
    BY <1>1, HeldFinite, QueuedEmpty
  <1> QED
    BY <1>2 DEF Rc!NoStaleResult, MainOK, Rc!TypeOK

-------------------------------------------------------------------------------
\* A new object satisfies the invariant.
LEMMA RingInit ==
  ASSUME Rc!PoolAssumption, Rc!Init PROVE RingInv
  <1> USE DEF Rc!Init
  <1>0. 0 \in 0..MaxInputs /\ <<>> \in [1..0 -> Rc!Verdict] /\ 1..0 = {}
    BY DEF Rc!PoolAssumption
  <1>1. <<>> \in Rc!Inputs
    BY <1>0 DEF Rc!Inputs
  <1>2. Rc!TypeOK
    <2>1. args \in Seq(Nat) /\ fed \in 0..Len(block)
      BY QueuedEmpty
    <2>2. r_worker \in [RingWorker -> Rc!WorkerState]
      BY DEF Rc!Ready, Rc!WorkerState
    <2> QED
      BY <1>1, <2>1, <2>2 DEF Rc!TypeOK
  <1>3. WorkersOK
    BY DEF WorkersOK, Rc!Ready, Rc!Returned
  <1>4. MainOK
    BY DEF MainOK
  <1>5. Rc!Held = {}
    BY DEF Rc!Held, Rc!Ready
  <1>6. Rc!NoStaleResult
    <2>1. Rc!Cardinality(Rc!Held) = 0 /\ HeldArgs = {}
      BY <1>5, FS_EmptySet, SameSets DEF HeldArgs
    <2>2. Len(args) = 0 /\ Queued(args) = {}
      BY QueuedEmpty
    <2>3. total_counter = 0 /\ ready_counter = 0 /\ counted = {}
      OBVIOUS
    <2> QED
      BY <2>1, <2>2, <2>3, <1>0, Stale
  <1>7. Rc!VerdictExact
    BY DEF Rc!VerdictExact
  <1>8. Rc!NoLostWakeup
    BY DEF Rc!NoLostWakeup
  <1> QED
    BY <1>2, <1>3, <1>4, <1>6, <1>7, <1>8 DEF RingInv

\* Every step keeps the invariant.
LEMMA RingStep ==
  ASSUME Rc!PoolAssumption, RingInv, [Rc!Next]_(Rc!vars) PROVE RingInv'
  <1> USE DEF RingInv
  <1>1. ASSUME NEW b \in Rc!Inputs, Rc!Start(b) PROVE RingInv'
    <2> USE <1>1 DEF Rc!Start
    <2>1. Rc!TypeOK'
      <3>1. Len(b) \in Nat /\ 0 \in 0..Len(b)
        BY DEF Rc!Inputs, Rc!PoolAssumption
      <3> QED
        BY <3>1, QueuedEmpty DEF Rc!TypeOK
    <2>2. \A w \in RingWorker : r_worker'[w].local <= r_counter /\ r_worker'[w].local # r_counter'
      BY DEF WorkersOK, Rc!TypeOK, Rc!WorkerState
    <2>3. WorkersOK'
      BY DEF WorkersOK, Rc!TypeOK, Rc!WorkerState
    <2>4. MainOK'
      BY DEF MainOK
    <2>5. Rc!Held' = {}
      BY <2>2 DEF Rc!Held
    <2>6. Rc!NoStaleResult'
      <3>1. Rc!Cardinality(Rc!Held') = 0 /\ HeldArgs' = {}
        BY <2>5, FS_EmptySet, SameSets DEF HeldArgs
      <3>2. Len(args') = 0 /\ Queued(args') = {} /\ total_counter' = 0
            /\ ready_counter' = 0 /\ counted' = {} /\ 1..0 = {}
        BY QueuedEmpty
      <3> QED
        BY <3>1, <3>2 DEF Rc!NoStaleResult, HeldArgs, Queued
    <2>7. Rc!VerdictExact' /\ Rc!NoLostWakeup'
      BY DEF Rc!VerdictExact, Rc!NoLostWakeup
    <2> QED
      BY <2>1, <2>3, <2>4, <2>6, <2>7
  <1>2. CASE Rc!Feed
    <2> USE <1>2 DEF Rc!Feed
    <2>1. /\ r_worker' \in [RingWorker -> Rc!WorkerState] /\ WorkersOK'
          /\ Rc!Held' = Rc!Held /\ HeldArgs' = HeldArgs
          /\ ~r_quit => \A w \in RingWorker : r_worker'[w].at \in {"loop", "checking"}
      BY AllWoken
    <2>2. /\ fed \in Nat /\ fed + 1 \in Nat /\ fed + 1 \in 0..Len(block) /\ args \in Seq(Nat)
          /\ total_counter = fed /\ total_counter' = fed + 1
      BY DEF Rc!TypeOK, MainOK, Rc!Inputs, Rc!PoolAssumption
    <2>3. /\ args' \in Seq(Nat) /\ Len(args') = Len(args) + 1
          /\ Queued(args') = Queued(args) \cup {fed + 1}
      BY <2>2, QueuedAppend
    <2>4. Rc!TypeOK'
      BY <2>1, <2>2, <2>3 DEF Rc!TypeOK
    <2>5. MainOK'
      BY <2>2 DEF MainOK
    <2>6. Rc!NoStaleResult'
      <3>1. 1..(fed + 1) = 1..fed \cup {fed + 1}
        BY <2>2
      <3>2. /\ Len(args) + Rc!Cardinality(Rc!Held) + ready_counter = fed
            /\ counted \cup HeldArgs \cup Queued(args) = 1..fed
        BY <2>2, Stale
      <3>3. counted' \cup HeldArgs' \cup Queued(args') = 1..(fed + 1)
        BY <2>1, <2>3, <3>1, <3>2
      <3>4. Len(args) \in Nat /\ Rc!Cardinality(Rc!Held) \in Nat /\ ready_counter \in Nat
        BY <2>2, HeldFinite DEF Rc!TypeOK
      <3>5. Len(args') + Rc!Cardinality(Rc!Held') + ready_counter' = fed + 1
        BY <2>1, <2>3, <3>2, <3>4
      <3> QED
        BY <2>2, <3>3, <3>5 DEF Rc!NoStaleResult, HeldArgs, Queued
    <2>7. Rc!VerdictExact'
      BY DEF Rc!VerdictExact
    <2>8. Rc!NoLostWakeup'
      BY <2>1 DEF Rc!NoLostWakeup, Rc!PoolAssumption
    <2> QED
      BY <2>1, <2>4, <2>5, <2>6, <2>7, <2>8
  <1>3. CASE Rc!Refuse \/ Rc!Fed \/ Rc!Wait \/ Rc!SpuriousMain
    <2>1. /\ UNCHANGED <<args, errors, ready_counter, total_counter, r_counter, r_quit,
                         r_worker, block, fed, counted>>
          /\ r_main' \in {"idle", "waiting", "asleep"}
          /\ r_main' \in {"waiting", "asleep"} => fed = Len(block)
          /\ r_main' = "asleep" => ready_counter # total_counter
          /\ result' = result \/ result' = "refused"
      BY <1>3 DEF Rc!Refuse, Rc!Fed, Rc!Wait, Rc!SpuriousMain, Rc!mutex, MainOK
    <2>2. Rc!TypeOK'
      BY <2>1 DEF Rc!TypeOK
    <2>3. WorkersOK'
      BY <2>1 DEF WorkersOK
    <2>4. Rc!Held' = Rc!Held /\ HeldArgs' = HeldArgs
      BY <2>1, SameHeld
    <2>5. MainOK'
      BY <2>1 DEF MainOK
    <2>6. Rc!NoStaleResult'
      BY <2>1, <2>4 DEF Rc!NoStaleResult
    <2>7. Rc!VerdictExact'
      BY <2>1 DEF Rc!VerdictExact
    <2>8. r_main' = "asleep" => args' # <<>> \/ Rc!Held' # {}
      <3>1. SUFFICES ASSUME args = <<>>, Rc!Held = {} PROVE r_main' # "asleep"
        BY <2>1, <2>4
      <3>2. Len(args) = 0 /\ Rc!Cardinality(Rc!Held) = 0
        BY <3>1, HeldFinite, QueuedEmpty
      <3> QED
        BY <2>1, <3>2 DEF Rc!NoStaleResult, Rc!TypeOK
    <2>9. Rc!NoLostWakeup'
      BY <2>1, <2>8 DEF Rc!NoLostWakeup
    <2> QED
      BY <2>2, <2>3, <2>5, <2>6, <2>7, <2>9
  <1>4. CASE Rc!signatures_valid
    <2> USE <1>4 DEF Rc!signatures_valid, Rc!mutex
    <2>1. Rc!TypeOK'
      BY DEF Rc!TypeOK
    <2>2. WorkersOK'
      BY DEF WorkersOK
    <2>3. Rc!Held' = Rc!Held /\ HeldArgs' = HeldArgs
      BY SameHeld
    <2>4. MainOK' /\ Rc!NoLostWakeup'
      BY <2>3 DEF MainOK, Rc!NoLostWakeup
    <2>5. Rc!NoStaleResult'
      BY <2>3 DEF Rc!NoStaleResult
    <2>6. Rc!VerdictExact'
      <3>1. /\ Len(args) \in Nat /\ Rc!Cardinality(Rc!Held) \in Nat
            /\ ready_counter \in Nat /\ args \in Seq(Nat)
        BY HeldFinite DEF Rc!TypeOK
      <3>2. Len(args) = 0 /\ Rc!Cardinality(Rc!Held) = 0
        BY <3>1 DEF Rc!NoStaleResult
      <3>3. args = <<>> /\ Rc!Held = {}
        BY <3>1, <3>2, HeldFinite
      <3>4. HeldArgs = {} /\ Queued(args) = {}
        BY <3>3, QueuedEmpty DEF HeldArgs
      <3>5. counted = 1..Len(block)
        BY <3>4, Stale DEF MainOK
      <3>6. \A i \in 1..Len(block) : block[i] \in {"good", "bad"}
        <4>1. \A i \in 1..Len(block) : block[i] \in Rc!Verdict
          BY DEF Rc!TypeOK, Rc!Inputs
        <4> QED
          BY <4>1 DEF MainOK, Rc!Verdict
      <3> QED
        BY <3>5, <3>6 DEF Rc!VerdictExact, MainOK
    <2> QED
      BY <2>1, <2>2, <2>4, <2>5, <2>6
  <1>5. CASE Rc!Quit
    <2> USE <1>5 DEF Rc!Quit
    <2>1. /\ r_worker' \in [RingWorker -> Rc!WorkerState] /\ WorkersOK'
          /\ Rc!Held' = Rc!Held /\ HeldArgs' = HeldArgs
      BY AllWoken
    <2>2. Rc!TypeOK'
      BY <2>1 DEF Rc!TypeOK
    <2>3. MainOK' /\ Rc!NoStaleResult' /\ Rc!VerdictExact'
      BY <2>1, SameResults
    <2>4. Rc!NoLostWakeup'
      BY <2>1 DEF Rc!NoLostWakeup
    <2> QED
      BY <2>1, <2>2, <2>3, <2>4
  <1>6. ASSUME NEW w \in RingWorker, Rc!Take(w) PROVE RingInv'
    <2> USE <1>6
    <2>1. /\ r_worker[w] = Rc!Ready /\ r_worker[w].at # "checking" /\ w \notin Rc!Held
          /\ UNCHANGED <<errors, ready_counter, r_counter, r_quit, total_counter, r_main,
                         block, fed, result, counted>>
      BY DEF Rc!Take, Rc!Ready, Rc!Held
    <2>2. CASE args' = args /\ (\/ r_quit /\ r_worker' = [r_worker EXCEPT ![w] = Rc!Returned]
                                \/ args = <<>> /\ r_worker' = [r_worker EXCEPT ![w] = Rc!Asleep])
      <3> USE <2>2
      <3>1. r_worker' \in [RingWorker -> Rc!WorkerState]
        <4>1. Rc!Returned \in Rc!WorkerState /\ Rc!Asleep \in Rc!WorkerState
          BY DEF Rc!WorkerState, Rc!Returned, Rc!Asleep
        <4> QED
          BY <4>1 DEF Rc!TypeOK
      <3>2. /\ \A v \in RingWorker : v # w => r_worker'[v] = r_worker[v]
            /\ r_worker'[w] = Rc!Asleep \/ (r_quit /\ r_worker'[w] = Rc!Returned)
        BY DEF Rc!TypeOK
      <3>3. Rc!TypeOK'
        BY <2>1, <3>1 DEF Rc!TypeOK
      <3>4. WorkersOK'
        BY <2>1, <3>2 DEF WorkersOK, Rc!TypeOK, Rc!Asleep, Rc!Returned, Rc!Ready
      <3>5. Rc!Held' = Rc!Held /\ HeldArgs' = HeldArgs
        <4>1. r_worker'[w].at # "checking"
          BY <3>2 DEF Rc!Asleep, Rc!Returned
        <4> QED
          BY <2>1, <3>2, <4>1, SameHeld
      <3>6. MainOK' /\ Rc!NoStaleResult' /\ Rc!VerdictExact'
        BY <2>1, <3>5, SameResults DEF MainOK
      <3>7. Rc!NoLostWakeup'
        BY <2>1, <3>5 DEF Rc!NoLostWakeup
      <3> QED
        BY <3>3, <3>4, <3>6, <3>7
    <2>3. CASE /\ args # <<>> /\ args' = Tail(args)
               /\ r_worker' = [r_worker EXCEPT ![w] = Rc!Checking(Head(args), r_counter)]
      <3> USE <2>3
      <3>1. /\ Head(args) \in Nat /\ args' \in Seq(Nat) /\ Len(args') = Len(args) - 1
            /\ Queued(args) = {Head(args)} \cup Queued(args') /\ r_counter \in Nat
        BY QueuedTail DEF Rc!TypeOK
      <3>2. /\ r_worker' \in [RingWorker -> Rc!WorkerState]
            /\ \A v \in RingWorker : v # w => r_worker'[v] = r_worker[v]
            /\ r_worker'[w].at = "checking" /\ r_worker'[w].arg = Head(args)
            /\ r_worker'[w].local = r_counter
        BY <3>1 DEF Rc!TypeOK, Rc!WorkerState, Rc!Checking
      <3>3. Rc!TypeOK'
        BY <2>1, <3>1, <3>2 DEF Rc!TypeOK
      <3>4. WorkersOK'
        BY <2>1, <3>1, <3>2 DEF WorkersOK, Rc!Ready, Rc!Asleep, Rc!Returned
      <3>5. Rc!Held' = Rc!Held \cup {w}
        BY <2>1, <3>2 DEF Rc!Held
      <3>6. HeldArgs' = HeldArgs \cup {Head(args)}
        <4>1. \A v \in Rc!Held : r_worker'[v] = r_worker[v]
          BY <2>1, <3>2 DEF Rc!Held
        <4> QED
          BY <3>2, <3>5, <4>1 DEF HeldArgs
      <3>7. Rc!NoStaleResult'
        <4>1. Rc!Cardinality(Rc!Held') = Rc!Cardinality(Rc!Held) + 1
          BY <2>1, <3>5, HeldFinite, FS_AddElement, SameSets
        <4>2. Len(args') + Rc!Cardinality(Rc!Held') + ready_counter' = total_counter'
          <5>1. Len(args) \in Nat /\ Rc!Cardinality(Rc!Held) \in Nat /\ ready_counter \in Nat
            BY HeldFinite DEF Rc!TypeOK
          <5> QED
            BY <2>1, <3>1, <4>1, <5>1, Stale
        <4>3. counted' \cup HeldArgs' \cup Queued(args') = 1..total_counter'
          BY <2>1, <3>1, <3>6, Stale
        <4> QED
          BY <4>2, <4>3 DEF Rc!NoStaleResult, HeldArgs, Queued
      <3>8. MainOK' /\ Rc!VerdictExact'
        BY <2>1 DEF MainOK, Rc!VerdictExact
      <3>9. Rc!NoLostWakeup'
        BY <2>1, <3>2, <3>5 DEF Rc!NoLostWakeup
      <3> QED
        BY <3>3, <3>4, <3>7, <3>8, <3>9
    <2> QED
      BY <2>2, <2>3 DEF Rc!Take
  <1>7. ASSUME NEW w \in RingWorker, Rc!Finish(w) PROVE RingInv'
    <2> USE <1>7
    <2>1. /\ r_worker[w].at = "checking"
          /\ UNCHANGED <<args, r_counter, r_quit, total_counter, block, fed, result>>
      BY DEF Rc!Finish
    <2>2. /\ r_worker' \in [RingWorker -> Rc!WorkerState]
          /\ \A v \in RingWorker : v # w => r_worker'[v] = r_worker[v]
          /\ r_worker'[w] = Rc!Ready /\ r_worker'[w].at = "loop"
      BY DEF Rc!Finish, Rc!TypeOK, Rc!WorkerState, Rc!Ready
    <2>3. WorkersOK'
      BY <2>1, <2>2 DEF WorkersOK, Rc!TypeOK, Rc!Ready, Rc!Returned
    <2>4. /\ Rc!Held' = Rc!Held \ {w}
          /\ HeldArgs \subseteq HeldArgs' \cup {r_worker[w].arg}
          /\ HeldArgs' \subseteq HeldArgs
      <3>1. Rc!Held' = Rc!Held \ {w}
        BY <2>1, <2>2 DEF Rc!Held
      <3>2. \A v \in Rc!Held : v # w => r_worker'[v] = r_worker[v]
        BY <2>2 DEF Rc!Held
      <3> QED
        BY <3>1, <3>2 DEF HeldArgs
    <2>5. CASE r_worker[w].local = r_counter
      <3> USE <2>5
      <3>1. /\ ready_counter' = ready_counter + 1
            /\ errors' = IF block[r_worker[w].arg] = "bad"
                         THEN errors \cup {r_worker[w].arg} ELSE errors
            /\ counted' = counted \cup {r_worker[w].arg}
            /\ r_main' = IF r_main = "asleep" THEN "waiting" ELSE r_main
        BY DEF Rc!Finish, Rc!result_ready_notify_all
      <3>2. w \in Rc!Held /\ r_worker[w].arg \in HeldArgs /\ r_worker[w].arg \in Nat
        BY <2>1 DEF Rc!Held, HeldArgs, Rc!TypeOK, Rc!WorkerState
      <3>3. Rc!TypeOK'
        <4>1. errors' \subseteq Nat /\ counted' \subseteq Nat /\ ready_counter' \in Nat
          <5>1. errors \subseteq Nat /\ counted \subseteq Nat /\ ready_counter \in Nat
            BY DEF Rc!TypeOK
          <5>2. errors' \subseteq errors \cup {r_worker[w].arg}
            BY <3>1
          <5>3. errors' \subseteq Nat
            BY <3>2, <5>1, <5>2
          <5>4. counted' \subseteq Nat
            BY <3>1, <3>2, <5>1
          <5>5. ready_counter' \in Nat
            BY <3>1, <5>1
          <5> QED
            BY <5>3, <5>4, <5>5
        <4>2. r_main' \in {"idle", "feeding", "waiting", "asleep"}
          BY <3>1 DEF Rc!TypeOK
        <4> QED
          BY <2>1, <2>2, <4>1, <4>2 DEF Rc!TypeOK
      <3>4. MainOK'
        <4>1. errors' = {i \in counted' : block'[i] = "bad"}
          BY <2>1, <3>1 DEF MainOK
        <4>2. r_main' # "asleep" /\ (r_main' \in {"waiting", "asleep"} => fed' = Len(block'))
          BY <2>1, <3>1 DEF MainOK
        <4> QED
          BY <2>1, <4>1, <4>2 DEF MainOK
      <3>5. Rc!NoStaleResult'
        <4>1. Rc!Cardinality(Rc!Held') = Rc!Cardinality(Rc!Held) - 1
          BY <2>4, <3>2, HeldFinite, FS_RemoveElement, SameSets
        <4>2. Len(args') + Rc!Cardinality(Rc!Held') + ready_counter' = total_counter'
          <5>1. Len(args) \in Nat /\ Rc!Cardinality(Rc!Held) \in Nat /\ ready_counter \in Nat
            BY HeldFinite DEF Rc!TypeOK
          <5> QED
            BY <2>1, <3>1, <4>1, <5>1, Stale
        <4>3. counted' \cup HeldArgs' \cup Queued(args') = 1..total_counter'
          BY <2>1, <2>4, <3>1, <3>2, Stale
        <4> QED
          BY <4>2, <4>3 DEF Rc!NoStaleResult, HeldArgs, Queued
      <3>6. Rc!VerdictExact'
        BY <2>1 DEF Rc!VerdictExact
      <3>7. Rc!NoLostWakeup'
        BY <2>1, <2>2, <3>1 DEF Rc!NoLostWakeup
      <3> QED
        BY <2>3, <3>3, <3>4, <3>5, <3>6, <3>7
    <2>6. CASE r_worker[w].local # r_counter
      <3> USE <2>6
      <3>1. UNCHANGED <<ready_counter, errors, counted, r_main>>
        BY DEF Rc!Finish
      <3>2. w \notin Rc!Held
        BY DEF Rc!Held
      <3>3. Rc!Held' = Rc!Held /\ HeldArgs' = HeldArgs
        <4>1. Rc!Held' = Rc!Held
          BY <2>4, <3>2
        <4>2. \A v \in Rc!Held : r_worker'[v] = r_worker[v]
          BY <2>2, <3>2 DEF Rc!Held
        <4> QED
          BY <4>1, <4>2 DEF HeldArgs
      <3>4. Rc!TypeOK'
        BY <2>1, <2>2, <3>1 DEF Rc!TypeOK
      <3>5. MainOK' /\ Rc!NoStaleResult' /\ Rc!VerdictExact'
        BY <2>1, <3>1, <3>3, SameResults DEF MainOK
      <3>6. Rc!NoLostWakeup'
        BY <2>1, <2>2, <3>1, <3>3 DEF Rc!NoLostWakeup
      <3> QED
        BY <2>3, <3>4, <3>5, <3>6
    <2> QED
      BY <2>5, <2>6
  <1>8. ASSUME NEW w \in RingWorker, Rc!SpuriousWorker(w) PROVE RingInv'
    <2> USE <1>8
    <2>1. /\ r_worker[w] = Rc!Asleep
          /\ UNCHANGED <<args, errors, ready_counter, r_counter, r_quit, total_counter, r_main,
                         block, fed, result, counted>>
      BY DEF Rc!SpuriousWorker, Rc!mutex
    <2>2. /\ r_worker' \in [RingWorker -> Rc!WorkerState]
          /\ \A v \in RingWorker : v # w => r_worker'[v] = r_worker[v]
          /\ r_worker'[w] = Rc!Ready /\ r_worker'[w].at = "loop"
      BY DEF Rc!SpuriousWorker, Rc!TypeOK, Rc!WorkerState, Rc!Ready
    <2>3. Rc!Held' = Rc!Held /\ HeldArgs' = HeldArgs
      <3>1. r_worker[w].at # "checking" /\ r_worker'[w].at # "checking"
        BY <2>1, <2>2 DEF Rc!Asleep
      <3> QED
        BY <2>1, <2>2, <3>1, SameHeld
    <2>4. Rc!TypeOK'
      BY <2>1, <2>2 DEF Rc!TypeOK
    <2>5. WorkersOK'
      BY <2>1, <2>2 DEF WorkersOK, Rc!TypeOK, Rc!Ready, Rc!Returned
    <2>6. MainOK' /\ Rc!NoStaleResult' /\ Rc!VerdictExact'
      BY <2>1, <2>3, SameResults DEF MainOK
    <2>7. Rc!NoLostWakeup'
      BY <2>1, <2>2, <2>3 DEF Rc!NoLostWakeup
    <2> QED
      BY <2>4, <2>5, <2>6, <2>7
  <1>9. CASE UNCHANGED Rc!vars
    <2> USE <1>9 DEF Rc!vars, Rc!mutex
    <2>1. Rc!Held' = Rc!Held /\ HeldArgs' = HeldArgs
      BY SameHeld
    <2>2. Rc!TypeOK' /\ WorkersOK'
      BY DEF Rc!TypeOK, WorkersOK
    <2>3. MainOK' /\ Rc!NoStaleResult' /\ Rc!VerdictExact'
      BY <2>1, SameResults DEF MainOK
    <2>4. Rc!NoLostWakeup'
      BY <2>1 DEF Rc!NoLostWakeup
    <2> QED
      BY <2>2, <2>3, <2>4
  <1>10. CASE Rc!Joined
    BY <1>9, <1>10 DEF Rc!Joined
  <1> QED
    BY <1>1, <1>2, <1>3, <1>4, <1>5, <1>6, <1>7, <1>8, <1>9, <1>10
    DEF Rc!Next, Rc!MainStep, Rc!thread_run

-------------------------------------------------------------------------------
\* The state of the wallet's preparation is of its type.
PrepTypes ==
  /\ Wp!TypeOK
  /\ p_quit \in BOOLEAN
  /\ call \in 0..MaxCalls /\ want \in Nat /\ last \in Wp!HeightRange \cup {-1}
  /\ p_main = "cancelled" => call < MaxCalls

\* What is queued and what is prepared belongs to the answer at hand, and
\* between cancel_work and start_work there is nothing of either.
AnswerOK ==
  /\ ~Wp!Empty => p_work.call = call /\ call >= 1
  /\ \A h \in DOMAIN prepared : prepared[h] = call
  /\ p_main = "cancelled" => Wp!Empty /\ DOMAIN prepared = {}

\* A thread that prepares a block under the current counter took it from the
\* answer at hand; the counter of any other is a past one.
PreparersOK ==
  \A w \in PrepWorker :
    p_worker[w].at = "preparing" =>
      /\ p_worker[w].local <= p_counter
      /\ p_worker[w].local = p_counter => /\ p_worker[w].block.call = call
                                          /\ p_main # "cancelled"

PrepInv ==
  /\ PrepTypes /\ AnswerOK /\ PreparersOK
  /\ Wp!RightBlock /\ Wp!NothingLost /\ Wp!NoLostWakeup

PrepThread ==
  {Wp!Ready, Wp!Asleep, Wp!Returned} \cup
    [at : {"preparing"}, block : [call : 1..MaxCalls, height : Wp!HeightRange], local : Nat]

\* The states of a thread are told apart by what it does.
LEMMA ThreadStates ==
  /\ Wp!Ready.at = "loop" /\ Wp!Asleep.at = "asleep" /\ Wp!Returned.at = "returned"
  /\ Wp!Ready \in PrepThread /\ Wp!Asleep \in PrepThread /\ Wp!Returned \in PrepThread
  BY DEF Wp!Ready, Wp!Asleep, Wp!Returned, PrepThread

\* A block that a thread holds is of the type of blocks.
LEMMA HeldBlock ==
  ASSUME NEW b \in PrepThread, b.at = "preparing"
  PROVE  /\ b.block \in [call : 1..MaxCalls, height : Wp!HeightRange] /\ b.local \in Nat
         /\ b = Wp!Preparing(b.block, b.local)
  BY DEF PrepThread, Wp!Ready, Wp!Asleep, Wp!Returned, Wp!Preparing

\* A new object satisfies the invariant.
LEMMA PrepInit ==
  ASSUME Wp!PrepAssumption, Wp!Init PROVE PrepInv
  <1> USE DEF Wp!Init
  <1>1. Wp!Empty /\ DOMAIN prepared = {}
    BY DEF Wp!Empty, Wp!NoWork
  <1>2. PrepTypes
    <2>1. p_worker \in [PrepWorker -> PrepThread]
      BY ThreadStates
    <2>2. p_work \in [start : 0..MaxHeight + 1, last : Wp!HeightRange \cup {-1}, call : 0..MaxCalls]
      BY DEF Wp!NoWork, Wp!HeightRange, Wp!PrepAssumption
    <2>3. /\ DOMAIN prepared \subseteq Wp!HeightRange
          /\ \A h \in DOMAIN prepared : prepared[h] \in 1..MaxCalls
      BY <1>1
    <2>4. Wp!TypeOK
      BY <2>1, <2>2, <2>3 DEF Wp!TypeOK, PrepThread
    <2>5. call \in 0..MaxCalls /\ want \in Nat /\ last \in Wp!HeightRange \cup {-1}
      BY DEF Wp!PrepAssumption
    <2> QED
      BY <2>4, <2>5 DEF PrepTypes
  <1>3. \A w \in PrepWorker : p_worker[w].at = "loop"
    BY ThreadStates
  <1>4. AnswerOK /\ PreparersOK
    BY <1>1, <1>3 DEF AnswerOK, PreparersOK
  <1>5. Wp!RightBlock /\ Wp!NothingLost
    BY DEF Wp!RightBlock, Wp!NothingLost
  <1>6. Wp!NoLostWakeup
    BY <1>3, ThreadStates DEF Wp!NoLostWakeup
  <1> QED
    BY <1>2, <1>4, <1>5, <1>6 DEF PrepInv

\* notify_all wakes every thread that sleeps and leaves the others alone.
LEMMA PrepWoken ==
  ASSUME p_worker \in [PrepWorker -> PrepThread], Wp!have_work_notify_all
  PROVE  /\ p_worker' \in [PrepWorker -> PrepThread]
         /\ \A w \in PrepWorker : /\ p_worker'[w] # Wp!Asleep
                                  /\ \/ p_worker'[w] = p_worker[w]
                                     \/ /\ p_worker[w] = Wp!Asleep
                                        /\ p_worker'[w] = Wp!Ready
  BY ThreadStates DEF Wp!have_work_notify_all

\* Steps of the applying thread that leave the queue, the prepared blocks and
\* the answer alone.
LEMMA MainMoves ==
  ASSUME PrepInv,
         UNCHANGED <<p_work, prepared, p_counter, p_quit, p_worker, call, want, last, got>>,
         p_main' \in {"idle", "applying", "waiting", "asleep"},
         p_main' # "idle" => p_main \in {"applying", "waiting", "asleep"},
         p_main # "cancelled" \/ p_main' = p_main,
         p_main' = "asleep" => ~Wp!Holds(want)
  PROVE  PrepInv'
  <1>1. PrepTypes'
    BY DEF PrepInv, PrepTypes, Wp!TypeOK, Wp!HeightRange, Wp!Ready, Wp!Asleep, Wp!Returned
  <1>2. AnswerOK'
    BY DEF PrepInv, AnswerOK, Wp!Empty
  <1>3. PreparersOK'
    BY DEF PrepInv, PreparersOK
  <1>4. Wp!RightBlock'
    BY DEF PrepInv, Wp!RightBlock, Wp!NothingGot
  <1>5. Wp!NothingLost'
    BY DEF PrepInv, Wp!NothingLost, Wp!Preparing
  <1>6. Wp!NoLostWakeup'
    BY DEF PrepInv, Wp!NoLostWakeup, Wp!Empty, Wp!Asleep, Wp!Holds
  <1> QED
    BY <1>1, <1>2, <1>3, <1>4, <1>5, <1>6 DEF PrepInv

\* Steps of a thread between two states in which it holds no block.
LEMMA ThreadMoves ==
  ASSUME PrepInv, NEW w \in PrepWorker, NEW s \in {Wp!Ready, Wp!Asleep, Wp!Returned},
         UNCHANGED <<p_work, prepared, p_counter, p_quit, p_main, call, want, last, got>>,
         p_worker[w] \in {Wp!Ready, Wp!Asleep},
         p_worker' = [p_worker EXCEPT ![w] = s],
         s = Wp!Asleep => Wp!Empty /\ ~p_quit
  PROVE  PrepInv'
  <1>0. /\ p_worker \in [PrepWorker -> PrepThread] /\ p_worker' \in [PrepWorker -> PrepThread]
        /\ p_worker'[w] = s /\ \A v \in PrepWorker : v # w => p_worker'[v] = p_worker[v]
        /\ p_worker[w].at # "preparing" /\ p_worker'[w].at # "preparing"
    BY ThreadStates DEF PrepInv, PrepTypes, Wp!TypeOK, PrepThread
  <1>1. PrepTypes'
    BY <1>0 DEF PrepInv, PrepTypes, Wp!TypeOK, PrepThread
  <1>2. AnswerOK'
    BY DEF PrepInv, AnswerOK, Wp!Empty
  <1>3. PreparersOK'
    BY <1>0 DEF PrepInv, PreparersOK
  <1>4. Wp!RightBlock'
    BY DEF PrepInv, Wp!RightBlock, Wp!NothingGot
  <1>5. Wp!NothingLost'
    <2>1. \A v \in PrepWorker, h \in want..last :
            p_worker[v] = Wp!Preparing([call |-> call, height |-> h], p_counter)
              => p_worker'[v] = p_worker[v]
      BY <1>0 DEF Wp!Preparing
    <2> QED
      BY <2>1 DEF PrepInv, Wp!NothingLost, Wp!Preparing
  <1>6. Wp!NoLostWakeup'
    BY <1>0 DEF PrepInv, Wp!NoLostWakeup, Wp!Empty, Wp!Asleep, Wp!Holds
  <1> QED
    BY <1>1, <1>2, <1>3, <1>4, <1>5, <1>6 DEF PrepInv

\* Every step of the wallet's preparation keeps the invariant.
LEMMA PrepStep ==
  ASSUME Wp!PrepAssumption, PrepInv, [Wp!Next]_(Wp!vars) PROVE PrepInv'
  <1>0. p_worker \in [PrepWorker -> PrepThread]
    BY DEF PrepInv, PrepTypes, Wp!TypeOK, PrepThread
  <1>1. CASE Wp!cancel_work
    <2> USE <1>1 DEF Wp!cancel_work, Wp!NextCounter, PrepInv
    <2>1. Wp!Empty' /\ DOMAIN prepared' = {}
      BY DEF Wp!Empty, Wp!NoWork
    <2>2. PrepTypes'
      <3>1. p_work' \in [start : 0..MaxHeight + 1, last : Wp!HeightRange \cup {-1}, call : 0..MaxCalls]
        BY DEF Wp!NoWork, Wp!HeightRange, Wp!PrepAssumption
      <3>2. Wp!TypeOK'
        BY <3>1, <2>1 DEF PrepTypes, Wp!TypeOK
      <3> QED
        BY <3>2 DEF PrepTypes
    <2>3. AnswerOK'
      BY <2>1 DEF AnswerOK
    <2>4. PreparersOK'
      <3>1. \A w \in PrepWorker : p_worker[w].at = "preparing" =>
              p_worker[w].local \in Nat /\ p_worker[w].local <= p_counter
        BY <1>0, HeldBlock DEF PreparersOK
      <3> QED
        BY <3>1 DEF PreparersOK, PrepTypes, Wp!TypeOK
    <2>5. Wp!RightBlock' /\ Wp!NothingLost'
      BY DEF Wp!RightBlock, Wp!NothingLost
    <2>6. Wp!NoLostWakeup'
      BY <2>1 DEF Wp!NoLostWakeup
    <2> QED
      BY <2>2, <2>3, <2>4, <2>5, <2>6
  <1>2. ASSUME NEW s \in Wp!HeightRange, NEW l \in Wp!HeightRange, NEW first \in Wp!HeightRange,
               s <= l, s <= first, Wp!start_work(s, l, first)
        PROVE  PrepInv'
    <2> USE <1>2 DEF Wp!start_work, Wp!NextCounter, PrepInv
    <2>0. /\ s \in Nat /\ l \in Nat /\ first \in Nat /\ s <= MaxHeight
          /\ call \in Nat /\ call < MaxCalls /\ MaxCalls \in Nat /\ MaxHeight \in Nat
          /\ DOMAIN prepared = {} /\ p_counter \in Nat
      BY DEF Wp!HeightRange, PrepTypes, AnswerOK, Wp!PrepAssumption, Wp!TypeOK
    <2>1. /\ p_worker' \in [PrepWorker -> PrepThread]
          /\ \A w \in PrepWorker : /\ p_worker'[w] # Wp!Asleep
                                   /\ \/ p_worker'[w] = p_worker[w]
                                      \/ p_worker'[w] = Wp!Ready
      BY <1>0, PrepWoken
    <2>2. /\ p_work'.start = s /\ p_work'.last = l /\ p_work'.call = call'
          /\ call' = call + 1 /\ call' \in 1..MaxCalls
      BY <2>0
    <2>3. PrepTypes'
      <3>1. p_work' \in [start : 0..MaxHeight + 1, last : Wp!HeightRange \cup {-1}, call : 0..MaxCalls]
        BY <2>0
      <3>2. Wp!TypeOK'
        BY <3>1, <2>0, <2>1 DEF Wp!TypeOK, PrepThread
      <3>3. call' \in 0..MaxCalls /\ want' \in Nat /\ last' \in Wp!HeightRange \cup {-1}
        BY <2>0
      <3> QED
        BY <3>2, <3>3 DEF PrepTypes
    <2>4. AnswerOK'
      BY <2>0, <2>2 DEF AnswerOK
    <2>5. PreparersOK'
      <3>1. ASSUME NEW w \in PrepWorker, p_worker'[w].at = "preparing"
            PROVE  p_worker'[w].local <= p_counter' /\ p_worker'[w].local # p_counter'
        <4>1. p_worker'[w] = p_worker[w]
          BY <2>1, <3>1, ThreadStates
        <4>2. p_worker[w].local \in Nat /\ p_worker[w].local <= p_counter
          BY <1>0, <3>1, <4>1, HeldBlock DEF PreparersOK
        <4> QED
          BY <4>1, <4>2, <2>0
      <3> QED
        BY <3>1 DEF PreparersOK
    <2>6. Wp!RightBlock'
      BY DEF Wp!RightBlock, Wp!NothingGot
    <2>7. Wp!NothingLost'
      BY <2>0, <2>2 DEF Wp!NothingLost
    <2>8. Wp!NoLostWakeup'
      BY <2>1 DEF Wp!NoLostWakeup
    <2> QED
      BY <2>3, <2>4, <2>5, <2>6, <2>7, <2>8
  <1>3. CASE Wp!Done \/ Wp!Fetch \/ Wp!Wait \/ Wp!MainWakes
    BY <1>3, MainMoves DEF Wp!Done, Wp!Fetch, Wp!Wait, Wp!MainWakes
  <1>4. CASE Wp!get_ready_work
    <2> USE <1>4 DEF Wp!get_ready_work, PrepInv
    <2>1. /\ DOMAIN prepared' = DOMAIN prepared \ {want}
          /\ \A h \in DOMAIN prepared' : prepared'[h] = prepared[h]
          /\ want \in Nat /\ prepared[want] = call
      BY DEF Wp!Holds, AnswerOK, PrepTypes
    <2>2. PrepTypes'
      <3>1. Wp!TypeOK'
        BY <2>1 DEF PrepTypes, Wp!TypeOK
      <3> QED
        BY <3>1, <2>1 DEF PrepTypes
    <2>3. AnswerOK'
      BY <2>1 DEF AnswerOK, Wp!Empty
    <2>4. PreparersOK'
      BY DEF PreparersOK
    <2>5. Wp!RightBlock'
      BY <2>1 DEF Wp!RightBlock
    <2>6. Wp!NothingLost'
      <3>1. SUFFICES ASSUME NEW h \in (want + 1)..last
                     PROVE  \/ h \in p_work.start..p_work.last /\ p_work.call = call
                            \/ h \in DOMAIN prepared' /\ prepared'[h] = call
                            \/ \E w \in PrepWorker :
                                 p_worker[w] = Wp!Preparing([call |-> call, height |-> h], p_counter)
        BY DEF Wp!NothingLost, Wp!Preparing
      <3>2. h \in want..last /\ h # want
        BY <3>1, <2>1 DEF PrepTypes, Wp!HeightRange
      <3> QED
        BY <3>2, <2>1 DEF Wp!NothingLost
    <2>7. Wp!NoLostWakeup'
      BY DEF Wp!NoLostWakeup, Wp!Empty, Wp!Asleep
    <2> QED
      BY <2>2, <2>3, <2>4, <2>5, <2>6, <2>7
  <1>5. ASSUME NEW w \in PrepWorker, Wp!Leave(w) PROVE PrepInv'
    BY <1>5, ThreadMoves, ThreadStates DEF Wp!Leave
  <1>6. ASSUME NEW w \in PrepWorker, Wp!Sleep(w) PROVE PrepInv'
    BY <1>6, ThreadMoves DEF Wp!Sleep
  <1>7. ASSUME NEW w \in PrepWorker, Wp!WorkerWakes(w) PROVE PrepInv'
    BY <1>7, ThreadMoves, ThreadStates DEF Wp!WorkerWakes
  <1>8. ASSUME NEW w \in PrepWorker, Wp!Take(w) PROVE PrepInv'
    <2> DEFINE b == [call |-> p_work.call, height |-> p_work.start]
    <2> USE <1>8 DEF Wp!Take, Wp!FrontHeight, PrepInv
    <2>0. /\ p_work.start \in Nat /\ p_work.last \in Wp!HeightRange /\ p_work.start <= p_work.last
          /\ p_work.start \in Wp!HeightRange /\ p_work.call = call /\ call \in 1..MaxCalls
          /\ p_counter \in Nat /\ p_main # "cancelled"
      BY DEF PrepTypes, Wp!TypeOK, Wp!Empty, AnswerOK, Wp!HeightRange, Wp!PrepAssumption
    <2>1. /\ p_work'.start = p_work.start + 1 /\ p_work'.last = p_work.last
          /\ p_work'.call = p_work.call
          /\ p_work' \in [start : 0..MaxHeight + 1, last : Wp!HeightRange \cup {-1}, call : 0..MaxCalls]
      BY <2>0 DEF PrepTypes, Wp!TypeOK, Wp!HeightRange, Wp!PrepAssumption
    <2>2. /\ Wp!Preparing(b, p_counter) \in PrepThread
          /\ Wp!Preparing(b, p_counter).at = "preparing"
          /\ Wp!Preparing(b, p_counter).local = p_counter
          /\ Wp!Preparing(b, p_counter).block.call = call
      BY <2>0 DEF Wp!Preparing, PrepThread
    <2>3. /\ p_worker' \in [PrepWorker -> PrepThread] /\ p_worker'[w] = Wp!Preparing(b, p_counter)
          /\ \A v \in PrepWorker : v # w => p_worker'[v] = p_worker[v]
          /\ p_worker[w].at # "preparing"
      BY <1>0, <2>2, ThreadStates
    <2> HIDE DEF b
    <2>4. PrepTypes'
      <3>1. Wp!TypeOK'
        BY <2>1, <2>3 DEF PrepTypes, Wp!TypeOK, PrepThread
      <3> QED
        BY <3>1 DEF PrepTypes
    <2>5. AnswerOK'
      BY <2>0, <2>1 DEF AnswerOK, Wp!Empty
    <2>6. PreparersOK'
      BY <2>0, <2>2, <2>3 DEF PreparersOK
    <2>7. Wp!RightBlock'
      BY DEF Wp!RightBlock, Wp!NothingGot
    <2>8. Wp!NothingLost'
      <3>1. SUFFICES ASSUME p_main \in {"applying", "waiting", "asleep"}, NEW h \in want..last
                     PROVE  \/ h \in p_work'.start..p_work'.last /\ p_work'.call = call
                            \/ h \in DOMAIN prepared /\ prepared[h] = call
                            \/ \E v \in PrepWorker :
                                 p_worker'[v] = Wp!Preparing([call |-> call, height |-> h], p_counter)
        BY DEF Wp!NothingLost, Wp!Preparing
      <3>2. CASE h = p_work.start
        BY <3>2, <2>0, <2>3 DEF b
      <3>3. CASE h # p_work.start /\ h \in p_work.start..p_work.last
        BY <3>3, <2>0, <2>1 DEF Wp!HeightRange, PrepTypes
      <3>4. CASE h \in DOMAIN prepared /\ prepared[h] = call
        BY <3>4
      <3>5. ASSUME NEW v \in PrepWorker,
                   p_worker[v] = Wp!Preparing([call |-> call, height |-> h], p_counter)
            PROVE  p_worker'[v] = p_worker[v]
        <4>1. p_worker[v].at = "preparing"
          BY <3>5 DEF Wp!Preparing
        <4> QED
          BY <4>1, <2>3
      <3> QED
        BY <3>1, <3>2, <3>3, <3>4, <3>5 DEF Wp!NothingLost
    <2>9. Wp!NoLostWakeup'
      <3>1. \A v \in PrepWorker : p_worker'[v] # Wp!Asleep
        BY <2>2, <2>3, ThreadStates DEF Wp!NoLostWakeup
      <3> QED
        BY <3>1 DEF Wp!NoLostWakeup, Wp!Holds
    <2> QED
      BY <2>4, <2>5, <2>6, <2>7, <2>8, <2>9
  <1>9. ASSUME NEW w \in PrepWorker, Wp!Report(w) PROVE PrepInv'
    <2> USE <1>9 DEF PrepInv
    <2>0. /\ UNCHANGED <<p_work, p_counter, p_quit, call, want, last, got>>
          /\ p_worker[w].at = "preparing"
          /\ p_worker' \in [PrepWorker -> PrepThread] /\ p_worker'[w] = Wp!Ready
          /\ \A v \in PrepWorker : v # w => p_worker'[v] = p_worker[v]
      BY <1>0, ThreadStates DEF Wp!Report
    <2>1. /\ p_worker[w].block \in [call : 1..MaxCalls, height : Wp!HeightRange]
          /\ p_worker[w].local \in Nat
          /\ p_worker[w] = Wp!Preparing(p_worker[w].block, p_worker[w].local)
      BY <1>0, <2>0, HeldBlock
    <2>2. PreparersOK' /\ Wp!RightBlock'
      <3>1. p_main' # "cancelled" \/ p_main' = p_main
        BY DEF Wp!Report, Wp!result_ready_notify_all
      <3>2. PreparersOK'
        BY <2>0, <3>1, ThreadStates DEF PreparersOK
      <3> QED
        BY <2>0, <3>2 DEF Wp!RightBlock, Wp!NothingGot
    <2>3. CASE p_worker[w].local = p_counter
      <3> DEFINE k == p_worker[w].block.height
      <3>1. /\ DOMAIN prepared' = DOMAIN prepared \cup {k}
            /\ \A h \in DOMAIN prepared' : prepared'[h] = IF h = k THEN p_worker[w].block.call
                                                                   ELSE prepared[h]
            /\ p_main' = IF p_main = "asleep" THEN "waiting" ELSE p_main
        BY <2>3 DEF Wp!Report, Wp!result_ready_notify_all
      <3>2. k \in Wp!HeightRange /\ p_worker[w].block.call = call /\ call \in 1..MaxCalls
            /\ p_main # "cancelled"
        BY <2>0, <2>1, <2>3 DEF PreparersOK
      <3>3. p_worker[w].block = [call |-> call, height |-> k]
        BY <2>1, <3>2
      <3> HIDE DEF k
      <3>4. PrepTypes'
        <4>1. Wp!TypeOK'
          <5>1. /\ DOMAIN prepared' \subseteq Wp!HeightRange
                /\ \A h \in DOMAIN prepared' : prepared'[h] \in 1..MaxCalls
            BY <3>1, <3>2 DEF PrepTypes, Wp!TypeOK
          <5>2. p_main' \in {"idle", "cancelled", "applying", "waiting", "asleep"}
            BY <3>1 DEF PrepTypes, Wp!TypeOK
          <5> QED
            BY <2>0, <5>1, <5>2 DEF PrepTypes, Wp!TypeOK, PrepThread
        <4> QED
          BY <2>0, <3>1, <4>1 DEF PrepTypes
      <3>5. AnswerOK'
        BY <2>0, <3>1, <3>2 DEF AnswerOK, Wp!Empty
      <3>6. Wp!NothingLost'
        <4>1. SUFFICES ASSUME p_main' \in {"applying", "waiting", "asleep"}, NEW h \in want..last
                       PROVE  \/ h \in p_work.start..p_work.last /\ p_work.call = call
                              \/ h \in DOMAIN prepared' /\ prepared'[h] = call
                              \/ \E v \in PrepWorker :
                                   p_worker'[v] = Wp!Preparing([call |-> call, height |-> h], p_counter)
          BY <2>0 DEF Wp!NothingLost, Wp!Preparing
        <4>2. CASE h = k
          BY <4>2, <3>1, <3>2
        <4>3. CASE h # k
          <5>1. ASSUME NEW v \in PrepWorker,
                       p_worker[v] = Wp!Preparing([call |-> call, height |-> h], p_counter)
                PROVE  p_worker'[v] = p_worker[v]
            <6>1. p_worker[v].block.height = h
              BY <5>1 DEF Wp!Preparing
            <6>2. v # w
              BY <6>1, <4>3 DEF k
            <6> QED
              BY <6>2, <2>0
          <5>2. p_main \in {"applying", "waiting", "asleep"}
            BY <4>1, <3>1
          <5> QED
            BY <4>3, <5>1, <5>2, <3>1 DEF Wp!NothingLost
        <4> QED
          BY <4>2, <4>3
      <3>7. Wp!NoLostWakeup'
        <4>1. p_main' # "asleep"
          BY <3>1
        <4> QED
          BY <4>1, <2>0, ThreadStates DEF Wp!NoLostWakeup, Wp!Empty, Wp!Asleep
      <3> QED
        BY <2>2, <3>4, <3>5, <3>6, <3>7
    <2>4. CASE p_worker[w].local # p_counter
      <3>1. UNCHANGED <<prepared, p_main>>
        BY <2>4 DEF Wp!Report
      <3>2. PrepTypes'
        BY <2>0, <3>1 DEF PrepTypes, Wp!TypeOK, PrepThread
      <3>3. AnswerOK'
        BY <2>0, <3>1 DEF AnswerOK, Wp!Empty
      <3>4. Wp!NothingLost'
        <4>1. ASSUME NEW v \in PrepWorker, NEW h \in want..last,
                     p_worker[v] = Wp!Preparing([call |-> call, height |-> h], p_counter)
              PROVE  p_worker'[v] = p_worker[v]
          <5>1. p_worker[v].local = p_counter
            BY <4>1 DEF Wp!Preparing
          <5> QED
            BY <5>1, <2>4, <2>0
        <4> QED
          BY <2>0, <3>1, <4>1 DEF Wp!NothingLost, Wp!Preparing
      <3>5. Wp!NoLostWakeup'
        BY <2>0, <3>1, ThreadStates DEF Wp!NoLostWakeup, Wp!Empty, Wp!Asleep, Wp!Holds
      <3> QED
        BY <2>2, <3>2, <3>3, <3>4, <3>5
    <2> QED
      BY <2>3, <2>4
  <1>10. CASE Wp!Quit
    <2> USE <1>10 DEF Wp!Quit, PrepInv
    <2>1. /\ p_worker' \in [PrepWorker -> PrepThread]
          /\ \A w \in PrepWorker : /\ p_worker'[w] # Wp!Asleep
                                   /\ \/ p_worker'[w] = p_worker[w]
                                      \/ p_worker'[w] = Wp!Ready
      BY <1>0, PrepWoken
    <2>2. PrepTypes'
      BY <2>1 DEF PrepTypes, Wp!TypeOK, PrepThread
    <2>3. AnswerOK'
      BY DEF AnswerOK, Wp!Empty
    <2>4. PreparersOK'
      BY <2>1, ThreadStates DEF PreparersOK
    <2>5. Wp!RightBlock' /\ Wp!NothingLost'
      BY DEF Wp!RightBlock, Wp!NothingGot, Wp!NothingLost
    <2>6. Wp!NoLostWakeup'
      BY <2>1 DEF Wp!NoLostWakeup
    <2> QED
      BY <2>2, <2>3, <2>4, <2>5, <2>6
  <1>11. CASE UNCHANGED Wp!vars
    <2> USE <1>11 DEF Wp!vars, PrepInv
    <2>1. PrepTypes' /\ AnswerOK' /\ PreparersOK'
      BY DEF PrepTypes, Wp!TypeOK, AnswerOK, PreparersOK, Wp!Empty
    <2>2. Wp!RightBlock' /\ Wp!NothingLost'
      BY DEF Wp!RightBlock, Wp!NothingGot, Wp!NothingLost, Wp!Preparing
    <2>3. Wp!NoLostWakeup'
      BY DEF Wp!NoLostWakeup, Wp!Empty, Wp!Asleep, Wp!Holds
    <2> QED
      BY <2>1, <2>2, <2>3
  <1>12. CASE Wp!Joined
    BY <1>11, <1>12 DEF Wp!Joined
  <1> QED
    BY <1>1, <1>2, <1>3, <1>4, <1>5, <1>6, <1>7, <1>8, <1>9, <1>10, <1>11, <1>12
    DEF Wp!Next, Wp!Main, Wp!Step

-------------------------------------------------------------------------------
\* Whichever part moves, the other pool stands still.
LEMMA ThreadsStep ==
  /\ MCInit => RingInv /\ PrepInv
  /\ RingInv /\ PrepInv /\ [MCNext]_all => RingInv' /\ PrepInv'
  <1>1. Rc!PoolAssumption /\ Wp!PrepAssumption
    BY ThreadsAssumption
  <1>2. MCInit => RingInv /\ PrepInv
    BY <1>1, RingInit, PrepInit DEF MCInit
  <1>3. [MCNext]_all => [Rc!Next]_(Rc!vars) /\ [Wp!Next]_(Wp!vars)
    BY DEF MCNext, InChain, InRing, InPrep, all, ring, prep, Rc!vars, Rc!mutex, Wp!vars
  <1> QED
    BY <1>1, <1>2, <1>3, RingStep, PrepStep

\* signatures_valid is right about every block whatever the workers still hold
\* of earlier ones, the results counted are exactly those of the inputs queued
\* for this block, and every block the wallet fetches is that of the height and
\* the answer at hand, however late the threads report.
THEOREM ResultsAlwaysExact ==
  MCSpec => []ResultsExact
  <1>1. RingInv /\ PrepInv => ResultsExact
    BY DEF RingInv, PrepInv, ResultsExact
  <1> QED
    BY <1>1, ThreadsStep, PTL DEF MCSpec, MCSafety

\* No thread of either pool waits on result_ready or have_work for a
\* notification that cannot come any more.
THEOREM WakeupsNeverLost ==
  MCSpec => []WakeupsKept
  <1>1. RingInv /\ PrepInv => WakeupsKept
    BY DEF RingInv, PrepInv, WakeupsKept
  <1> QED
    BY <1>1, ThreadsStep, PTL DEF MCSpec, MCSafety

================================================================================
