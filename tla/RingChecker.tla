------------------------------ MODULE RingChecker ------------------------------
(***************************************************************************)
(* RingCheckerMulticore: the thread that applies blocks hands the ring     *)
(* signatures of a block to worker threads and waits for their verdict.    *)
(* A block is a sequence of inputs; an input is "good" or "bad" by its     *)
(* signature, or "unknown" when start_work_get_error itself refuses it     *)
(* (key image spent, output missing or locked).  Each critical section     *)
(* under mu is one action; waiting on a condition variable releases mu,    *)
(* and a waiter may also wake up by itself.  The operators that end in     *)
(* _mut are faulty variants of the definition that follows them; no        *)
(* specification uses them.                                                *)
(***************************************************************************)
EXTENDS Integers, Sequences, FiniteSets

CONSTANTS
  Worker,      \* the threads of the pool
  MaxInputs,   \* bound: inputs of a block
  MaxBlocks    \* bound: blocks checked in one life of the object

PoolAssumption ==
  /\ IsFiniteSet(Worker) /\ Worker # {}
  /\ MaxInputs \in Nat
  /\ MaxBlocks \in Nat

Verdict == {"good", "bad", "unknown"}
Inputs == UNION {[1..n -> Verdict] : n \in 0..MaxInputs}

VARIABLES
  args,            \* the queue of inputs (by their position) to be checked
  errors,          \* the inputs an error was recorded for
  ready_counter,
  total_counter,
  work_counter,
  quit,
  worker,          \* per thread: what it does, and the input it holds
  main,            \* what the thread that applies blocks does
  block,           \* the block it works on
  fed,             \* how many of its inputs it has gone through
  result,          \* what the last call returned
  counted          \* history: the inputs behind ready_counter

mutex == <<args, errors, ready_counter, work_counter, quit>>
vars == <<mutex, total_counter, worker, main, block, fed, result, counted>>

\* A worker about to take mu, waiting on have_work, checking an input it took
\* when work_counter had the given value, or returned from thread_run.
Ready == [at |-> "loop", arg |-> 0, local |-> 0]
Asleep == [at |-> "asleep", arg |-> 0, local |-> 0]
Checking(i, c) == [at |-> "checking", arg |-> i, local |-> c]
Returned == [at |-> "returned", arg |-> 0, local |-> 0]

\* have_work.notify_all and result_ready.notify_all.
have_work_notify_all ==
  worker' = [w \in Worker |-> IF worker[w] = Asleep THEN Ready ELSE worker[w]]
result_ready_notify_all ==
  main' = IF main = "asleep" THEN "waiting" ELSE main

Init ==
  /\ args = <<>> /\ errors = {} /\ ready_counter = 0 /\ work_counter = 0
  /\ quit = FALSE
  /\ total_counter = 0
  /\ worker = [w \in Worker |-> Ready]
  /\ main = "idle"
  /\ block = <<>>
  /\ fed = 0
  /\ result = "none"
  /\ counted = {}

-------------------------------------------------------------------------------

Start_mut2(b) ==
  /\ main = "idle"
  /\ ~quit
  /\ args' = <<>>
  /\ errors' = {}
  /\ ready_counter' = 0
  /\ total_counter' = 0
  /\ block' = b
  /\ fed' = 0
  /\ main' = "feeding"
  /\ result' = "none"
  /\ counted' = {}
  /\ UNCHANGED <<work_counter, quit, worker>>

\* start_work_get_error: forget the last block, whatever the workers hold.
Start(b) ==
  /\ main = "idle"
  /\ ~quit
  /\ work_counter < MaxBlocks
  /\ args' = <<>>
  /\ errors' = {}
  /\ ready_counter' = 0
  /\ work_counter' = work_counter + 1
  /\ total_counter' = 0
  /\ block' = b
  /\ fed' = 0
  /\ main' = "feeding"
  /\ result' = "none"
  /\ counted' = {}
  /\ UNCHANGED <<quit, worker>>

\* A variant that does not notify the workers.
Feed_mut ==
  /\ main = "feeding"
  /\ fed < Len(block)
  /\ block[fed + 1] # "unknown"
  /\ total_counter' = total_counter + 1
  /\ args' = Append(args, fed + 1)
  /\ fed' = fed + 1
  /\ UNCHANGED <<errors, ready_counter, work_counter, quit, worker, main, block,
                 result, counted>>

\* One input of the block is queued.
Feed ==
  /\ main = "feeding"
  /\ fed < Len(block)
  /\ block[fed + 1] # "unknown"
  /\ total_counter' = total_counter + 1
  /\ args' = Append(args, fed + 1)
  /\ have_work_notify_all
  /\ fed' = fed + 1
  /\ UNCHANGED <<errors, ready_counter, work_counter, quit, main, block,
                 result, counted>>

\* An input is refused: the call returns its error and leaves the queue as it
\* is; redo_block returns false and never waits for the workers.
Refuse ==
  /\ main = "feeding"
  /\ fed < Len(block)
  /\ block[fed + 1] = "unknown"
  /\ main' = "idle"
  /\ result' = "refused"
  /\ UNCHANGED <<mutex, total_counter, worker, block, fed, counted>>

\* Everything is queued: redo_block goes on to signatures_valid (applying the
\* transactions in between, with check_sigs off, refuses nothing).
Fed ==
  /\ main = "feeding"
  /\ fed = Len(block)
  /\ main' = "waiting"
  /\ UNCHANGED <<mutex, total_counter, worker, block, fed, result, counted>>

\* signatures_valid: wait on result_ready, or return.
Wait ==
  /\ main = "waiting"
  /\ ready_counter # total_counter
  /\ main' = "asleep"
  /\ UNCHANGED <<mutex, total_counter, worker, block, fed, result, counted>>

signatures_valid ==
  /\ main = "waiting"
  /\ ready_counter = total_counter
  /\ main' = "idle"
  /\ result' = IF errors = {} THEN "valid" ELSE "invalid"
  /\ UNCHANGED <<mutex, total_counter, worker, block, fed, counted>>

\* The destructor.
Quit ==
  /\ main = "idle"
  /\ ~quit
  /\ quit' = TRUE
  /\ have_work_notify_all
  /\ UNCHANGED <<args, errors, ready_counter, work_counter, total_counter, main,
                 block, fed, result, counted>>

-------------------------------------------------------------------------------
\* thread_run, the first critical section: leave, wait or take an input.
Take(w) ==
  /\ worker[w] = Ready
  /\ \/ /\ quit
        /\ worker' = [worker EXCEPT ![w] = Returned]
        /\ UNCHANGED args
     \/ /\ ~quit /\ args = <<>>
        /\ worker' = [worker EXCEPT ![w] = Asleep]
        /\ UNCHANGED args
     \/ /\ ~quit /\ args # <<>>
        /\ worker' = [worker EXCEPT ![w] = Checking(Head(args), work_counter)]
        /\ args' = Tail(args)
  /\ UNCHANGED <<errors, ready_counter, work_counter, quit, total_counter, main,
                 block, fed, result, counted>>

\* thread_run, the second critical section.  The signature was copied into the
\* argument when it was queued, so its verdict is known only for the current
\* block; a result of an earlier block may be either and is not looked at.
Finish(w) ==
  /\ worker[w].at = "checking"
  /\ worker' = [worker EXCEPT ![w] = Ready]
  /\ IF worker[w].local = work_counter
     THEN /\ ready_counter' = ready_counter + 1
          /\ errors' = IF block[worker[w].arg] = "bad"
                       THEN errors \cup {worker[w].arg} ELSE errors
          /\ counted' = counted \cup {worker[w].arg}
          /\ result_ready_notify_all
     ELSE UNCHANGED <<ready_counter, errors, counted, main>>
  /\ UNCHANGED <<args, work_counter, quit, total_counter, block, fed, result>>

\* A condition variable may wake a waiter for no reason.
SpuriousWorker(w) ==
  /\ worker[w] = Asleep
  /\ worker' = [worker EXCEPT ![w] = Ready]
  /\ UNCHANGED <<mutex, total_counter, main, block, fed, result, counted>>

SpuriousMain ==
  /\ main = "asleep"
  /\ main' = "waiting"
  /\ UNCHANGED <<mutex, total_counter, worker, block, fed, result, counted>>

\* The destructor has joined every thread.
Joined ==
  /\ quit
  /\ \A w \in Worker : worker[w] = Returned
  /\ UNCHANGED vars

thread_run(w) == Take(w) \/ Finish(w)
MainStep == Feed \/ Refuse \/ Fed \/ Wait \/ signatures_valid

Next ==
  \/ \E b \in Inputs : Start(b)
  \/ MainStep
  \/ Quit
  \/ \E w \in Worker : thread_run(w) \/ SpuriousWorker(w)
  \/ SpuriousMain
  \/ Joined

Spec == Init /\ [][Next]_vars

-------------------------------------------------------------------------------
WorkerState == [at : {"loop", "asleep", "checking", "returned"},
                arg : Nat, local : Nat]

\* Every variable has its type.
TypeOK ==
  /\ args \in Seq(Nat)
  /\ errors \subseteq Nat
  /\ ready_counter \in Nat
  /\ total_counter \in Nat
  /\ work_counter \in Nat
  /\ quit \in BOOLEAN
  /\ worker \in [Worker -> WorkerState]
  /\ main \in {"idle", "feeding", "waiting", "asleep"}
  /\ block \in Inputs
  /\ fed \in 0..Len(block)
  /\ result \in {"none", "refused", "valid", "invalid"}
  /\ counted \subseteq Nat

\* signatures_valid says "valid" exactly when every signature of the block it
\* was called for is good, whatever blocks were started, refused or abandoned
\* before and whatever the workers still hold of them.
VerdictExact ==
  /\ result = "valid" => \A i \in 1..Len(block) : block[i] = "good"
  /\ result = "invalid" => \E i \in 1..Len(block) : block[i] = "bad"

\* No result of an earlier block is counted for the current one, and none of
\* the current block is counted twice: the inputs queued, held by a worker for
\* this block and counted are all different and together are those queued.
Held == {w \in Worker : /\ worker[w].at = "checking"
                        /\ worker[w].local = work_counter}
NoStaleResult ==
  /\ Len(args) + Cardinality(Held) + ready_counter = total_counter
  /\ counted \cup {worker[w].arg : w \in Held}
       \cup {args[i] : i \in 1..Len(args)} = 1..total_counter

\* Nobody waits for a notification that cannot come: while the applying thread
\* sleeps an input of its block is queued or held, and while an input is queued
\* some worker is awake to take it.
NoLostWakeup ==
  /\ main = "asleep" => args # <<>> \/ Held # {}
  /\ args # <<>> /\ ~quit =>
       \E w \in Worker : worker[w].at \in {"loop", "checking"}

================================================================================
