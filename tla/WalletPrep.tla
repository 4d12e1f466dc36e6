------------------------------ MODULE WalletPrep ------------------------------
(***************************************************************************)
(* WalletPreparatorMulticore: worker threads derive the keys of the blocks *)
(* of a sync_blocks answer while WalletState::sync_with_blockchain applies *)
(* them in order.  Every critical section under mu is one action.  An      *)
(* answer is the heights start..last; a prepared block is known by the     *)
(* number of the answer it came from and its height.                       *)
(***************************************************************************)
EXTENDS Integers, FiniteSets

CONSTANTS
  Worker,     \* the threads of the pool
  MaxHeight,  \* bound: heights of the chain
  MaxCalls    \* bound: answers handled in one life of the object

PrepAssumption ==
  /\ IsFiniteSet(Worker) /\ Worker # {}
  /\ MaxHeight \in Nat /\ MaxCalls \in Nat

VARIABLES
  work,          \* [start, last, call]: the blocks nobody has taken yet
  prepared,      \* prepared_blocks: height -> the answer it was prepared from
  work_counter,
  quit,
  worker,        \* per thread: what it does, and the block it holds
  main,          \* what sync_with_blockchain does
  call,          \* history: the number of the answer it works on
  want, last,    \* the height it applies next, the last height of the answer
  got            \* history: the last block fetched for this answer

vars == <<work, prepared, work_counter, quit, worker, main, call, want, last, got>>

HeightRange == 0..MaxHeight
NoWork == [start |-> 0, last |-> -1, call |-> 0]
NothingGot == [call |-> 0, height |-> -1]
Empty == work.start > work.last

\* A thread about to lock mu, waiting on have_work, deriving the keys of a block
\* it took when work_counter had the given value, or returned.
Ready == [at |-> "loop"]
Asleep == [at |-> "asleep"]
Preparing(b, c) == [at |-> "preparing", block |-> b, local |-> c]
Returned == [at |-> "returned"]

\* have_work.notify_all and result_ready.notify_all.
have_work_notify_all ==
  worker' = [w \in Worker |-> IF worker[w] = Asleep THEN Ready ELSE worker[w]]
result_ready_notify_all == main' = IF main = "asleep" THEN "waiting" ELSE main

Init ==
  /\ work = NoWork
  /\ prepared = <<>>
  /\ work_counter = 0
  /\ quit = FALSE
  /\ worker = [w \in Worker |-> Ready]
  /\ main = "idle" /\ call = 0 /\ want = 0 /\ last = -1
  /\ got = NothingGot
-------------------------------------------------------------------------------
\* sync_with_blockchain, once the blocks that differ are popped: cancel_work
\* forgets the answer before ...
NextCounter == work_counter + 1

cancel_work ==
  /\ main = "idle"
  /\ ~quit
  /\ call < MaxCalls
  /\ work' = NoWork
  /\ prepared' = <<>>
  /\ work_counter' = NextCounter
  /\ main' = "cancelled"
  /\ UNCHANGED <<quit, worker, call, want, last, got>>

\* ... and start_work hands out the new one; the chain may already reach into it,
\* and blocks older than the wallet are passed over without being fetched.
start_work(s, l, first) ==
  /\ main = "cancelled"
  /\ work' = [start |-> s, last |-> l, call |-> call + 1]
  /\ work_counter' = NextCounter
  /\ have_work_notify_all
  /\ call' = call + 1
  /\ want' = first
  /\ last' = l
  /\ main' = "applying"
  /\ got' = NothingGot
  /\ UNCHANGED <<prepared, quit>>

\* The loop of sync_with_blockchain: past the last block, or given up because a
\* block does not link to the tip.
Done ==
  /\ main = "applying"
  /\ main' = "idle"
  /\ UNCHANGED <<work, prepared, work_counter, quit, worker, call, want, last, got>>

Fetch ==
  /\ main = "applying"
  /\ want <= last
  /\ main' = "waiting"
  /\ UNCHANGED <<work, prepared, work_counter, quit, worker, call, want, last, got>>

\* get_ready_work finds the block, or waits on result_ready.
Holds(h) == h \in DOMAIN prepared

get_ready_work ==
  /\ main = "waiting"
  /\ Holds(want)
  /\ got' = [call |-> prepared[want], height |-> want]
  /\ prepared' = [h \in DOMAIN prepared \ {want} |-> prepared[h]]
  /\ want' = want + 1
  /\ main' = "applying"
  /\ UNCHANGED <<work, work_counter, quit, worker, call, last>>

Wait ==
  /\ main = "waiting"
  /\ ~Holds(want)
  /\ main' = "asleep"
  /\ UNCHANGED <<work, prepared, work_counter, quit, worker, call, want, last, got>>
-------------------------------------------------------------------------------
\* thread_run: one turn of the loop in a thread.
Leave(w) ==
  /\ worker[w] = Ready
  /\ quit
  /\ worker' = [worker EXCEPT ![w] = Returned]
  /\ UNCHANGED <<work, prepared, work_counter, quit, main, call, want, last, got>>

Sleep(w) ==
  /\ worker[w] = Ready
  /\ ~quit
  /\ Empty
  /\ worker' = [worker EXCEPT ![w] = Asleep]
  /\ UNCHANGED <<work, prepared, work_counter, quit, main, call, want, last, got>>

FrontHeight == work.start

Take(w) ==
  /\ worker[w] = Ready
  /\ ~quit
  /\ ~Empty
  /\ worker' = [worker EXCEPT ![w] =
        Preparing([call |-> work.call, height |-> FrontHeight], work_counter)]
  /\ work' = [work EXCEPT !.start = @ + 1]
  /\ UNCHANGED <<prepared, work_counter, quit, main, call, want, last, got>>

\* The result of an answer that was cancelled meanwhile is dropped.
Report(w) ==
  /\ worker[w].at = "preparing"
  /\ worker' = [worker EXCEPT ![w] = Ready]
  /\ IF worker[w].local = work_counter
       THEN /\ prepared' = [h \in DOMAIN prepared \cup {worker[w].block.height} |->
                  IF h = worker[w].block.height THEN worker[w].block.call
                                                ELSE prepared[h]]
            /\ result_ready_notify_all
       ELSE UNCHANGED <<prepared, main>>
  /\ UNCHANGED <<work, work_counter, quit, call, want, last, got>>

\* A condition variable may wake a waiter by itself.
WorkerWakes(w) ==
  /\ worker[w] = Asleep
  /\ worker' = [worker EXCEPT ![w] = Ready]
  /\ UNCHANGED <<work, prepared, work_counter, quit, main, call, want, last, got>>

MainWakes ==
  /\ main = "asleep"
  /\ main' = "waiting"
  /\ UNCHANGED <<work, prepared, work_counter, quit, worker, call, want, last, got>>

\* The destructor sets quit and joins the threads.
\* (A faulty variant wakes nobody.)
Quit_mut ==
  /\ main = "idle" /\ ~quit
  /\ quit' = TRUE
  /\ UNCHANGED <<work, prepared, work_counter, worker, main, call, want, last, got>>

Quit ==
  /\ main = "idle" /\ ~quit
  /\ quit' = TRUE
  /\ have_work_notify_all
  /\ UNCHANGED <<work, prepared, work_counter, main, call, want, last, got>>

Joined ==
  /\ quit /\ \A w \in Worker : worker[w] = Returned
  /\ UNCHANGED vars

Main == cancel_work \/ Done \/ Fetch \/ get_ready_work \/ Wait
Step(w) == Leave(w) \/ Sleep(w) \/ Take(w) \/ Report(w)

Next ==
  \/ Main
  \/ \E s, l, first \in HeightRange : s <= l /\ s <= first /\ start_work(s, l, first)
  \/ \E w \in Worker : Step(w) \/ WorkerWakes(w)
  \/ MainWakes
  \/ Quit
  \/ Joined

\* The operating system runs every thread that can run.
Fairness ==
  /\ WF_vars(get_ready_work)
  /\ \A w \in Worker : WF_vars(Step(w))
Spec == Init /\ [][Next]_vars /\ Fairness
-------------------------------------------------------------------------------
TypeOK ==
  /\ work \in [start : 0..MaxHeight + 1, last : HeightRange \cup {-1}, call : 0..MaxCalls]
  /\ DOMAIN prepared \subseteq HeightRange /\ \A h \in DOMAIN prepared : prepared[h] \in 1..MaxCalls
  /\ work_counter \in Nat
  /\ worker \in [Worker -> {Ready, Asleep, Returned} \cup
        [at : {"preparing"}, block : [call : 1..MaxCalls, height : HeightRange], local : Nat]]
  /\ main \in {"idle", "cancelled", "applying", "waiting", "asleep"}

\* get_ready_work returns the block of this height of the answer being applied,
\* never one that a slow thread prepared from an answer already cancelled
\* (WalletPrepMulticore.cpp:91).
RightBlock == got # NothingGot => got.call = call /\ got.height = want - 1

\* Every block that sync_with_blockchain still has to fetch is queued, in a
\* thread's hands under the current counter, or prepared from this answer: the
\* wait in get_ready_work cannot be in vain.
NothingLost ==
  main \in {"applying", "waiting", "asleep"} =>
    \A h \in want..last :
      \/ h \in work.start..work.last /\ work.call = call
      \/ h \in DOMAIN prepared /\ prepared[h] = call
      \/ \E w \in Worker : worker[w] = Preparing([call |-> call, height |-> h], work_counter)

\* A thread sleeps on have_work only while no block waits to be taken and nobody
\* asked it to quit, and the applying thread sleeps only while its block is not
\* there: no notification is lost.
NoLostWakeup ==
  /\ \A w \in Worker : worker[w] = Asleep => Empty /\ ~quit
  /\ main = "asleep" => ~Holds(want)

===============================================================================
