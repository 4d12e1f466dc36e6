-------------------------------- MODULE Timer --------------------------------
(***************************************************************************)
(* platform::Timer (platform/Network, the boost::asio implementation): a   *)
(* timer that fires once.  once() and cancel() detach the Impl whose wait  *)
(* is outstanding, because its expiry may already be queued in the event   *)
(* loop.  All the retries, time-outs and idle steps of the program hang on *)
(* these timers.                                                           *)
(***************************************************************************)
EXTENDS Naturals

CONSTANTS Id,        \* the Impl objects that can exist at one time
          MaxArmed   \* bound: calls of once()

VARIABLES impls,     \* [owner, pending_wait, arm]; arm is the once() it waits for
          waits,     \* asio waits: [impl, arm, st]
          impl,      \* the Impl of the Timer, 0 for none
          armed,     \* the latest once() that should fire, 0 after cancel() and after it fired
          count,     \* calls of once()
          fired      \* the once() for which the last step called a_handler

vars == <<impls, waits, impl, armed, count, fired>>

Fresh == [owner |-> TRUE, pending_wait |-> FALSE]

Init ==
    /\ impls = [i \in Id |-> Fresh]
    /\ waits = {}
    /\ impl = 0
    /\ armed = 0
    /\ count = 0
    /\ fired = 0

Unused(i) == i # impl /\ \A w \in waits : w.impl # i

\* timer.cancel: a wait that has not expired ends with operation_aborted
Aborted == {IF w.impl = impl /\ w.st = "wait" THEN [w EXCEPT !.st = "abort"] ELSE w : w \in waits}

Waiting == impl # 0 /\ impls[impl].pending_wait

\* Impl::close: an Impl that is not waiting stays with its Timer
close ==
    /\ impls' = IF Waiting THEN [impls EXCEPT ![impl].owner = FALSE] ELSE impls
    /\ waits' = IF Waiting THEN Aborted ELSE waits
    /\ impl' = IF Waiting THEN 0 ELSE impl

cancel ==
    /\ close
    /\ armed' = 0
    /\ fired' = 0
    /\ UNCHANGED count

\* once() cancels first and then waits with the Impl it kept or with a new one
once ==
    /\ count < MaxArmed
    /\ \E i \in Id :
          /\ IF impl # 0 /\ ~Waiting THEN i = impl ELSE Unused(i)
          /\ waits' = (IF Waiting THEN Aborted ELSE waits)
                          \cup {[impl |-> i, arm |-> count + 1, st |-> "wait"]}
          /\ impls' = [j \in Id |->
                          IF j = i THEN [owner |-> TRUE, pending_wait |-> TRUE]
                          ELSE IF Waiting /\ j = impl THEN [impls[j] EXCEPT !.owner = FALSE]
                          ELSE impls[j]]
          /\ impl' = i
    /\ count' = count + 1
    /\ armed' = count + 1
    /\ fired' = 0

\* the deadline passes
Expire(w) ==
    /\ w.st = "wait"
    /\ waits' = (waits \ {w}) \cup {[w EXCEPT !.st = "ok"]}
    /\ fired' = 0
    /\ UNCHANGED <<impls, impl, armed, count>>

handle_timeout(w) ==
    /\ w.st # "wait"
    /\ waits' = waits \ {w}
    /\ impls' = [impls EXCEPT ![w.impl].pending_wait = FALSE]
    /\ IF w.st = "ok" /\ impls[w.impl].owner
       THEN fired' = w.arm /\ armed' = 0
       ELSE fired' = 0 /\ UNCHANGED armed
    /\ UNCHANGED <<impl, count>>

Expires == \E w \in waits : w.arm = armed /\ (Expire(w) \/ handle_timeout(w))

Next == once \/ cancel \/ \E w \in waits : Expire(w) \/ handle_timeout(w)

\* time passes, and the event loop runs the handler of a wait that ended
Spec == Init /\ [][Next]_vars /\ WF_vars(Expires)

\* a_handler runs for the latest once() only: not for one that was cancelled or
\* replaced, also when its expiry was queued before ("cancels previous once
\* first", Network.hpp).
OnlyLatestFires == [][fired' # 0 => fired' = armed]_vars

\* start_timer's assertion: the Impl that once() uses is not waiting, and
\* every wait belongs to an Impl that knows of it, one wait each.
OneWaitEach ==
    \A i \in Id : impls[i].pending_wait = (\E w \in waits : w.impl = i)
                  /\ \A v, w \in waits : v.impl = w.impl => v = w

=============================================================================
