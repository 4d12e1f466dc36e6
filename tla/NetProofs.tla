----------------------------- MODULE NetProofs ------------------------------
(***************************************************************************)
(* The buffers, the socket, the acceptor, the timer and the stream, for    *)
(* every size and any number of objects, connections and timers: that      *)
(* CircularBuffer implements Fifo, that the operations of the event loop   *)
(* always match the objects they belong to, and that no handler runs at    *)
(* the wrong time.  Then the messages: that the server and the agent hand  *)
(* answers to whom they belong, and that a peer's messages are handled     *)
(* whole and in order.  Each part has an inductive invariant of its own;   *)
(* the section `The parts together' and the last one put them together.    *)
(***************************************************************************)
EXTENDS MCNet, SequenceTheorems, FiniteSetTheorems, WellFoundedInduction, TLAPS

(***************************************************************************)
(* The circular buffer: its positions stay in range, its loops complete,   *)
(* and it implements Fifo.                                                 *)
(***************************************************************************)
(***************************************************************************)
(* What a running loop has left to do.  LoopsComplete alone is not         *)
(* inductive: it says nothing while a loop runs.                           *)
(***************************************************************************)
LoopInv ==
    /\ copy.dir = "from" => copy.goal = capacity
    /\ copy.dir = "to" => copy.goal = Lesser(size, copy.max_count)
    /\ LoopsComplete

IInv == TypeOK /\ Positions /\ LoopInv

\* The counts, in terms of the positions.
LEMMA Counts ==
    ASSUME TypeOK, Positions
    PROVE  /\ read_count \in Nat /\ write_count \in Nat
           /\ size = write_pos - read_pos
           /\ capacity = Size - (write_pos - read_pos)
           /\ read_count <= size
           /\ write_count <= capacity
           /\ write_count = 0 <=> size = Size
           /\ read_count = 0 <=> size = 0
           /\ read_pos + read_count <= Size
           /\ write_ptr \in Nat
           /\ write_ptr + write_count <= Size
BY SizeAssumption
   DEF TypeOK, Positions, read_count, read_count2, write_count, write_count2,
       write_ptr, size, capacity, Wrapped

\* Taking bytes in keeps types and positions, and the room shrinks by their number.
LEMMA AcceptKeeps ==
    ASSUME TypeOK, Positions, NEW data \in Seq(Byte), Len(data) <= write_count,
           Accept(data)
    PROVE  /\ impl' \in [Index -> Byte]
           /\ write_pos' = write_pos + Len(data)
           /\ read_pos' = read_pos
           /\ read_pos' \in Nat /\ write_pos' \in Nat
           /\ Positions'
           /\ io' \in [op : {"none", "write", "read", "clear"}, data : Seq(Byte)]
           /\ size' = size + Len(data)
           /\ capacity' = capacity - Len(data)
<1>0. write_ptr \in Nat /\ write_count \in Nat /\ Len(data) \in Nat
  BY Counts, LenProperties
<1>1. impl' \in [Index -> Byte]
  <2>1. ASSUME NEW i \in Index
        PROVE  (IF i >= write_ptr /\ i < write_ptr + Len(data)
                THEN data[i - write_ptr + 1] ELSE impl[i]) \in Byte
    <3>1. CASE i >= write_ptr /\ i < write_ptr + Len(data)
      <4>1. i - write_ptr + 1 \in 1 .. Len(data)
        BY <3>1, <1>0, SizeAssumption DEF Index
      <4>2. data[i - write_ptr + 1] \in Byte
        BY <4>1, ElementOfSeq
      <4> QED BY <3>1, <4>2
    <3>2. CASE ~(i >= write_ptr /\ i < write_ptr + Len(data))
      BY <3>2 DEF TypeOK
    <3> QED BY <3>1, <3>2
  <2> QED BY <2>1 DEF Accept, Stored
<1>2. write_pos' = write_pos + Len(data) /\ read_pos' = read_pos
  BY DEF Accept, did_write
<1>3. read_pos' \in Nat /\ write_pos' \in Nat
  BY <1>2, <1>0 DEF TypeOK
<1>4. write_pos + Len(data) <= read_pos + Size
  BY <1>0, Counts, SizeAssumption DEF TypeOK, Positions
<1>5. Positions'
  BY <1>0, <1>2, <1>4, SizeAssumption DEF TypeOK, Positions
<1>6. io' \in [op : {"none", "write", "read", "clear"}, data : Seq(Byte)]
  BY DEF Accept
<1>7. size' = write_pos' - read_pos' /\ capacity' = Size - (write_pos' - read_pos')
  BY <1>3, <1>5, SizeAssumption
     DEF Positions, read_count, read_count2, write_count, write_count2, size,
         capacity, Wrapped
<1>8. size' = size + Len(data) /\ capacity' = capacity - Len(data)
  <2>1. size = write_pos - read_pos /\ capacity = Size - (write_pos - read_pos)
    BY Counts
  <2>2. read_pos \in Int /\ write_pos \in Int /\ Size \in Int /\ Len(data) \in Int
    BY <1>0, SizeAssumption DEF TypeOK
  <2> QED BY <1>2, <1>7, <2>1, <2>2
<1> QED BY <1>1, <1>2, <1>3, <1>5, <1>6, <1>8

\* Giving bytes out keeps types and positions, through the wrap of both.
LEMMA GiveKeeps ==
    ASSUME TypeOK, Positions, NEW n \in Nat, n <= read_count, Give(n)
    PROVE  /\ impl' = impl
           /\ read_pos' \in Nat /\ write_pos' \in Nat
           /\ Positions'
           /\ io' \in [op : {"none", "write", "read", "clear"}, data : Seq(Byte)]
           /\ size' = size - n
           /\ capacity' = capacity + n
           /\ \/ read_pos' = read_pos + n /\ write_pos' = write_pos
              \/ /\ read_pos + n = Size
                 /\ read_pos' = 0 /\ write_pos' = write_pos - Size
<1>0. read_pos \in Nat /\ write_pos \in Nat /\ read_count \in Nat
  BY Counts DEF TypeOK
<1>1. \/ read_pos' = read_pos + n /\ write_pos' = write_pos /\ read_pos + n < Size
      \/ /\ read_pos + n = Size
         /\ read_pos' = 0 /\ write_pos' = write_pos - Size
  BY <1>0, Counts, SizeAssumption DEF Give, did_read
<1>2. n <= write_pos - read_pos
  BY <1>0, Counts, SizeAssumption
<1>3. read_pos' \in Nat /\ write_pos' \in Nat /\ Positions'
  BY <1>0, <1>1, <1>2, SizeAssumption DEF Positions
<1>4. io' \in [op : {"none", "write", "read", "clear"}, data : Seq(Byte)]
  <2>1. ASSUME NEW i \in 1 .. n PROVE impl[read_pos + i - 1] \in Byte
    <3>1. read_pos + i - 1 \in Index
      BY <1>0, Counts, SizeAssumption DEF Index
    <3> QED BY <3>1 DEF TypeOK
  <2>2. Peek(n) \in [1 .. n -> Byte]
    BY <2>1 DEF Peek
  <2>3. Peek(n) \in Seq(Byte)
    BY <2>2
  <2> QED BY <2>3 DEF Give
<1>5. size' = write_pos' - read_pos' /\ capacity' = Size - (write_pos' - read_pos')
  BY <1>3, SizeAssumption
     DEF Positions, read_count, read_count2, write_count, write_count2, size,
         capacity, Wrapped
<1>6. size' = size - n /\ capacity' = capacity + n
  <2>1. size = write_pos - read_pos /\ capacity = Size - (write_pos - read_pos)
    BY Counts
  <2>2. Size \in Int
    BY SizeAssumption
  <2>3. write_pos' - read_pos' = write_pos - read_pos - n
    <3>1. CASE read_pos' = read_pos + n /\ write_pos' = write_pos
      BY <1>0, <3>1
    <3>2. CASE read_pos + n = Size /\ read_pos' = 0 /\ write_pos' = write_pos - Size
      BY <1>0, <2>2, <3>2
    <3> QED BY <1>1, <3>1, <3>2
  <2> QED BY <1>0, <1>5, <2>1, <2>2, <2>3
<1> QED BY <1>1, <1>3, <1>4, <1>6 DEF Give

(***************************************************************************)
(* The inductive invariant                                                 *)
(***************************************************************************)
\* The strings a caller passes, and their prefixes, are sequences of bytes.
LEMMA DataIsSeq ==
    ASSUME NEW data \in Data, NEW n \in 0 .. Len(data)
    PROVE  /\ data \in Seq(Byte)
           /\ SubSeq(data, 1, n) \in Seq(Byte)
           /\ Len(SubSeq(data, 1, n)) = n
<1>1. data \in Seq(Byte)
  BY SizeAssumption DEF Data
<1>2. SubSeq(data, 1, n) \in Seq(Byte) /\ Len(SubSeq(data, 1, n)) = n
  BY <1>1, SubSeqProperties
<1> QED BY <1>1, <1>2

\* A new buffer satisfies the invariant.
LEMMA InitInv == Init => IInv
<1> SUFFICES ASSUME Init PROVE IInv OBVIOUS
<1>1. TypeOK
  BY SizeAssumption DEF Init, TypeOK, Idle, Loop
<1>2. Positions
  BY SizeAssumption DEF Init, Positions
<1>3. LoopInv
  BY DEF Init, LoopInv, LoopsComplete, Idle, Loop
<1> QED BY <1>1, <1>2, <1>3 DEF IInv

\* Every call and every round of a loop keeps it.
LEMMA NextInv == IInv /\ [Next]_vars => IInv'
<1> SUFFICES ASSUME IInv, [Next]_vars PROVE IInv' OBVIOUS
<1> USE DEF IInv
<1>1. ASSUME NEW data \in Data, write_some(data) PROVE IInv'
  <2> DEFINE n == Lesser(Len(data), write_count)
  <2>1. n \in 0 .. Len(data) /\ n <= write_count
    <3>1. Len(data) \in Nat BY SizeAssumption DEF Data
    <3> QED BY <3>1, Counts DEF Lesser
  <2>2. SubSeq(data, 1, n) \in Seq(Byte) /\ Len(SubSeq(data, 1, n)) = n
    BY <2>1, DataIsSeq
  <2>3. Accept(SubSeq(data, 1, n)) /\ copy' = copy /\ copy.dir = "none"
    BY <1>1 DEF write_some
  <2> HIDE DEF n
  <2>4. /\ impl' \in [Index -> Byte] /\ read_pos' \in Nat /\ write_pos' \in Nat
        /\ Positions'
        /\ io' \in [op : {"none", "write", "read", "clear"}, data : Seq(Byte)]
    BY <2>1, <2>2, <2>3, AcceptKeeps
  <2>5. TypeOK' BY <2>3, <2>4 DEF TypeOK
  <2>6. LoopInv' BY <2>3 DEF LoopInv, LoopsComplete
  <2> QED BY <2>4, <2>5, <2>6
<1>2. ASSUME NEW amount \in 0 .. MaxCount, read_some(amount) PROVE IInv'
  <2> DEFINE n == Lesser(amount, read_count)
  <2>1. n \in Nat /\ n <= read_count
    BY SizeAssumption, Counts DEF Lesser
  <2>2. Give(n) /\ copy' = copy /\ copy.dir = "none"
    BY <1>2 DEF read_some
  <2> HIDE DEF n
  <2>3. /\ impl' = impl /\ read_pos' \in Nat /\ write_pos' \in Nat
        /\ Positions'
        /\ io' \in [op : {"none", "write", "read", "clear"}, data : Seq(Byte)]
    BY <2>1, <2>2, GiveKeeps
  <2>4. TypeOK' BY <2>2, <2>3 DEF TypeOK
  <2>5. LoopInv' BY <2>2 DEF LoopInv, LoopsComplete
  <2> QED BY <2>3, <2>4, <2>5
<1>3. CASE clear
  <2>1. TypeOK' BY <1>3 DEF clear, TypeOK
  <2>2. Positions' BY <1>3, SizeAssumption DEF clear, Positions
  <2>3. LoopInv' BY <1>3 DEF clear, LoopInv, LoopsComplete
  <2> QED BY <2>1, <2>2, <2>3
<1>4. ASSUME UNCHANGED <<read_pos, write_pos, impl, io>>
      PROVE  /\ Positions' /\ size' = size /\ capacity' = capacity
             /\ impl' \in [Index -> Byte] /\ read_pos' \in Nat /\ write_pos' \in Nat
             /\ io' \in [op : {"none", "write", "read", "clear"}, data : Seq(Byte)]
  BY <1>4 DEF TypeOK, Positions, size, capacity, read_count, read_count2,
              write_count, write_count2, Wrapped
<1>5. CASE copy_from
  <2>1. copy' = Loop("from", 0, capacity) /\ UNCHANGED <<read_pos, write_pos, impl, io>>
    BY <1>5 DEF copy_from
  <2>2. capacity \in Nat BY Counts, SizeAssumption DEF TypeOK, Positions
  <2>3. TypeOK' BY <1>4, <2>1, <2>2 DEF TypeOK, Loop
  <2>4. LoopInv' BY <1>4, <2>1 DEF LoopInv, LoopsComplete, Loop
  <2> QED BY <1>4, <2>1, <2>3, <2>4
<1>6. ASSUME NEW max_count \in 0 .. MaxCount, copy_to(max_count) PROVE IInv'
  <2>1. /\ copy' = Loop("to", max_count, Lesser(size, max_count))
        /\ UNCHANGED <<read_pos, write_pos, impl, io>>
    BY <1>6 DEF copy_to
  <2>2. Lesser(size, max_count) \in Nat /\ max_count \in Nat
    BY Counts, SizeAssumption DEF TypeOK, Positions, Lesser
  <2>3. TypeOK' BY <1>4, <2>1, <2>2 DEF TypeOK, Loop
  <2>4. LoopInv' BY <1>4, <2>1 DEF LoopInv, LoopsComplete, Loop
  <2> QED BY <1>4, <2>1, <2>3, <2>4
<1>7. ASSUME NEW data \in Data, copy_from_round(data) PROVE IInv'
  <2>1. Len(data) \in Nat /\ data \in Seq(Byte)
    BY SizeAssumption DEF Data
  <2>2. /\ Accept(data) /\ Len(data) <= write_count /\ write_count # 0
        /\ copy.dir = "from" /\ copy' = Moved(Len(data), write_count)
    BY <1>7 DEF copy_from_round
  <2>3. /\ impl' \in [Index -> Byte] /\ read_pos' \in Nat /\ write_pos' \in Nat
        /\ Positions'
        /\ io' \in [op : {"none", "write", "read", "clear"}, data : Seq(Byte)]
        /\ capacity' = capacity - Len(data)
    BY <2>1, <2>2, AcceptKeeps
  <2>4. copy.goal = capacity /\ capacity - Len(data) \in Nat
    <3>1. capacity = Size - (write_pos - read_pos) /\ write_count <= capacity
          /\ write_count \in Nat
      BY Counts
    <3>2. Size \in Int /\ read_pos \in Int /\ write_pos \in Int
      BY SizeAssumption DEF TypeOK
    <3>3. capacity - Len(data) \in Nat
      BY <2>1, <2>2, <3>1, <3>2
    <3> QED BY <2>2, <3>3 DEF LoopInv
  <2>5. /\ copy'.dir = (IF Len(data) = 0 THEN "none" ELSE "from")
        /\ copy'.goal = capacity - Len(data)
        /\ copy'.greedy = (copy.greedy /\ Len(data) = write_count)
        /\ copy'.max_count = copy.max_count
        /\ copy' \in [dir : {"none", "from", "to"}, max_count : Nat, goal : Nat,
                      greedy : BOOLEAN]
    BY <2>1, <2>2, <2>4 DEF Moved, TypeOK
  <2>6. TypeOK' BY <2>3, <2>5 DEF TypeOK
  <2>7. LoopInv' BY <2>2, <2>3, <2>5 DEF LoopInv, LoopsComplete
  <2> QED BY <2>3, <2>6, <2>7
<1>8. ASSUME NEW amount \in 0 .. Size, copy_to_round(amount) PROVE IInv'
  <2> DEFINE rc == Lesser(read_count, copy.max_count)
  <2>1. rc # 0 /\ amount \in 0 .. rc /\ Give(amount) /\ copy.dir = "to"
        /\ copy' = Moved(amount, rc)
    BY <1>8 DEF copy_to_round
  <2>2. amount \in Nat /\ rc \in Nat /\ rc <= read_count /\ rc <= copy.max_count
    BY <2>1, Counts, SizeAssumption DEF TypeOK, Lesser
  <2> HIDE DEF rc
  <2>3. amount <= read_count /\ amount <= copy.max_count
    BY <2>1, <2>2, Counts DEF TypeOK
  <2>4. /\ impl' = impl /\ read_pos' \in Nat /\ write_pos' \in Nat
        /\ Positions'
        /\ io' \in [op : {"none", "write", "read", "clear"}, data : Seq(Byte)]
        /\ size' = size - amount
    BY <2>1, <2>2, <2>3, GiveKeeps
  <2>5. /\ copy.goal = Lesser(size, copy.max_count)
        /\ copy.goal - amount = Lesser(size - amount, copy.max_count - amount)
        /\ copy.goal - amount \in Nat /\ copy.max_count - amount \in Nat
    <3>0. size = write_pos - read_pos /\ read_count <= size /\ read_count \in Nat
      BY Counts
    <3>1. size \in Nat /\ copy.max_count \in Nat /\ amount <= size
      BY <2>2, <2>3, <3>0 DEF TypeOK, Positions
    <3>2. copy.goal = Lesser(size, copy.max_count)
      BY <2>1 DEF LoopInv
    <3> QED BY <2>2, <2>3, <3>1, <3>2 DEF Lesser
  <2>6. /\ copy'.dir = (IF amount = 0 THEN "none" ELSE "to")
        /\ copy'.goal = copy.goal - amount
        /\ copy'.greedy = (copy.greedy /\ amount = rc)
        /\ copy'.max_count = copy.max_count - amount
        /\ copy' \in [dir : {"none", "from", "to"}, max_count : Nat, goal : Nat,
                      greedy : BOOLEAN]
    BY <2>1, <2>2, <2>5 DEF Moved, TypeOK
  <2>7. TypeOK' BY <2>4, <2>6 DEF TypeOK
  <2>8. LoopInv' BY <2>1, <2>4, <2>5, <2>6 DEF LoopInv, LoopsComplete
  <2> QED BY <2>4, <2>7, <2>8
<1>9. ASSUME copy' = Ended, UNCHANGED <<read_pos, write_pos, impl, io>>, copy.goal = 0
      PROVE IInv'
  <2>1. copy' \in [dir : {"none", "from", "to"}, max_count : Nat, goal : Nat,
                   greedy : BOOLEAN]
        /\ copy'.dir = "none" /\ copy'.goal = 0
    BY <1>9 DEF Ended, TypeOK
  <2>2. TypeOK' BY <1>4, <1>9, <2>1 DEF TypeOK
  <2>3. LoopInv' BY <2>1 DEF LoopInv, LoopsComplete
  <2> QED BY <1>4, <1>9, <2>2, <2>3
<1>10. CASE copy_from_full
  <2>1. copy.goal = 0
    BY <1>10, Counts, SizeAssumption DEF copy_from_full, LoopInv, TypeOK, Positions
  <2> QED BY <1>9, <1>10, <2>1 DEF copy_from_full
<1>11. CASE copy_to_done
  <2>1. copy.goal = 0
    BY <1>11, Counts, SizeAssumption DEF copy_to_done, LoopInv, TypeOK, Positions, Lesser
  <2> QED BY <1>9, <1>11, <2>1 DEF copy_to_done
<1>12. CASE UNCHANGED vars
  <2>1. copy' = copy /\ UNCHANGED <<read_pos, write_pos, impl, io>>
    BY <1>12 DEF vars
  <2>2. TypeOK' BY <1>4, <2>1 DEF TypeOK
  <2>3. LoopInv' BY <1>4, <2>1 DEF LoopInv, LoopsComplete
  <2> QED BY <1>4, <2>1, <2>2, <2>3
<1> QED BY <1>1, <1>2, <1>3, <1>5, <1>6, <1>7, <1>8, <1>10, <1>11, <1>12 DEF Next, Round

\* The invariant holds in every behaviour of the buffer.
LEMMA SpecIInv == Spec => []IInv
BY InitInv, NextInv, PTL DEF Spec

\* The state of the buffer always has its types.
THEOREM TypeCorrect == Spec => []TypeOK
<1>1. IInv => TypeOK BY DEF IInv
<1> QED BY SpecIInv, <1>1, PTL

\* No assertion of did_read or did_write fails, whatever is read and written.
THEOREM PositionsHold == Spec => []Positions
<1>1. IInv => Positions BY DEF IInv
<1> QED BY SpecIInv, <1>1, PTL

\* write_some and read_some return 0 only for a full and for an empty buffer.
THEOREM FirstPieceAlwaysServes == Spec => []FirstPieceServes
<1>1. IInv => FirstPieceServes
  <2> SUFFICES ASSUME IInv PROVE FirstPieceServes OBVIOUS
  <2> QED BY Counts, SizeAssumption DEF IInv, TypeOK, Positions, FirstPieceServes
<1> QED BY SpecIInv, <1>1, PTL

\* A copy loop whose other stream takes all it is offered moves all it could.
THEOREM LoopsAlwaysComplete == Spec => []LoopsComplete
<1>1. IInv => LoopsComplete BY DEF IInv, LoopInv
<1> QED BY SpecIInv, <1>1, PTL

\* All of these together, which is what a run checks.
THEOREM BufferAlwaysSound == Spec => []BufferSound
<1>1. TypeOK /\ Positions /\ FirstPieceServes /\ LoopsComplete => BufferSound BY DEF BufferSound
<1> QED BY TypeCorrect, PositionsHold, FirstPieceAlwaysServes, LoopsAlwaysComplete, <1>1, PTL

(***************************************************************************)
(* The buffer implements Fifo                                              *)
(***************************************************************************)
\* The slot of a position in the first and in the second round of the array.
LEMMA SlotOf ==
    ASSUME NEW p \in Int
    PROVE  /\ p < Size => Slot(p) = p
           /\ p >= Size => Slot(p) = p - Size
BY SizeAssumption DEF Slot

\* Between positions in range, the queue is a sequence of bytes.
LEMMA QueueIsSeq ==
    ASSUME NEW a \in [Index -> Byte], NEW r \in Nat, NEW w \in Nat,
           r < Size, r <= w, w <= r + Size
    PROVE  /\ Queue(a, r, w) \in Seq(Byte)
           /\ Len(Queue(a, r, w)) = w - r
           /\ \A i \in 1 .. w - r : Queue(a, r, w)[i] = a[Slot(r + i - 1)]
<1>1. ASSUME NEW i \in 1 .. w - r PROVE a[Slot(r + i - 1)] \in Byte
  <2>1. Slot(r + i - 1) \in Index
    BY SizeAssumption DEF Slot, Index
  <2> QED BY <2>1
<1>2. Queue(a, r, w) \in [1 .. w - r -> Byte]
  BY <1>1 DEF Queue
<1>3. w - r \in Nat
  OBVIOUS
<1>4. Queue(a, r, w) \in Seq(Byte) /\ Len(Queue(a, r, w)) = w - r
  BY <1>2, <1>3
<1>5. \A i \in 1 .. w - r : Queue(a, r, w)[i] = a[Slot(r + i - 1)]
  BY DEF Queue
<1> QED BY <1>4, <1>5

\* What write_some stores is what follows in the queue.
LEMMA AcceptAppends ==
    ASSUME TypeOK, Positions, NEW data \in Seq(Byte), Len(data) <= write_count,
           Accept(data)
    PROVE  Contents' = Contents \o data
<1> DEFINE s == Queue(impl, read_pos, write_pos)
           t == Queue(impl', read_pos', write_pos')
<1>0. /\ read_pos \in Nat /\ write_pos \in Nat /\ Len(data) \in Nat
      /\ impl \in [Index -> Byte]
      /\ write_ptr \in Nat /\ write_count \in Nat
  BY Counts, LenProperties DEF TypeOK
<1>1. /\ impl' \in [Index -> Byte] /\ write_pos' = write_pos + Len(data)
      /\ read_pos' = read_pos /\ write_pos' \in Nat /\ Positions'
  BY AcceptKeeps
<1>2. s \in Seq(Byte) /\ Len(s) = write_pos - read_pos
      /\ \A i \in 1 .. write_pos - read_pos : s[i] = impl[Slot(read_pos + i - 1)]
  BY <1>0, QueueIsSeq DEF Positions
<1>3. t \in Seq(Byte) /\ Len(t) = write_pos + Len(data) - read_pos
      /\ \A i \in 1 .. write_pos + Len(data) - read_pos :
             t[i] = impl'[Slot(read_pos + i - 1)]
  <2>1. /\ read_pos' \in Nat /\ read_pos' < Size /\ read_pos' <= write_pos'
        /\ write_pos' <= read_pos' + Size
    BY <1>0, <1>1 DEF Positions
  <2>2. t \in Seq(Byte) /\ Len(t) = write_pos' - read_pos'
        /\ \A i \in 1 .. write_pos' - read_pos' : t[i] = impl'[Slot(read_pos' + i - 1)]
    BY <1>1, <2>1, QueueIsSeq
  <2> HIDE DEF t
  <2>3. read_pos' = read_pos /\ write_pos' - read_pos' = write_pos + Len(data) - read_pos
    <3>1. read_pos' = read_pos /\ write_pos' = write_pos + Len(data) BY <1>1
    <3> QED BY <1>0, <3>1
  <2> QED BY <2>2, <2>3
<1> HIDE DEF s, t
<1>4. /\ s \o data \in Seq(Byte) /\ Len(s \o data) = Len(s) + Len(data)
      /\ \A i \in 1 .. Len(s) + Len(data) :
            (s \o data)[i] = IF i <= Len(s) THEN s[i] ELSE data[i - Len(s)]
  BY <1>2, ConcatProperties
<1>5. Len(t) = Len(s \o data)
  BY <1>0, <1>2, <1>3, <1>4
<1>6. ASSUME NEW i \in 1 .. Len(t) PROVE t[i] = (s \o data)[i]
  <2> DEFINE p == Slot(read_pos + i - 1)
  <2>0. i \in 1 .. write_pos + Len(data) - read_pos /\ i \in Nat
    BY <1>0, <1>3, <1>6
  <2>1. t[i] = impl'[p]
    BY <1>3, <2>0
  <2>2. p \in Index
    BY <1>0, <1>1, <2>0, SizeAssumption DEF Positions, Slot, Index
  <2>3. impl'[p] = IF p >= write_ptr /\ p < write_ptr + Len(data)
                   THEN data[p - write_ptr + 1] ELSE impl[p]
    BY <2>2 DEF Accept, Stored
  <2>4. CASE i <= Len(s)
    <3>1. ~(p >= write_ptr /\ p < write_ptr + Len(data))
      BY <1>0, <1>1, <1>2, <2>0, <2>4, SizeAssumption
         DEF Positions, Slot, write_ptr, Wrapped, write_count
    <3>2. s[i] = impl[p]
      BY <1>0, <1>2, <2>0, <2>4
    <3> QED BY <1>4, <1>5, <1>6, <2>1, <2>3, <2>4, <3>1, <3>2
  <2>5. CASE i > Len(s)
    <3>1. /\ p >= write_ptr /\ p < write_ptr + Len(data)
          /\ p - write_ptr + 1 = i - Len(s)
      BY <1>0, <1>1, <1>2, <2>0, <2>5, SizeAssumption
         DEF Positions, Slot, write_ptr, Wrapped, write_count
    <3>2. ~(i <= Len(s))
      BY <1>0, <1>2, <2>0, <2>5
    <3> QED BY <1>4, <1>5, <1>6, <2>1, <2>3, <3>1, <3>2
  <2>6. Len(s) \in Nat BY <1>2, LenProperties
  <2>7. i <= Len(s) \/ i > Len(s) BY <2>0, <2>6
  <2> QED BY <2>4, <2>5, <2>7
<1>7. t = s \o data
  BY <1>3, <1>4, <1>5, <1>6, SeqEqual
<1> QED BY <1>7 DEF s, t, Contents

\* What read_some hands out is the front of the queue.
LEMMA GiveTakesFront ==
    ASSUME TypeOK, Positions, NEW n \in Nat, n <= read_count, Give(n)
    PROVE  Contents = Peek(n) \o Contents'
<1> DEFINE s == Queue(impl, read_pos, write_pos)
           t == Queue(impl', read_pos', write_pos')
           d == Peek(n)
<1>0. /\ read_pos \in Nat /\ write_pos \in Nat /\ impl \in [Index -> Byte]
      /\ read_count \in Nat /\ read_pos + read_count <= Size
      /\ read_count <= write_pos - read_pos
  <2>1. read_count <= size /\ size = write_pos - read_pos BY Counts
  <2> QED BY <2>1, Counts DEF TypeOK
<1>1. /\ impl' = impl /\ read_pos' \in Nat /\ write_pos' \in Nat /\ Positions'
      /\ \/ read_pos' = read_pos + n /\ write_pos' = write_pos
         \/ /\ read_pos + n = Size
            /\ read_pos' = 0 /\ write_pos' = write_pos - Size
  BY GiveKeeps
<1>2. s \in Seq(Byte) /\ Len(s) = write_pos - read_pos
      /\ \A i \in 1 .. write_pos - read_pos : s[i] = impl[Slot(read_pos + i - 1)]
  BY <1>0, QueueIsSeq DEF Positions
<1>3. t \in Seq(Byte) /\ Len(t) = write_pos' - read_pos'
      /\ \A i \in 1 .. write_pos' - read_pos' : t[i] = impl[Slot(read_pos' + i - 1)]
  <2>1. /\ read_pos' < Size /\ read_pos' <= write_pos' /\ write_pos' <= read_pos' + Size
        /\ impl' \in [Index -> Byte]
    BY <1>0, <1>1 DEF Positions
  <2>2. t \in Seq(Byte) /\ Len(t) = write_pos' - read_pos'
        /\ \A i \in 1 .. write_pos' - read_pos' : t[i] = impl'[Slot(read_pos' + i - 1)]
    BY <1>1, <2>1, QueueIsSeq
  <2> HIDE DEF t
  <2> QED BY <1>1, <2>2
<1>4. d \in Seq(Byte) /\ Len(d) = n /\ \A i \in 1 .. n : d[i] = impl[read_pos + i - 1]
  <2>1. ASSUME NEW i \in 1 .. n PROVE impl[read_pos + i - 1] \in Byte
    <3>1. read_pos + i - 1 \in Index
      BY <1>0, SizeAssumption DEF Index
    <3> QED BY <3>1, <1>0
  <2>2. d \in [1 .. n -> Byte]
    BY <2>1 DEF Peek
  <2>3. d \in Seq(Byte) /\ Len(d) = n
    BY <2>2
  <2>4. \A i \in 1 .. n : d[i] = impl[read_pos + i - 1]
    BY DEF Peek
  <2> QED BY <2>3, <2>4
<1> HIDE DEF s, t, d
<1>5. /\ d \o t \in Seq(Byte) /\ Len(d \o t) = Len(d) + Len(t)
      /\ \A i \in 1 .. Len(d) + Len(t) :
            (d \o t)[i] = IF i <= Len(d) THEN d[i] ELSE t[i - Len(d)]
  BY <1>3, <1>4, ConcatProperties
<1>6. write_pos' - read_pos' = write_pos - read_pos - n
  <2>1. CASE read_pos' = read_pos + n /\ write_pos' = write_pos
    BY <1>0, <2>1
  <2>2. CASE read_pos + n = Size /\ read_pos' = 0 /\ write_pos' = write_pos - Size
    <3>1. Size \in Int BY SizeAssumption
    <3> QED BY <1>0, <2>2, <3>1
  <2> QED BY <1>1, <2>1, <2>2
<1>7. Len(s) = Len(d \o t) /\ Len(t) = write_pos - read_pos - n /\ Len(t) \in Nat
  <2>1. Len(t) \in Nat BY <1>3, LenProperties
  <2>3. Len(t) = write_pos - read_pos - n BY <1>3, <1>6
  <2>4. Len(d \o t) = n + Len(t) BY <1>4, <1>5
  <2>5. Len(s) = n + Len(t) BY <1>0, <1>2, <2>3
  <2> QED BY <2>1, <2>3, <2>4, <2>5
<1>8. ASSUME NEW i \in 1 .. Len(s) PROVE s[i] = (d \o t)[i]
  <2>0. i \in 1 .. write_pos - read_pos /\ i \in Nat
    BY <1>0, <1>2
  <2>1. s[i] = impl[Slot(read_pos + i - 1)]
    BY <1>2, <2>0
  <2>2. CASE i <= n
    <3>1. Slot(read_pos + i - 1) = read_pos + i - 1
      BY <1>0, <2>0, <2>2, SizeAssumption DEF Slot
    <3>2. d[i] = impl[read_pos + i - 1]
      BY <1>4, <2>0, <2>2
    <3> QED BY <1>4, <1>5, <1>7, <1>8, <2>1, <2>2, <3>1, <3>2
  <2>3. CASE i > n
    <3>1. i - n \in 1 .. write_pos' - read_pos'
      BY <1>0, <1>6, <2>0, <2>3
    <3>2. Slot(read_pos' + (i - n) - 1) = Slot(read_pos + i - 1)
      <4>1. CASE read_pos' = read_pos + n
        <5>1. read_pos' + (i - n) - 1 = read_pos + i - 1 BY <4>1, <1>0, <2>0
        <5> QED BY <5>1
      <4>2. CASE read_pos + n = Size /\ read_pos' = 0
        <5> DEFINE p == read_pos + i - 1
                   q == read_pos' + (i - n) - 1
        <5>1. p \in Int /\ q \in Int
          BY <1>0, <1>1, <2>0
        <5>2. p >= Size /\ q < Size /\ q = p - Size
          BY <4>2, <1>0, <2>0, <2>3, SizeAssumption DEF Positions
        <5> HIDE DEF p, q
        <5>3. Slot(q) = q /\ Slot(p) = p - Size
          BY <5>1, <5>2, SlotOf
        <5>4. Slot(q) = Slot(p)
          BY <5>2, <5>3
        <5> QED BY <5>4 DEF p, q
      <4> QED BY <1>1, <4>1, <4>2
    <3>3. t[i - n] = impl[Slot(read_pos + i - 1)]
      BY <1>3, <3>1, <3>2
    <3>4. ~(i <= Len(d))
      BY <1>4, <2>0, <2>3
    <3> QED BY <1>4, <1>5, <1>7, <1>8, <2>1, <3>3, <3>4
  <2>4. i <= n \/ i > n BY <2>0
  <2> QED BY <2>2, <2>3, <2>4
<1>9. s = d \o t
  BY <1>2, <1>5, <1>7, <1>8, SeqEqual
<1> QED BY <1>9 DEF s, t, d, Contents

\* The buffer implements the queue: every call that moves bytes is a step of
\* Fifo, and the steps that only start or end a loop are not seen there.
THEOREM BufferImplementsFifo == Spec => ImplementsFifo
<1>1. Init => AsFifo!FifoInit
  <2> SUFFICES ASSUME Init PROVE Contents = <<>> /\ io = [op |-> "none", data |-> <<>>]
    BY DEF AsFifo!FifoInit
  <2>1. Contents \in Seq(Byte) /\ Len(Contents) = 0
    BY SizeAssumption, QueueIsSeq DEF Init, Contents
  <2>2. Contents = <<>>
    BY <2>1, EmptySeq
  <2> QED BY <2>2 DEF Init
<1>2. IInv /\ [Next]_vars => [AsFifo!FifoNext]_(AsFifo!fvars)
  <2> SUFFICES ASSUME IInv, [Next]_vars
               PROVE  [AsFifo!FifoNext]_(AsFifo!fvars)
    OBVIOUS
  <2> USE DEF IInv
  <2>1. ASSUME NEW data \in Seq(Byte), Len(data) <= write_count, Accept(data)
        PROVE  AsFifo!FifoNext
    <3>1. io' = [op |-> "write", data |-> data]
      BY <2>1 DEF Accept
    <3>2. Contents' = Contents \o data
      BY <2>1, AcceptAppends
    <3> QED BY <3>1, <3>2 DEF AsFifo!FifoNext, AsFifo!Put
  <2>2. ASSUME NEW n \in Nat, n <= read_count, Give(n)
        PROVE  AsFifo!FifoNext
    <3>1. io' = [op |-> "read", data |-> Peek(n)]
      BY <2>2 DEF Give
    <3>2. Contents = Peek(n) \o Contents'
      BY <2>2, GiveTakesFront
    <3> QED BY <3>1, <3>2 DEF AsFifo!FifoNext, AsFifo!Take
  <2>3. ASSUME NEW data \in Data, write_some(data) PROVE AsFifo!FifoNext
    <3> DEFINE n == Lesser(Len(data), write_count)
    <3>1. n \in 0 .. Len(data) /\ n <= write_count
      <4>1. Len(data) \in Nat BY SizeAssumption DEF Data
      <4> QED BY <4>1, Counts DEF Lesser
    <3>2. SubSeq(data, 1, n) \in Seq(Byte) /\ Len(SubSeq(data, 1, n)) = n
      BY <3>1, DataIsSeq
    <3>3. Accept(SubSeq(data, 1, n))
      BY <2>3 DEF write_some
    <3> HIDE DEF n
    <3> QED BY <2>1, <3>1, <3>2, <3>3
  <2>4. ASSUME NEW amount \in 0 .. MaxCount, read_some(amount) PROVE AsFifo!FifoNext
    <3> DEFINE n == Lesser(amount, read_count)
    <3>1. n \in Nat /\ n <= read_count
      BY SizeAssumption, Counts DEF Lesser
    <3>2. Give(n)
      BY <2>4 DEF read_some
    <3> HIDE DEF n
    <3> QED BY <2>2, <3>1, <3>2
  <2>5. CASE clear
    <3>1. impl \in [Index -> Byte] /\ impl' = impl /\ read_pos' = 0 /\ write_pos' = 0
      BY <2>5 DEF clear, TypeOK
    <3>2. Contents' \in Seq(Byte) /\ Len(Contents') = 0
      <4>1. Contents' = Queue(impl, 0, 0)
        BY <3>1 DEF Contents
      <4>2. Queue(impl, 0, 0) \in Seq(Byte) /\ Len(Queue(impl, 0, 0)) = 0
        BY <3>1, SizeAssumption, QueueIsSeq
      <4> QED BY <4>1, <4>2
    <3>3. Contents' = <<>>
      BY <3>2, EmptySeq
    <3> QED BY <2>5, <3>3 DEF clear, AsFifo!FifoNext, AsFifo!Drop
  <2>6. ASSUME NEW data \in Data, copy_from_round(data) PROVE AsFifo!FifoNext
    <3>1. data \in Seq(Byte) BY SizeAssumption DEF Data
    <3>2. Len(data) <= write_count /\ Accept(data) BY <2>6 DEF copy_from_round
    <3> QED BY <2>1, <3>1, <3>2
  <2>7. ASSUME NEW amount \in 0 .. Size, copy_to_round(amount) PROVE AsFifo!FifoNext
    <3>1. Give(amount) /\ amount \in 0 .. Lesser(read_count, copy.max_count)
      BY <2>7 DEF copy_to_round
    <3>2. amount \in Nat /\ amount <= read_count
      BY <3>1, Counts, SizeAssumption DEF Lesser, TypeOK
    <3> QED BY <2>2, <3>1, <3>2
  <2>8. ASSUME UNCHANGED <<impl, read_pos, write_pos, io>>
        PROVE  UNCHANGED AsFifo!fvars
    BY <2>8 DEF AsFifo!fvars, Contents
  <2>9. copy_from \/ copy_from_full \/ copy_to_done \/ UNCHANGED vars
           => UNCHANGED <<impl, read_pos, write_pos, io>>
    BY DEF copy_from, copy_from_full, copy_to_done, vars
  <2>10. ASSUME NEW max_count \in 0 .. MaxCount, copy_to(max_count)
         PROVE  UNCHANGED <<impl, read_pos, write_pos, io>>
    BY <2>10 DEF copy_to
  <2> QED BY <2>3, <2>4, <2>5, <2>6, <2>7, <2>8, <2>9, <2>10 DEF Next, Round
<1> QED BY SpecIInv, <1>1, <1>2, PTL DEF Spec, ImplementsFifo, AsFifo!FifoSpec

(***************************************************************************)
(* The socket.  S is a state of the objects and operations; what an owner  *)
(* or the event loop does is put together from operators on it.            *)
(***************************************************************************)
Impl == [owner : BOOLEAN, open : BOOLEAN, connected : BOOLEAN, asked_shutdown : BOOLEAN,
         pending_read : BOOLEAN, pending_write : BOOLEAN, pending_connect : BOOLEAN,
         ssl : BOOLEAN, shut : BOOLEAN, conn : Nat, incoming : Seq(Nat), outgoing : Seq(Nat)]
Operation ==
    {op \in [impl : SocketId, kind : {"connect", "handshake", "read", "write"}, conn : Nat,
             st : {"wait", "ok", "err", "abort"}, n : Int] :
        op.kind = "write" \/ op.st # "wait" => op.n \in Nat}
Sockets == [impls : [SocketId -> Impl], ops : SUBSET Operation, cur : SocketId]

\* One operation of a kind if the flag is set, none otherwise.
Flagged(S, i, kind, flag) ==
    /\ \A a, b \in S.ops : a.impl = i /\ b.impl = i /\ a.kind = kind /\ b.kind = kind => a = b
    /\ flag <=> \E op \in S.ops : op.impl = i /\ op.kind = kind

\* Bytes and transfers of an object are those of its connection.
Tagged(S, i) ==
    /\ \A k \in 1 .. Len(S.impls[i].incoming) : S.impls[i].incoming[k] = S.impls[i].conn
    /\ \A k \in 1 .. Len(S.impls[i].outgoing) : S.impls[i].outgoing[k] = S.impls[i].conn
    /\ \A op \in S.ops : op.impl = i /\ op.kind \in {"read", "write"} => op.conn = S.impls[i].conn

\* The object in use has no aborted transfer and is shut down only when that was
\* asked for and everything is sent; any other with an operation is detached.
Attached(S, i) ==
    IF i = S.cur
    THEN /\ S.impls[i].owner
         /\ \A op \in S.ops : op.impl = i /\ op.kind \in {"read", "write"} => op.st # "abort"
         /\ S.impls[i].shut => S.impls[i].outgoing = <<>> /\ S.impls[i].asked_shutdown
    ELSE \A op \in S.ops : op.impl = i => ~S.impls[i].owner

\* One connection attempt or its handshake, and an attempt has its flag as well.
Attempted(S, i) ==
    \A a \in S.ops : a.impl = i /\ a.kind \in {"connect", "handshake"} =>
        /\ a.kind = "connect" => S.impls[i].pending_connect
        /\ \A b \in S.ops : b.impl = i /\ b.kind \in {"connect", "handshake"} => a = b

ObjectOK(S, i) ==
    /\ Flagged(S, i, "read", S.impls[i].pending_read)
    /\ Flagged(S, i, "write", S.impls[i].pending_write)
    /\ Tagged(S, i)
    /\ Attached(S, i)
    /\ Attempted(S, i)

Sane(S) == S \in Sockets /\ \A i \in SocketId : ObjectOK(S, i)

\* Armed and ShutdownAfterData, of a state
Ready(S) ==
    LET r == S.impls[S.cur] IN
    r.connected =>
        /\ Len(r.incoming) < SocketSize /\ ~r.asked_shutdown => r.pending_read
        /\ r.outgoing # <<>> => r.pending_write
        /\ r.asked_shutdown => r.shut \/ r.pending_write

\* A new Impl has its types.
LEMMA FreshTyped == So!Fresh \in Impl
  BY DEF So!Fresh, Impl

\* The operations of a sane state belong to their objects.
LEMMA NeverStale ==
  ASSUME NEW S \in Sockets
  PROVE  ~So!Stale(S) /\ \A op \in S.ops : op.st # "stale"
  BY DEF Sockets, Operation, So!Stale

\* S with another object r, and with another operation.
Put(S, i, r) == [S EXCEPT !.impls = [S.impls EXCEPT ![i] = r]]

Placed(S, T, i, r) ==
    /\ T \in Sockets
    /\ T = [impls |-> [S.impls EXCEPT ![i] = r], ops |-> S.ops, cur |-> S.cur]
    /\ T.impls = [S.impls EXCEPT ![i] = r]
    /\ T.impls[i] = r
    /\ \A j \in SocketId : j # i => T.impls[j] = S.impls[j]
    /\ T.ops = S.ops /\ T.cur = S.cur

\* What Put changes and what it leaves.
LEMMA PutIs ==
  ASSUME NEW S \in Sockets, NEW i \in SocketId, NEW r \in Impl
  PROVE  Placed(S, Put(S, i, r), i, r)
  BY DEF Put, Sockets, Placed

OpAdded(S, T, i, kind, n) ==
    T = [impls |-> S.impls,
         ops |-> S.ops \cup {[impl |-> i, kind |-> kind, conn |-> S.impls[i].conn,
                              st |-> "wait", n |-> n]},
         cur |-> S.cur]

\* WithOp adds one operation, of the connection of its object.
LEMMA WithOpIs ==
  ASSUME NEW S \in Sockets, NEW i \in SocketId, NEW kind, NEW n
  PROVE  OpAdded(S, So!WithOp(S, i, kind, n), i, kind, n)
  BY DEF So!WithOp, So!Op, Sockets, OpAdded

\* Two objects that differ in the flags of transfers and the shutdown at most.
Alike(r, q) ==
    /\ q.owner = r.owner /\ q.open = r.open /\ q.connected = r.connected
    /\ q.asked_shutdown = r.asked_shutdown /\ q.pending_connect = r.pending_connect
    /\ q.ssl = r.ssl /\ q.conn = r.conn /\ q.incoming = r.incoming /\ q.outgoing = r.outgoing

\* Setting pending_read, and nothing else of the object.
LEMMA PendingRead ==
  ASSUME NEW r \in Impl
  PROVE  LET q == [r EXCEPT !.pending_read = TRUE] IN
         /\ q \in Impl /\ q.pending_read /\ Alike(r, q)
         /\ q.pending_write = r.pending_write /\ q.shut = r.shut
  BY DEF Impl, Alike

\* One object changes, and its operations.
LEMMA OthersAlone ==
  ASSUME NEW S, Sane(S), NEW i \in SocketId, NEW r \in Impl, NEW ops \in SUBSET Operation,
         \A op \in ops \cup S.ops : op.impl # i => (op \in ops <=> op \in S.ops),
         NEW T, T = [impls |-> [S.impls EXCEPT ![i] = r], ops |-> ops, cur |-> S.cur],
         ObjectOK(T, i)
  PROVE  Sane(T)
  <1>1. S \in Sockets
    BY DEF Sane
  <1>2. T \in Sockets
    BY <1>1 DEF Sockets
  <1>3. ASSUME NEW j \in SocketId, j # i
        PROVE  ObjectOK(T, j)
    <2>1. T.impls[j] = S.impls[j] /\ T.cur = S.cur /\ T.ops = ops
      BY <1>1, <1>3 DEF Sockets
    <2>2. \A op : op.impl = j => (op \in T.ops <=> op \in S.ops)
      BY <2>1, <1>3
    <2>3. ObjectOK(S, j)
      BY DEF Sane
    <2>4. Flagged(T, j, "read", T.impls[j].pending_read) /\ Flagged(T, j, "write", T.impls[j].pending_write)
      BY <2>1, <2>2, <2>3 DEF ObjectOK, Flagged
    <2>5. Tagged(T, j)
      BY <2>1, <2>2, <2>3 DEF ObjectOK, Tagged
    <2>6. Attached(T, j)
      BY <2>1, <2>2, <2>3 DEF ObjectOK, Attached
    <2>7. Attempted(T, j)
      BY <2>1, <2>2, <2>3 DEF ObjectOK, Attempted
    <2> QED
      BY <2>4, <2>5, <2>6, <2>7 DEF ObjectOK
  <1> QED
    BY <1>2, <1>3 DEF Sane

\* A read is started or not; nothing else changes.
ReadStarted(S, T, i) ==
    /\ Sane(T) /\ T.cur = S.cur
    /\ \A j \in SocketId : j # i => T.impls[j] = S.impls[j]
    /\ Alike(S.impls[i], T.impls[i])
    /\ T.impls[i].pending_write = S.impls[i].pending_write /\ T.impls[i].shut = S.impls[i].shut
    /\ S.impls[i].pending_read => T.impls[i].pending_read
    /\ S.impls[i].connected /\ S.impls[i].owner /\ Len(S.impls[i].incoming) < SocketSize =>
         T.impls[i].pending_read
    /\ ~(S.impls[i].connected /\ S.impls[i].owner) => T = S

\* start_read keeps the objects sane and leaves a read pending if there is room
\* and no shutdown was asked for: of the object in use or of a detached one.
LEMMA StartRead ==
  ASSUME NEW S, Sane(S), NEW i \in SocketId,
         i # S.cur => ~S.impls[i].owner
  PROVE  ReadStarted(S, So!start_read(S, i), i)
  <1> DEFINE T == So!start_read(S, i)
  <1>0. PICK r : r = S.impls[i]
    OBVIOUS
  <1>1. S \in Sockets /\ r \in Impl /\ ObjectOK(S, i)
    BY <1>0 DEF Sane, Sockets
  <1>2. CASE Len(r.incoming) = SocketSize \/ r.pending_read \/ ~r.connected \/ ~r.owner
    <2>1. T = S
      BY <1>0, <1>2 DEF So!start_read
    <2> QED
      BY <1>0, <1>1, <1>2, <2>1 DEF ReadStarted, Alike
  <1>3. CASE ~(Len(r.incoming) = SocketSize \/ r.pending_read \/ ~r.connected \/ ~r.owner)
    <2>1. PICK q : q = [r EXCEPT !.pending_read = TRUE]
      OBVIOUS
    <2>2. PICK op : op = [impl |-> i, kind |-> "read", conn |-> r.conn, st |-> "wait",
                          n |-> SocketSize - Len(r.incoming)]
      OBVIOUS
    <2>3. /\ q \in Impl /\ q.pending_read /\ Alike(r, q)
          /\ q.pending_write = r.pending_write /\ q.shut = r.shut
      BY <1>1, <2>1, PendingRead, Zenon
    <2>4. op \in Operation /\ op.impl = i /\ op.kind = "read" /\ op.conn = r.conn /\ op.st = "wait"
      BY <1>1, <2>2, NetAssumption, LenProperties DEF Impl, Operation
    <2>5. T = [impls |-> [S.impls EXCEPT ![i] = q], ops |-> S.ops \cup {op}, cur |-> S.cur]
      <3>1. [S EXCEPT !.impls[i].pending_read = TRUE]
              = Put(S, i, [S.impls[i] EXCEPT !.pending_read = TRUE])
        BY Zenon DEF Put
      <3>2. T = So!WithOp(Put(S, i, q), i, "read", SocketSize - Len(r.incoming))
        BY <1>0, <1>3, <2>1, <3>1 DEF So!start_read
      <3>3. Put(S, i, q) \in Sockets /\ Put(S, i, q).impls[i] = q
            /\ Put(S, i, q).impls = [S.impls EXCEPT ![i] = q]
            /\ Put(S, i, q).ops = S.ops /\ Put(S, i, q).cur = S.cur
        BY <1>1, <2>3, PutIs DEF Placed
      <3>4. OpAdded(Put(S, i, q), T, i, "read", SocketSize - Len(r.incoming))
        BY <3>2, <3>3, WithOpIs
      <3>5. Put(S, i, q).impls[i].conn = r.conn
        BY <2>3, <3>3 DEF Alike
      <3>6. T = [impls |-> Put(S, i, q).impls, ops |-> Put(S, i, q).ops \cup {op},
                 cur |-> Put(S, i, q).cur]
        BY <2>2, <3>4, <3>5, Zenon DEF OpAdded
      <3> QED
        BY <3>3, <3>6, Zenon
    <2>6. T.impls[i] = q /\ T.cur = S.cur /\ T.ops = S.ops \cup {op}
      BY <1>1, <2>5 DEF Sockets
    <2> HIDE DEF T
    <2>7. \A o \in S.ops : ~(o.impl = i /\ o.kind = "read")
      BY <1>0, <1>1, <1>3 DEF ObjectOK, Flagged
    <2>8. Flagged(T, i, "read", T.impls[i].pending_read)
      BY <2>3, <2>4, <2>6, <2>7 DEF Flagged
    <2>9. Flagged(T, i, "write", T.impls[i].pending_write)
      BY <1>0, <1>1, <2>3, <2>4, <2>6 DEF Flagged, ObjectOK, Alike
    <2>10. Tagged(T, i)
      BY <1>0, <1>1, <2>3, <2>4, <2>6 DEF Tagged, ObjectOK, Alike
    <2>11. Attached(T, i)
      BY <1>0, <1>1, <1>3, <2>3, <2>4, <2>6 DEF Attached, ObjectOK, Alike
    <2>12. Attempted(T, i)
      BY <1>0, <1>1, <2>3, <2>4, <2>6 DEF Attempted, ObjectOK, Alike
    <2>13. ObjectOK(T, i)
      BY <2>8, <2>9, <2>10, <2>11, <2>12 DEF ObjectOK
    <2>14. Sane(T)
      BY <1>1, <2>3, <2>4, <2>5, <2>13, OthersAlone DEF Sockets
    <2>15. \A j \in SocketId : j # i => T.impls[j] = S.impls[j]
      BY <1>1, <2>5 DEF Sockets
    <2>16. ReadStarted(S, T, i)
      BY <1>0, <1>3, <2>3, <2>6, <2>14, <2>15, Zenon DEF ReadStarted
    <2> QED
      BY <2>16 DEF T
  <1> QED
    BY <1>2, <1>3

\* A write is started, or the shutdown that waited for the last one, or nothing.
WriteStarted(S, T, i) ==
    /\ Sane(T) /\ T.cur = S.cur
    /\ \A j \in SocketId : j # i => T.impls[j] = S.impls[j]
    /\ Alike(S.impls[i], T.impls[i])
    /\ T.impls[i].pending_read = S.impls[i].pending_read
    /\ S.impls[i].connected /\ S.impls[i].owner =>
         /\ S.impls[i].outgoing # <<>> => T.impls[i].pending_write
         /\ S.impls[i].asked_shutdown => T.impls[i].shut \/ T.impls[i].pending_write
    /\ ~(S.impls[i].connected /\ S.impls[i].owner) => T = S

\* Setting pending_write, and nothing else of the object.
LEMMA PendingWrite ==
  ASSUME NEW r \in Impl
  PROVE  LET q == [r EXCEPT !.pending_write = TRUE] IN
         /\ q \in Impl /\ q.pending_write /\ Alike(r, q)
         /\ q.pending_read = r.pending_read /\ q.shut = r.shut
  BY DEF Impl, Alike

\* The shutdown of an object, and nothing else of it.
LEMMA Shut ==
  ASSUME NEW r \in Impl
  PROVE  LET q == [r EXCEPT !.shut = TRUE] IN
         /\ q \in Impl /\ q.shut /\ Alike(r, q)
         /\ q.pending_read = r.pending_read /\ q.pending_write = r.pending_write
  BY DEF Impl, Alike

\* start_shutdown of an object with nothing left to send, when it was asked for.
LEMMA StartShutdown ==
  ASSUME NEW S, Sane(S), NEW i \in SocketId,
         S.impls[i].asked_shutdown, S.impls[i].outgoing = <<>>,
         NEW T, T = So!start_shutdown(S, i)
  PROVE  /\ Sane(T) /\ T.cur = S.cur /\ T.ops = S.ops
         /\ \A j \in SocketId : j # i => T.impls[j] = S.impls[j]
         /\ Alike(S.impls[i], T.impls[i]) /\ T.impls[i].shut
         /\ T.impls[i].pending_read = S.impls[i].pending_read
         /\ T.impls[i].pending_write = S.impls[i].pending_write
  <1>0. PICK r : r = S.impls[i]
    OBVIOUS
  <1>1. S \in Sockets /\ r \in Impl /\ ObjectOK(S, i)
    BY <1>0 DEF Sane, Sockets
  <1>2. PICK q : q = [r EXCEPT !.shut = TRUE]
    OBVIOUS
  <1>3. /\ q \in Impl /\ q.shut /\ Alike(r, q)
        /\ q.pending_read = r.pending_read /\ q.pending_write = r.pending_write
    BY <1>1, <1>2, Shut, Zenon
  <1>4. T = Put(S, i, q)
    <2>1. [S EXCEPT !.impls[i].shut = TRUE] = Put(S, i, [S.impls[i] EXCEPT !.shut = TRUE])
      BY Zenon DEF Put
    <2> QED
      BY <1>0, <1>2, <2>1, Zenon DEF So!start_shutdown
  <1>5. T = [impls |-> [S.impls EXCEPT ![i] = q], ops |-> S.ops, cur |-> S.cur]
        /\ T.impls[i] = q /\ T.cur = S.cur /\ T.ops = S.ops
        /\ \A j \in SocketId : j # i => T.impls[j] = S.impls[j]
    <2>1. Placed(S, T, i, q)
      BY <1>1, <1>3, <1>4, PutIs
    <2> QED
      BY <2>1 DEF Placed
  <1>6. Flagged(T, i, "read", T.impls[i].pending_read) /\ Flagged(T, i, "write", T.impls[i].pending_write)
    BY <1>0, <1>1, <1>3, <1>5 DEF Flagged, ObjectOK
  <1>7. Tagged(T, i)
    BY <1>0, <1>1, <1>3, <1>5 DEF Tagged, ObjectOK, Alike
  <1>8. Attached(T, i)
    BY <1>0, <1>1, <1>3, <1>5 DEF Attached, ObjectOK, Alike
  <1>9. Attempted(T, i)
    BY <1>0, <1>1, <1>3, <1>5 DEF Attempted, ObjectOK, Alike
  <1>10. ObjectOK(T, i)
    BY <1>6, <1>7, <1>8, <1>9 DEF ObjectOK
  <1>11. S.ops \in SUBSET Operation
    BY <1>1 DEF Sockets
  <1>12. Sane(T)
    BY <1>3, <1>5, <1>10, <1>11, OthersAlone
  <1> QED
    BY <1>0, <1>3, <1>5, <1>12

\* start_write leaves a write pending if there are bytes, and shuts down if there
\* are none and that was asked for.
LEMMA StartWrite ==
  ASSUME NEW S, Sane(S), NEW i \in SocketId,
         i # S.cur => ~S.impls[i].owner
  PROVE  WriteStarted(S, So!start_write(S, i), i)
  <1> DEFINE T == So!start_write(S, i)
  <1>0. PICK r : r = S.impls[i]
    OBVIOUS
  <1>1. S \in Sockets /\ r \in Impl /\ ObjectOK(S, i)
    BY <1>0 DEF Sane, Sockets
  <1>2. CASE r.pending_write \/ ~r.connected \/ ~r.owner \/ (r.outgoing = <<>> /\ ~r.asked_shutdown)
    <2>1. T = S
      BY <1>0, <1>2 DEF So!start_write
    <2> QED
      BY <1>0, <1>1, <1>2, <2>1 DEF WriteStarted, Alike
  <1>3. CASE ~r.pending_write /\ r.connected /\ r.owner /\ r.outgoing = <<>> /\ r.asked_shutdown
    <2>1. T = So!start_shutdown(S, i)
      BY <1>0, <1>3 DEF So!start_write
    <2>2. /\ Sane(T) /\ T.cur = S.cur /\ T.ops = S.ops
          /\ \A j \in SocketId : j # i => T.impls[j] = S.impls[j]
          /\ Alike(S.impls[i], T.impls[i]) /\ T.impls[i].shut
          /\ T.impls[i].pending_read = S.impls[i].pending_read
          /\ T.impls[i].pending_write = S.impls[i].pending_write
      BY <1>0, <1>3, <2>1, StartShutdown
    <2> QED
      BY <1>0, <1>3, <2>2, Zenon DEF WriteStarted
  <1>4. CASE ~r.pending_write /\ r.connected /\ r.owner /\ r.outgoing # <<>>
    <2>1. PICK q : q = [r EXCEPT !.pending_write = TRUE]
      OBVIOUS
    <2>2. PICK op : op = [impl |-> i, kind |-> "write", conn |-> r.conn, st |-> "wait",
                          n |-> Len(r.outgoing)]
      OBVIOUS
    <2>3. /\ q \in Impl /\ q.pending_write /\ Alike(r, q)
          /\ q.pending_read = r.pending_read /\ q.shut = r.shut
      BY <1>1, <2>1, PendingWrite, Zenon
    <2>4. op \in Operation /\ op.impl = i /\ op.kind = "write" /\ op.conn = r.conn /\ op.st = "wait"
      BY <1>1, <2>2, LenProperties DEF Impl, Operation
    <2>5. T = [impls |-> [S.impls EXCEPT ![i] = q], ops |-> S.ops \cup {op}, cur |-> S.cur]
      <3>1. [S EXCEPT !.impls[i].pending_write = TRUE]
              = Put(S, i, [S.impls[i] EXCEPT !.pending_write = TRUE])
        BY Zenon DEF Put
      <3>2. T = So!WithOp(Put(S, i, q), i, "write", Len(r.outgoing))
        BY <1>0, <1>4, <2>1, <3>1 DEF So!start_write
      <3>3. Put(S, i, q) \in Sockets /\ Put(S, i, q).impls[i] = q
            /\ Put(S, i, q).impls = [S.impls EXCEPT ![i] = q]
            /\ Put(S, i, q).ops = S.ops /\ Put(S, i, q).cur = S.cur
        BY <1>1, <2>3, PutIs DEF Placed
      <3>4. OpAdded(Put(S, i, q), T, i, "write", Len(r.outgoing))
        BY <3>2, <3>3, WithOpIs
      <3>5. Put(S, i, q).impls[i].conn = r.conn
        BY <2>3, <3>3 DEF Alike
      <3>6. T = [impls |-> Put(S, i, q).impls, ops |-> Put(S, i, q).ops \cup {op},
                 cur |-> Put(S, i, q).cur]
        BY <2>2, <3>4, <3>5, Zenon DEF OpAdded
      <3> QED
        BY <3>3, <3>6, Zenon
    <2>6. T.impls[i] = q /\ T.cur = S.cur /\ T.ops = S.ops \cup {op}
      BY <1>1, <2>5 DEF Sockets
    <2> HIDE DEF T
    <2>7. \A o \in S.ops : ~(o.impl = i /\ o.kind = "write")
      BY <1>0, <1>1, <1>4 DEF ObjectOK, Flagged
    <2>8. Flagged(T, i, "write", T.impls[i].pending_write)
      BY <2>3, <2>4, <2>6, <2>7 DEF Flagged
    <2>9. Flagged(T, i, "read", T.impls[i].pending_read)
      BY <1>0, <1>1, <2>3, <2>4, <2>6 DEF Flagged, ObjectOK
    <2>10. Tagged(T, i)
      BY <1>0, <1>1, <2>3, <2>4, <2>6 DEF Tagged, ObjectOK, Alike
    <2>11. Attached(T, i)
      BY <1>0, <1>1, <1>4, <2>3, <2>4, <2>6 DEF Attached, ObjectOK, Alike
    <2>12. Attempted(T, i)
      BY <1>0, <1>1, <2>3, <2>4, <2>6 DEF Attempted, ObjectOK, Alike
    <2>13. ObjectOK(T, i)
      BY <2>8, <2>9, <2>10, <2>11, <2>12 DEF ObjectOK
    <2>14. Sane(T)
      BY <1>1, <2>3, <2>4, <2>5, <2>13, OthersAlone DEF Sockets
    <2>15. \A j \in SocketId : j # i => T.impls[j] = S.impls[j]
      BY <1>1, <2>5 DEF Sockets
    <2>16. WriteStarted(S, T, i)
      BY <1>0, <1>4, <2>3, <2>6, <2>14, <2>15, Zenon DEF WriteStarted
    <2> QED
      BY <2>16 DEF T
  <1> QED
    BY <1>1, <1>2, <1>3, <1>4 DEF Impl

(***************************************************************************)
(* close                                                                   *)
(***************************************************************************)
\* The object is not in a handshake, whose operation would outlive it.
NoHandshake(S, i) == \A op \in S.ops : op.impl = i => op.kind # "handshake"

Shaped(S) == S = [impls |-> S.impls, ops |-> S.ops, cur |-> S.cur]

\* Another object in it leaves the operations of a state.
LEMMA PutShaped ==
  ASSUME NEW S, Shaped(S), NEW i, NEW r
  PROVE  Shaped(Put(S, i, r)) /\ Put(S, i, r).ops = S.ops
  BY DEF Shaped, Put

\* What is started is added to the operations.
LEMMA StartsMore ==
  ASSUME NEW S, Shaped(S), NEW i, NEW kind, NEW n
  PROVE  /\ S.ops \subseteq So!WithOp(S, i, kind, n).ops
         /\ S.ops \subseteq So!start_handshake(S, i).ops
         /\ S.ops \subseteq So!start_read(S, i).ops
  <1>1. ASSUME NEW U, Shaped(U), NEW k, NEW m
        PROVE  U.ops \subseteq So!WithOp(U, i, k, m).ops
    BY <1>1 DEF Shaped, So!WithOp
  <1>2. S.ops \subseteq So!start_handshake(S, i).ops
    BY <1>1 DEF Shaped, So!start_handshake
  <1>3. S.ops \subseteq So!start_read(S, i).ops
    <2>1. PICK U : U = [S EXCEPT !.impls[i].pending_read = TRUE]
      OBVIOUS
    <2>2. U = Put(S, i, [S.impls[i] EXCEPT !.pending_read = TRUE])
      BY <2>1, Zenon DEF Put
    <2>3. Shaped(U) /\ U.ops = S.ops
      BY <2>2, PutShaped
    <2>4. \/ So!start_read(S, i) = S
          \/ So!start_read(S, i) = So!WithOp(U, i, "read", SocketSize - Len(S.impls[i].incoming))
      BY <2>1, Zenon DEF So!start_read
    <2> QED
      BY <1>1, <2>3, <2>4
  <1> QED
    BY <1>1, <1>2, <1>3

\* A socket that is closed during a handshake is torn from it.
LEMMA CloseTears ==
  ASSUME NEW S \in Sockets, NEW i \in SocketId, NEW T, T = So!close(S, i)
  PROVE  Shaped(T) /\ (~So!Stale(T) => NoHandshake(S, i))
  <1>1. Shaped(T) /\ T.ops = So!Aborted(S, i)
    <2>1. Shaped(S)
      BY DEF Sockets, Shaped
    <2>2. ASSUME NEW a, NEW f, NEW c
          PROVE  /\ [S EXCEPT !.ops = a, !.impls = f] = [impls |-> f, ops |-> a, cur |-> S.cur]
                 /\ [S EXCEPT !.ops = a, !.cur = c, !.impls = f] = [impls |-> f, ops |-> a, cur |-> c]
      <3>1. PICK x, y, z : S = [impls |-> x, ops |-> y, cur |-> z]
        BY <2>1 DEF Shaped
      <3>2. S.cur = z
        BY <3>1
      <3>3. PICK p : p = [S EXCEPT !.ops = a]
        OBVIOUS
      <3>4. p = [impls |-> x, ops |-> a, cur |-> z]
        BY <3>1, <3>3
      <3>5. [p EXCEPT !.impls = f] = [impls |-> f, ops |-> a, cur |-> z]
        BY <3>4
      <3>6. PICK q : q = [p EXCEPT !.cur = c]
        OBVIOUS
      <3>7. q = [impls |-> x, ops |-> a, cur |-> c]
        BY <3>4, <3>6
      <3>8. [q EXCEPT !.impls = f] = [impls |-> f, ops |-> a, cur |-> c]
        BY <3>7
      <3> QED
        BY <3>2, <3>3, <3>5, <3>6, <3>8, Zenon
    <2>3. \E f, c : \/ T = [S EXCEPT !.ops = So!Aborted(S, i), !.impls = f]
                   \/ T = [S EXCEPT !.ops = So!Aborted(S, i), !.cur = c, !.impls = f]
      <3>1. CASE So!Pending(S.impls[i]) /\ S.impls[i].owner
        BY <3>1, Zenon DEF So!close
      <3>2. CASE So!Pending(S.impls[i]) /\ ~S.impls[i].owner
        <4>1. T = [S EXCEPT !.ops = So!Aborted(S, i), !.impls[i].open = FALSE]
          BY <3>2, Zenon DEF So!close
        <4>2. PICK f : f = [S.impls EXCEPT ![i] = [S.impls[i] EXCEPT !.open = FALSE]]
          OBVIOUS
        <4>3. T = [S EXCEPT !.ops = So!Aborted(S, i), !.impls = f]
          BY <2>1, <4>1, <4>2 DEF Shaped
        <4> QED
          BY <4>3
      <3>3. CASE ~So!Pending(S.impls[i])
        <4>1. PICK q : q = [So!Fresh EXCEPT !.owner = S.impls[i].owner]
          OBVIOUS
        <4>2. T = [S EXCEPT !.ops = So!Aborted(S, i), !.impls[i] = q]
          BY <3>3, <4>1, Zenon DEF So!close
        <4>3. PICK f : f = [S.impls EXCEPT ![i] = q]
          OBVIOUS
        <4>4. T = [S EXCEPT !.ops = So!Aborted(S, i), !.impls = f]
          BY <2>1, <4>2, <4>3 DEF Shaped
        <4> QED
          BY <4>4
      <3> QED
        BY <3>1, <3>2, <3>3
    <2>4. \E f, c : T = [impls |-> f, ops |-> So!Aborted(S, i), cur |-> c]
      BY <2>2, <2>3
    <2> QED
      BY <2>4 DEF Shaped
  <1>2. ASSUME NEW op \in S.ops, op.impl = i, op.kind = "handshake"
        PROVE  So!Stale(T)
    <2>1. PICK p1 : p1 = [op EXCEPT !.st = "stale"]
      OBVIOUS
    <2>2. PICK p : p = [p1 EXCEPT !.n = 0]
      OBVIOUS
    <2>3. p.st = "stale"
      BY <2>1, <2>2 DEF Sockets, Operation
    <2>4. p = [op EXCEPT !.st = "stale", !.n = 0]
      BY <2>1, <2>2, Zenon
    <2>5. p \in So!Aborted(S, i)
      BY <1>2, <2>4, Zenon DEF So!Aborted
    <2> QED
      BY <1>1, <2>3, <2>5 DEF So!Stale
  <1> QED
    BY <1>1, <1>2 DEF NoHandshake

Abort(i, op) == IF op.impl = i /\ op.st = "wait" THEN [op EXCEPT !.st = "abort", !.n = 0] ELSE op

\* An aborted operation is the same one with another outcome, and only those of
\* the one object are aborted.
LEMMA AbortIs ==
  ASSUME NEW i \in SocketId, NEW op \in Operation
  PROVE  /\ Abort(i, op) \in Operation
         /\ Abort(i, op).impl = op.impl /\ Abort(i, op).kind = op.kind /\ Abort(i, op).conn = op.conn
         /\ op.impl # i => Abort(i, op) = op
  <1>1. PICK p : p = [op EXCEPT !.st = "abort"]
    OBVIOUS
  <1>2. p \in [impl : SocketId, kind : {"connect", "handshake", "read", "write"}, conn : Nat,
               st : {"wait", "ok", "err", "abort"}, n : Int]
        /\ p.impl = op.impl /\ p.kind = op.kind /\ p.conn = op.conn /\ p.st = "abort"
    BY <1>1 DEF Operation
  <1>3. PICK q : q = [p EXCEPT !.n = 0]
    OBVIOUS
  <1>4. q \in Operation /\ q.impl = p.impl /\ q.kind = p.kind /\ q.conn = p.conn
    BY <1>2, <1>3 DEF Operation
  <1>5. [op EXCEPT !.st = "abort", !.n = 0] = q
    BY <1>1, <1>3, Zenon
  <1> QED
    BY <1>2, <1>4, <1>5 DEF Abort

\* The operations of T are those of S, those of i aborted.
Stopped(S, T, i) ==
    /\ T.ops \in SUBSET Operation
    /\ \A op \in T.ops \cup S.ops : op.impl # i => (op \in T.ops <=> op \in S.ops)
    /\ \A a \in T.ops : \E b \in S.ops : a = Abort(i, b)
    /\ \A b \in S.ops : Abort(i, b) \in T.ops

\* What closing the descriptor does to the operations.
LEMMA AbortedIs ==
  ASSUME NEW S \in Sockets, NEW i \in SocketId, NoHandshake(S, i),
         NEW T, T.ops = So!Aborted(S, i)
  PROVE  Stopped(S, T, i)
  <1>1. S.ops \in SUBSET Operation
    BY DEF Sockets
  <1>2. T.ops = {Abort(i, op) : op \in S.ops}
    BY DEF So!Aborted, Abort, NoHandshake
  <1> QED
    BY <1>1, <1>2, AbortIs DEF Stopped

\* Aborting neither adds nor removes an operation, so the flags still match.
LEMMA StoppedKeeps ==
  ASSUME NEW S \in Sockets, NEW T, NEW i \in SocketId, Stopped(S, T, i), ObjectOK(S, i),
         T.impls[i].pending_read = S.impls[i].pending_read,
         T.impls[i].pending_write = S.impls[i].pending_write
  PROVE  /\ Flagged(T, i, "read", T.impls[i].pending_read)
         /\ Flagged(T, i, "write", T.impls[i].pending_write)
         /\ T.impls[i].conn = S.impls[i].conn =>
              \A op \in T.ops : op.impl = i /\ op.kind \in {"read", "write"} => op.conn = T.impls[i].conn
         /\ T.impls[i].pending_connect = S.impls[i].pending_connect =>
              Attempted(T, i)
  <1>1. \A b \in S.ops : /\ Abort(i, b).impl = b.impl /\ Abort(i, b).kind = b.kind
                         /\ Abort(i, b).conn = b.conn
    BY AbortIs DEF Sockets
  <1>2. \A a \in T.ops : \E b \in S.ops :
          a = Abort(i, b) /\ a.impl = b.impl /\ a.kind = b.kind /\ a.conn = b.conn
    BY <1>1 DEF Stopped
  <1>3. ASSUME NEW kind, NEW flag, Flagged(S, i, kind, flag)
        PROVE  Flagged(T, i, kind, flag)
    <2>1. \A a, b \in T.ops : a.impl = i /\ b.impl = i /\ a.kind = kind /\ b.kind = kind => a = b
      BY <1>2, <1>3 DEF Flagged
    <2>2. flag => \E op \in T.ops : op.impl = i /\ op.kind = kind
      BY <1>1, <1>3 DEF Flagged, Stopped
    <2>3. (\E op \in T.ops : op.impl = i /\ op.kind = kind) => flag
      BY <1>2, <1>3 DEF Flagged
    <2> QED
      BY <2>1, <2>2, <2>3 DEF Flagged
  <1>4. Flagged(T, i, "read", T.impls[i].pending_read) /\ Flagged(T, i, "write", T.impls[i].pending_write)
    BY <1>3 DEF ObjectOK
  <1>5. T.impls[i].conn = S.impls[i].conn =>
          \A op \in T.ops : op.impl = i /\ op.kind \in {"read", "write"} => op.conn = T.impls[i].conn
    BY <1>2 DEF ObjectOK, Tagged
  <1>6. T.impls[i].pending_connect = S.impls[i].pending_connect =>
          Attempted(T, i)
    BY <1>2 DEF ObjectOK, Attempted
  <1> QED
    BY <1>4, <1>5, <1>6

\* An object with nothing in its buffers and no flag of a connection.
Empty(q) ==
    /\ q \in Impl /\ q.incoming = <<>> /\ q.outgoing = <<>>
    /\ ~q.connected /\ ~q.asked_shutdown /\ ~q.shut

\* A new object is empty, its owner has it, and nothing is pending.
LEMMA FreshIs ==
  LET q == So!Fresh IN
  /\ Empty(q) /\ q.owner
  /\ ~q.pending_read /\ ~q.pending_write /\ ~q.pending_connect
  BY DEF So!Fresh, Impl, Empty

\* An object with another flag.
LEMMA WithOwner ==
  ASSUME NEW r \in Impl, NEW b \in BOOLEAN
  PROVE  LET q == [r EXCEPT !.owner = b] IN
         /\ Empty(r) => Empty(q)
         /\ q \in Impl /\ q.owner = b /\ q.conn = r.conn
         /\ q.pending_read = r.pending_read /\ q.pending_write = r.pending_write
         /\ q.pending_connect = r.pending_connect
  BY DEF Impl, Empty

\* The fields of an empty object, each set alone: pending_read,
LEMMA WithRead ==
  ASSUME NEW r, Empty(r), NEW b \in BOOLEAN
  PROVE  LET q == [r EXCEPT !.pending_read = b] IN
         /\ Empty(q) /\ q.owner = r.owner /\ q.conn = r.conn /\ q.pending_read = b
         /\ q.pending_write = r.pending_write /\ q.pending_connect = r.pending_connect
  BY DEF Impl, Empty

\* pending_write,
LEMMA WithWrite ==
  ASSUME NEW r, Empty(r), NEW b \in BOOLEAN
  PROVE  LET q == [r EXCEPT !.pending_write = b] IN
         /\ Empty(q) /\ q.owner = r.owner /\ q.conn = r.conn /\ q.pending_write = b
         /\ q.pending_read = r.pending_read /\ q.pending_connect = r.pending_connect
  BY DEF Impl, Empty

\* pending_connect
LEMMA WithConnect ==
  ASSUME NEW r, Empty(r), NEW b \in BOOLEAN
  PROVE  LET q == [r EXCEPT !.pending_connect = b] IN
         /\ Empty(q) /\ q.owner = r.owner /\ q.conn = r.conn /\ q.pending_connect = b
         /\ q.pending_read = r.pending_read /\ q.pending_write = r.pending_write
  BY DEF Impl, Empty

\* and the connection.
LEMMA WithConn ==
  ASSUME NEW r, Empty(r), NEW n \in Nat
  PROVE  LET q == [r EXCEPT !.conn = n] IN
         /\ Empty(q) /\ q.owner = r.owner /\ q.conn = n
         /\ q.pending_read = r.pending_read /\ q.pending_write = r.pending_write
         /\ q.pending_connect = r.pending_connect
  BY DEF Impl, Empty

\* A detached object is empty and without an owner; its flags stay, because its
\* operations do.
LEMMA DetachedIs ==
  ASSUME NEW r \in Impl, NEW q, q = So!Detached(r)
  PROVE  /\ Empty(q) /\ q.owner = FALSE /\ q.conn = r.conn
         /\ q.pending_read = r.pending_read /\ q.pending_write = r.pending_write
         /\ q.pending_connect = r.pending_connect
  <1>0. /\ r.pending_read \in BOOLEAN /\ r.pending_write \in BOOLEAN
        /\ r.pending_connect \in BOOLEAN /\ r.conn \in Nat
    BY DEF Impl
  <1>1. PICK q1 : q1 = [So!Fresh EXCEPT !.owner = FALSE]
    OBVIOUS
  <1>2. PICK q2 : q2 = [q1 EXCEPT !.pending_read = r.pending_read]
    OBVIOUS
  <1>3. PICK q3 : q3 = [q2 EXCEPT !.pending_write = r.pending_write]
    OBVIOUS
  <1>4. PICK q4 : q4 = [q3 EXCEPT !.pending_connect = r.pending_connect]
    OBVIOUS
  <1>5. PICK q5 : q5 = [q4 EXCEPT !.conn = r.conn]
    OBVIOUS
  <1>6. So!Fresh \in Impl /\ Empty(So!Fresh)
    BY FreshIs DEF Empty
  <1>7. Empty(q1) /\ q1.owner = FALSE
    BY <1>1, <1>6, WithOwner, Zenon
  <1>8. Empty(q2) /\ q2.owner = FALSE /\ q2.pending_read = r.pending_read
    BY <1>0, <1>2, <1>7, WithRead, Zenon
  <1>9. Empty(q3) /\ q3.owner = FALSE /\ q3.pending_read = r.pending_read
        /\ q3.pending_write = r.pending_write
    BY <1>0, <1>3, <1>8, WithWrite, Zenon
  <1>10. Empty(q4) /\ q4.owner = FALSE /\ q4.pending_read = r.pending_read
         /\ q4.pending_write = r.pending_write /\ q4.pending_connect = r.pending_connect
    BY <1>0, <1>4, <1>9, WithConnect, Zenon
  <1>11. Empty(q5) /\ q5.owner = FALSE /\ q5.pending_read = r.pending_read
         /\ q5.pending_write = r.pending_write /\ q5.pending_connect = r.pending_connect
         /\ q5.conn = r.conn
    BY <1>0, <1>5, <1>10, WithConn, Zenon
  <1>12. q = q5
    BY <1>1, <1>2, <1>3, <1>4, <1>5, Zenon DEF So!Detached
  <1> QED
    BY <1>11, <1>12

\* Closing the descriptor of an object, and nothing else of it.
LEMMA ClosedIs ==
  ASSUME NEW r \in Impl
  PROVE  LET q == [r EXCEPT !.open = FALSE] IN
         /\ q \in Impl /\ q.owner = r.owner /\ q.conn = r.conn
         /\ q.incoming = r.incoming /\ q.outgoing = r.outgoing
         /\ q.pending_read = r.pending_read /\ q.pending_write = r.pending_write
         /\ q.pending_connect = r.pending_connect
  BY DEF Impl

\* No bytes are bytes of any connection.
LEMMA EmptyTagged ==
  ASSUME NEW S, NEW i, Empty(S.impls[i])
  PROVE  /\ \A k \in 1 .. Len(S.impls[i].incoming) : S.impls[i].incoming[k] = S.impls[i].conn
         /\ \A k \in 1 .. Len(S.impls[i].outgoing) : S.impls[i].outgoing[k] = S.impls[i].conn
  <1>1. Len(<<>>) = 0
    OBVIOUS
  <1> QED
    BY <1>1 DEF Empty

\* The state after close(S, i) of an object that is not in use.
LEMMA CloseOther ==
  ASSUME NEW S, Sane(S), NEW i \in SocketId, i # S.cur, ~S.impls[i].owner, NoHandshake(S, i),
         NEW T, T = So!close(S, i)
  PROVE  /\ Sane(T) /\ T.cur = S.cur /\ T.impls[S.cur] = S.impls[S.cur]
         /\ T.impls[i].owner = FALSE
         /\ \A op \in T.ops : op.impl = S.cur => op \in S.ops
  <1>0. PICK r : r = S.impls[i]
    OBVIOUS
  <1>1. S \in Sockets /\ r \in Impl /\ ObjectOK(S, i) /\ r.owner = FALSE /\ S.cur \in SocketId
    BY <1>0 DEF Sane, Sockets, Impl
  <1>2. PICK q : q = IF So!Pending(r) THEN [r EXCEPT !.open = FALSE]
                     ELSE [So!Fresh EXCEPT !.owner = FALSE]
    OBVIOUS
  <1>3. T = [impls |-> [S.impls EXCEPT ![i] = q], ops |-> So!Aborted(S, i), cur |-> S.cur]
    <2>1. CASE So!Pending(r)
      <3>1. T = [S EXCEPT !.ops = So!Aborted(S, i), !.impls[i].open = FALSE]
        BY <1>0, <1>1, <2>1, Zenon DEF So!close
      <3>2. T = [[S EXCEPT !.ops = So!Aborted(S, i)] EXCEPT !.impls =
                   [S.impls EXCEPT ![i] = [S.impls[i] EXCEPT !.open = FALSE]]]
        BY <3>1, <1>1, Zenon DEF Sockets
      <3> QED
        BY <1>0, <1>1, <1>2, <2>1, <3>2 DEF Sockets
    <2>2. CASE ~So!Pending(r)
      <3>1. T = [S EXCEPT !.ops = So!Aborted(S, i), !.impls[i] = q]
        BY <1>0, <1>1, <1>2, <2>2, Zenon DEF So!close
      <3> QED
        BY <1>1, <3>1 DEF Sockets
    <2> QED
      BY <2>1, <2>2
  <1>4. T.ops = So!Aborted(S, i) /\ T.cur = S.cur /\ T.impls[i] = q /\ T.impls[S.cur] = S.impls[S.cur]
    BY <1>1, <1>3 DEF Sockets
  <1>5. Stopped(S, T, i)
    BY <1>1, <1>4, AbortedIs
  <1>6. /\ q \in Impl /\ q.owner = FALSE
        /\ q.pending_read = r.pending_read /\ q.pending_write = r.pending_write
        /\ \A k \in 1 .. Len(q.incoming) : q.incoming[k] = q.conn
        /\ \A k \in 1 .. Len(q.outgoing) : q.outgoing[k] = q.conn
        /\ q.pending_connect = r.pending_connect
        /\ q.conn = r.conn \/ (~r.pending_read /\ ~r.pending_write)
    <2>1. CASE So!Pending(r)
      <3>1. q = [r EXCEPT !.open = FALSE]
        BY <1>2, <2>1
      <3>2. /\ q \in Impl /\ q.owner = r.owner /\ q.conn = r.conn
            /\ q.incoming = r.incoming /\ q.outgoing = r.outgoing
            /\ q.pending_read = r.pending_read /\ q.pending_write = r.pending_write
            /\ q.pending_connect = r.pending_connect
        BY <1>1, <3>1, ClosedIs, Zenon
      <3> QED
        BY <1>0, <1>1, <3>2, Zenon DEF ObjectOK, Tagged
    <2>2. CASE ~So!Pending(r)
      <3>1. q = [So!Fresh EXCEPT !.owner = FALSE]
        BY <1>2, <2>2
      <3>2. Empty(q) /\ q.owner = FALSE /\ ~q.pending_read /\ ~q.pending_write /\ ~q.pending_connect
        BY <3>1, FreshIs, WithOwner, Zenon DEF Empty
      <3>3. ~r.pending_read /\ ~r.pending_write /\ ~r.pending_connect
        BY <2>2 DEF So!Pending
      <3>4. /\ \A k \in 1 .. Len(q.incoming) : q.incoming[k] = q.conn
            /\ \A k \in 1 .. Len(q.outgoing) : q.outgoing[k] = q.conn
        BY <1>4, <3>2, EmptyTagged
      <3> QED
        BY <1>1, <3>2, <3>3, <3>4 DEF Empty, Impl
    <2> QED
      BY <2>1, <2>2
  <1>7. /\ Flagged(T, i, "read", T.impls[i].pending_read)
        /\ Flagged(T, i, "write", T.impls[i].pending_write)
        /\ T.impls[i].conn = S.impls[i].conn =>
             \A op \in T.ops : op.impl = i /\ op.kind \in {"read", "write"} => op.conn = T.impls[i].conn
        /\ T.impls[i].pending_connect = S.impls[i].pending_connect =>
             Attempted(T, i)
    <2>1. T.impls[i].pending_read = S.impls[i].pending_read
          /\ T.impls[i].pending_write = S.impls[i].pending_write
      BY <1>0, <1>4, <1>6
    <2> QED
      BY <1>1, <1>5, <2>1, StoppedKeeps, Zenon
  <1>8. \A op \in T.ops : op.impl = i /\ op.kind \in {"read", "write"} => op.conn = T.impls[i].conn
    BY <1>0, <1>4, <1>6, <1>7 DEF Flagged
  <1>9. Tagged(T, i) /\ Attached(T, i)
    BY <1>4, <1>6, <1>8, Zenon DEF Tagged, Attached
  <1>10. ObjectOK(T, i)
    BY <1>0, <1>4, <1>6, <1>7, <1>9 DEF ObjectOK
  <1>11. Sane(T)
    <2>1. T.ops \in SUBSET Operation
          /\ \A op \in T.ops \cup S.ops : op.impl # i => (op \in T.ops <=> op \in S.ops)
      BY <1>5 DEF Stopped
    <2> QED
      BY <1>3, <1>4, <1>6, <1>10, <2>1, OthersAlone
  <1>12. \A op \in T.ops : op.impl = S.cur => op \in S.ops
    BY <1>5 DEF Stopped
  <1> QED
    BY <1>4, <1>6, <1>11, <1>12

\* close of the object in use: whether a new one is made or not, it is empty
\* and has no operations.
ClosedCurrent(T) ==
    /\ Sane(T)
    /\ Empty(T.impls[T.cur]) /\ ~T.impls[T.cur].pending_read /\ ~T.impls[T.cur].pending_write
    /\ \A op \in T.ops : op.impl # T.cur

\* close() leaves an object in use that is empty and has no operations, detaching
\* the old object if any are pending.
LEMMA CloseCurrent ==
  ASSUME NEW S, Sane(S), So!CanClose(S, S.cur), NoHandshake(S, S.cur),
         NEW T, T = So!close(S, S.cur)
  PROVE  ClosedCurrent(T)
  <1>0. PICK i : i = S.cur
    OBVIOUS
  <1>00. PICK r : r = S.impls[i]
    OBVIOUS
  <1>1. S \in Sockets /\ i \in SocketId /\ r \in Impl /\ ObjectOK(S, i) /\ r.owner = TRUE
    <2>1. S \in Sockets /\ i \in SocketId /\ r \in Impl /\ ObjectOK(S, i)
      BY <1>0, <1>00 DEF Sane, Sockets
    <2> QED
      BY <1>0, <1>00, <2>1 DEF ObjectOK, Attached, Impl
  <1>2. CASE So!Pending(r)
    <2>0. \E n \in SocketId : So!Unused(S, n)
      BY <1>0, <1>00, <1>1, <1>2 DEF So!CanClose
    <2>1. PICK n : n = CHOOSE m \in SocketId : So!Unused(S, m) /\ m # i
      OBVIOUS
    <2>2. n \in SocketId /\ So!Unused(S, n) /\ n # i
      BY <1>0, <2>0, <2>1 DEF So!Unused
    <2>3. PICK q : q = So!Detached(r)
      OBVIOUS
    <2>4. PICK f : f = So!Fresh
      OBVIOUS
    <2>5. /\ q \in Impl /\ Empty(q) /\ q.owner = FALSE /\ q.conn = r.conn
          /\ q.pending_read = r.pending_read /\ q.pending_write = r.pending_write
          /\ q.pending_connect = r.pending_connect
      BY <1>1, <2>3, DetachedIs DEF Empty
    <2>6. /\ f \in Impl /\ Empty(f) /\ f.owner
          /\ ~f.pending_read /\ ~f.pending_write /\ ~f.pending_connect
      BY <2>4, FreshIs DEF Empty
    <2>7. T = [impls |-> [[S.impls EXCEPT ![i] = q] EXCEPT ![n] = f],
               ops |-> So!Aborted(S, i), cur |-> n]
      <3>1. T = [S EXCEPT !.ops = So!Aborted(S, i), !.cur = n,
                          !.impls = [S.impls EXCEPT ![i] = So!Detached(S.impls[i]), ![n] = So!Fresh]]
        BY <1>0, <1>00, <1>1, <1>2, <2>1, Zenon DEF So!close
      <3>2. [S.impls EXCEPT ![i] = So!Detached(S.impls[i]), ![n] = So!Fresh]
              = [[S.impls EXCEPT ![i] = q] EXCEPT ![n] = f]
        BY <1>00, <2>3, <2>4, Zenon
      <3>3. PICK g : g = [[S.impls EXCEPT ![i] = q] EXCEPT ![n] = f]
        OBVIOUS
      <3>4. T = [S EXCEPT !.ops = So!Aborted(S, i), !.cur = n, !.impls = g]
        BY <3>1, <3>2, <3>3, Zenon
      <3>5. T = [impls |-> g, ops |-> So!Aborted(S, i), cur |-> n]
        BY <1>1, <3>4 DEF Sockets
      <3> QED
        BY <3>3, <3>5
    <2>8. /\ T.ops = So!Aborted(S, i) /\ T.cur = n /\ T.impls[i] = q /\ T.impls[n] = f
          /\ \A j \in SocketId : j # i /\ j # n => T.impls[j] = S.impls[j]
          /\ T.impls \in [SocketId -> Impl]
      BY <1>1, <2>2, <2>5, <2>6, <2>7 DEF Sockets
    <2> HIDE <2>7
    <2>9. Stopped(S, T, i)
      BY <1>0, <1>1, <2>8, AbortedIs
    <2>10. T \in Sockets
      BY <2>2, <2>7, <2>8, <2>9 DEF Sockets, Stopped
    <2>11. \A op \in T.ops : op.impl # n
      BY <1>1, <2>2, <2>9, NeverStale DEF Stopped, So!Unused
    <2>12. ObjectOK(T, n)
      <3>1. Flagged(T, n, "read", T.impls[n].pending_read) /\ Flagged(T, n, "write", T.impls[n].pending_write)
        BY <2>6, <2>8, <2>11 DEF Flagged
      <3>2. Tagged(T, n)
        BY <2>6, <2>8, <2>11, EmptyTagged DEF Tagged
      <3>3. Attached(T, n)
        BY <2>6, <2>8, <2>11 DEF Attached, Empty
      <3>4. Attempted(T, n)
        BY <2>11 DEF Attempted
      <3> QED
        BY <3>1, <3>2, <3>3, <3>4 DEF ObjectOK
    <2>13. ObjectOK(T, i)
      <3>1. /\ Flagged(T, i, "read", T.impls[i].pending_read)
            /\ Flagged(T, i, "write", T.impls[i].pending_write)
            /\ T.impls[i].conn = S.impls[i].conn =>
                 \A op \in T.ops : op.impl = i /\ op.kind \in {"read", "write"} => op.conn = T.impls[i].conn
            /\ T.impls[i].pending_connect = S.impls[i].pending_connect =>
                 Attempted(T, i)
        BY <1>00, <1>1, <2>5, <2>8, <2>9, StoppedKeeps, Zenon
      <3>2. Tagged(T, i)
        BY <1>00, <2>5, <2>8, <3>1, EmptyTagged DEF Tagged
      <3>3. Attached(T, i)
        BY <2>2, <2>5, <2>8 DEF Attached
      <3> QED
        BY <1>00, <2>5, <2>8, <3>1, <3>2, <3>3 DEF ObjectOK
    <2>14. ASSUME NEW j \in SocketId, j # i, j # n
           PROVE  ObjectOK(T, j)
      <3>1. T.impls[j] = S.impls[j] /\ j # T.cur /\ j # S.cur
        BY <1>0, <2>8, <2>14
      <3>2. \A op : op.impl = j => (op \in T.ops <=> op \in S.ops)
        BY <2>9, <2>14 DEF Stopped
      <3>3. ObjectOK(S, j)
        BY DEF Sane
      <3>4. Flagged(T, j, "read", T.impls[j].pending_read) /\ Flagged(T, j, "write", T.impls[j].pending_write)
        BY <3>1, <3>2, <3>3 DEF ObjectOK, Flagged
      <3>5. Tagged(T, j)
        BY <3>1, <3>2, <3>3 DEF ObjectOK, Tagged
      <3>6. Attached(T, j)
        BY <3>1, <3>2, <3>3 DEF ObjectOK, Attached
      <3>7. Attempted(T, j)
        BY <3>1, <3>2, <3>3 DEF ObjectOK, Attempted
      <3> QED
        BY <3>4, <3>5, <3>6, <3>7 DEF ObjectOK
    <2>15. Sane(T)
      BY <2>10, <2>12, <2>13, <2>14 DEF Sane
    <2> QED
      BY <2>6, <2>8, <2>11, <2>15 DEF ClosedCurrent
  <1>3. CASE ~So!Pending(r)
    <2>1. PICK q : q = [So!Fresh EXCEPT !.owner = TRUE]
      OBVIOUS
    <2>2. q \in Impl /\ Empty(q) /\ q.owner /\ ~q.pending_read /\ ~q.pending_write /\ ~q.pending_connect
      BY <2>1, FreshIs, WithOwner, Zenon DEF Empty
    <2>3. ~r.pending_read /\ ~r.pending_write /\ ~r.pending_connect
      BY <1>3 DEF So!Pending
    <2>4. T = [impls |-> [S.impls EXCEPT ![i] = q], ops |-> So!Aborted(S, i), cur |-> S.cur]
      <3>1. T = [S EXCEPT !.ops = So!Aborted(S, i), !.impls[i] = q]
        BY <1>0, <1>00, <1>1, <1>3, <2>1, Zenon DEF So!close
      <3> QED
        BY <1>1, <3>1 DEF Sockets
    <2>5. T.ops = So!Aborted(S, i) /\ T.cur = i /\ T.impls[i] = q
      BY <1>0, <1>1, <2>4 DEF Sockets
    <2>6. Stopped(S, T, i)
      BY <1>0, <1>1, <2>5, AbortedIs
    <2>7. /\ Flagged(T, i, "read", T.impls[i].pending_read)
          /\ Flagged(T, i, "write", T.impls[i].pending_write)
          /\ T.impls[i].conn = S.impls[i].conn =>
               \A op \in T.ops : op.impl = i /\ op.kind \in {"read", "write"} => op.conn = T.impls[i].conn
          /\ Attempted(T, i)
      <3>1. q.pending_read \in BOOLEAN /\ r.pending_read \in BOOLEAN
            /\ q.pending_write \in BOOLEAN /\ r.pending_write \in BOOLEAN
            /\ q.pending_connect \in BOOLEAN /\ r.pending_connect \in BOOLEAN
        BY <1>1, <2>2 DEF Impl
      <3>2. T.impls[i].pending_read = S.impls[i].pending_read
            /\ T.impls[i].pending_write = S.impls[i].pending_write
            /\ T.impls[i].pending_connect = S.impls[i].pending_connect
        BY <1>00, <2>2, <2>3, <2>5, <3>1
      <3> QED
        BY <1>1, <2>6, <3>2, StoppedKeeps, Zenon
    <2>8. \A op \in T.ops : op.impl = i => op.kind \notin {"read", "write"}
      BY <2>2, <2>5, <2>7 DEF Flagged
    <2>9. \A op \in T.ops : op.impl # i
      <3>1. \A op \in T.ops : op.kind \in {"connect", "handshake", "read", "write"}
        BY <2>6 DEF Stopped, Operation
      <3>2. \A op \in T.ops : op.impl = i => op.kind \notin {"connect", "handshake"}
        <4>1. \A b \in S.ops : Abort(i, b).impl = b.impl /\ Abort(i, b).kind = b.kind
          BY <1>1, AbortIs DEF Sockets
        <4>2. \A b \in S.ops : b.impl = i => b.kind # "handshake"
          BY <1>0 DEF NoHandshake
        <4>3. \A op \in T.ops : op.impl = i => op.kind # "handshake"
          BY <2>6, <4>1, <4>2 DEF Stopped
        <4> QED
          BY <2>2, <2>5, <2>7, <4>3 DEF Attempted
      <3> QED
        BY <2>8, <3>1, <3>2
    <2>10. Tagged(T, i)
      BY <2>2, <2>5, <2>8, EmptyTagged DEF Tagged
    <2>11. Attached(T, i)
      BY <2>2, <2>5, <2>8 DEF Attached, Empty
    <2>12. ObjectOK(T, i)
      BY <2>7, <2>10, <2>11 DEF ObjectOK
    <2>13. Sane(T)
      <3>1. T.ops \in SUBSET Operation
            /\ \A op \in T.ops \cup S.ops : op.impl # i => (op \in T.ops <=> op \in S.ops)
        BY <2>6 DEF Stopped
      <3> QED
        BY <1>0, <1>1, <2>2, <2>4, <2>5, <2>12, <3>1, OthersAlone
    <2> QED
      BY <2>2, <2>5, <2>9, <2>13 DEF ClosedCurrent
  <1> QED
    BY <1>2, <1>3

(***************************************************************************)
(* What the handlers and the owner do to one object                        *)
(***************************************************************************)
\* The owner, the connection and the flags of the operations stay.
Same(r, q) ==
    /\ q.owner = r.owner /\ q.conn = r.conn
    /\ q.pending_read = r.pending_read /\ q.pending_write = r.pending_write
    /\ q.pending_connect = r.pending_connect

\* an object that Sane accepts: whose bytes are of its connection and which is
\* shut down only when that was asked for and everything is sent
Proper(q) ==
    /\ q \in Impl
    /\ \A k \in 1 .. Len(q.incoming) : q.incoming[k] = q.conn
    /\ \A k \in 1 .. Len(q.outgoing) : q.outgoing[k] = q.conn
    /\ q.owner /\ q.shut => q.outgoing = <<>> /\ q.asked_shutdown

\* The objects of a sane state are proper: the one in use and the detached ones.
LEMMA ProperObjects ==
  ASSUME NEW S, Sane(S), NEW i \in SocketId, i = S.cur \/ ~S.impls[i].owner
  PROVE  Proper(S.impls[i])
  <1>1. ObjectOK(S, i) /\ S.impls[i] \in Impl
    BY DEF Sane, Sockets
  <1> QED
    BY <1>1 DEF ObjectOK, Tagged, Attached, Proper

\* So is an empty one.
LEMMA EmptyProper ==
  ASSUME NEW q, Empty(q)
  PROVE  Proper(q)
  <1>1. Len(<<>>) = 0
    OBVIOUS
  <1> QED
    BY <1>1 DEF Empty, Proper

\* A state stays sane when a proper object with the same flags takes the place of
\* one of its objects.
LEMMA Changed ==
  ASSUME NEW S, Sane(S), NEW i \in SocketId, NEW q, Same(S.impls[i], q), Proper(q),
         NEW T, T = Put(S, i, q)
  PROVE  Sane(T) /\ Placed(S, T, i, q)
  <1>1. S \in Sockets /\ ObjectOK(S, i) /\ q \in Impl
    BY DEF Sane, Proper
  <1>2. Placed(S, T, i, q)
    BY <1>1, PutIs
  <1>3. T.impls[i] = q /\ T.ops = S.ops /\ T.cur = S.cur
    BY <1>2 DEF Placed
  <1>4. Flagged(T, i, "read", T.impls[i].pending_read) /\ Flagged(T, i, "write", T.impls[i].pending_write)
    BY <1>1, <1>3 DEF Flagged, ObjectOK, Same
  <1>5. Tagged(T, i)
    BY <1>1, <1>3 DEF Tagged, ObjectOK, Same, Proper
  <1>6. Attached(T, i)
    BY <1>1, <1>3 DEF Attached, ObjectOK, Same, Proper
  <1>7. Attempted(T, i)
    BY <1>1, <1>3 DEF Attempted, ObjectOK, Same
  <1>8. ObjectOK(T, i)
    BY <1>4, <1>5, <1>6, <1>7 DEF ObjectOK
  <1>9. Sane(T)
    <2>1. S.ops \in SUBSET Operation
      BY <1>1 DEF Sockets
    <2>2. T = [impls |-> [S.impls EXCEPT ![i] = q], ops |-> S.ops, cur |-> S.cur]
      BY <1>2 DEF Placed
    <2> QED
      BY <1>1, <1>8, <2>1, <2>2, OthersAlone
  <1> QED
    BY <1>2, <1>9

\* A finished operation is gone, and its flag is reset.
OpGone(S, T, op, i, q) ==
    /\ Sane(T) /\ T.impls[i] = q /\ T.cur = S.cur /\ T.ops = S.ops \ {op}
    /\ \A j \in SocketId : j # i => T.impls[j] = S.impls[j]

\* A state stays sane when an operation is handled, its flag reset with it.
LEMMA Finish ==
  ASSUME NEW S, Sane(S), NEW op \in S.ops, NEW i, i = op.impl, NEW r, r = S.impls[i], NEW q, Proper(q),
         q.owner = r.owner, q.conn = r.conn,
         q.pending_read = IF op.kind = "read" THEN FALSE ELSE r.pending_read,
         q.pending_write = IF op.kind = "write" THEN FALSE ELSE r.pending_write,
         op.kind \notin {"connect", "handshake"} => q.pending_connect = r.pending_connect,
         NEW T, T = [impls |-> [S.impls EXCEPT ![i] = q], ops |-> S.ops \ {op}, cur |-> S.cur]
  PROVE  OpGone(S, T, op, i, q)
  <1>0. op.impl = i
    OBVIOUS
  <1>1. S \in Sockets /\ i \in SocketId /\ ObjectOK(S, i) /\ q \in Impl
        /\ r.pending_read \in BOOLEAN /\ r.pending_write \in BOOLEAN /\ r \in Impl
    BY DEF Sane, Proper, Sockets, Operation, Impl
  <1>2. T.impls[i] = q /\ T.cur = S.cur /\ T.ops = S.ops \ {op}
        /\ \A j \in SocketId : j # i => T.impls[j] = S.impls[j]
    BY <1>1 DEF Sockets
  <1>3. Flagged(T, i, "read", T.impls[i].pending_read)
    <2>1. CASE op.kind = "read"
      <3>1. Flagged(S, i, "read", r.pending_read)
        BY <1>1 DEF ObjectOK
      <3>2. q.pending_read = FALSE
        BY <2>1
      <3>3. \A o \in T.ops : ~(o.impl = i /\ o.kind = "read")
        BY <1>0, <1>2, <2>1, <3>1 DEF Flagged
      <3> QED
        BY <1>2, <3>2, <3>3 DEF Flagged
    <2>2. CASE op.kind # "read"
      <3>1. Flagged(S, i, "read", r.pending_read)
        BY <1>1 DEF ObjectOK
      <3>2. q.pending_read = r.pending_read
        BY <2>2
      <3> QED
        BY <1>2, <2>2, <3>1, <3>2 DEF Flagged
    <2> QED
      BY <2>1, <2>2
  <1>4. Flagged(T, i, "write", T.impls[i].pending_write)
    <2>1. CASE op.kind = "write"
      <3>1. Flagged(S, i, "write", r.pending_write)
        BY <1>1 DEF ObjectOK
      <3>2. q.pending_write = FALSE
        BY <2>1
      <3>3. \A o \in T.ops : ~(o.impl = i /\ o.kind = "write")
        BY <1>0, <1>2, <2>1, <3>1 DEF Flagged
      <3> QED
        BY <1>2, <3>2, <3>3 DEF Flagged
    <2>2. CASE op.kind # "write"
      <3>1. Flagged(S, i, "write", r.pending_write)
        BY <1>1 DEF ObjectOK
      <3>2. q.pending_write = r.pending_write
        BY <2>2
      <3> QED
        BY <1>2, <2>2, <3>1, <3>2 DEF Flagged
    <2> QED
      BY <2>1, <2>2
  <1>5. Tagged(T, i)
    BY <1>1, <1>2 DEF Tagged, ObjectOK, Proper
  <1>6. Attached(T, i)
    BY <1>1, <1>2 DEF Attached, ObjectOK, Proper
  <1>7. Attempted(T, i)
    <2>1. CASE op.kind \in {"connect", "handshake"}
      BY <1>0, <1>1, <1>2, <2>1 DEF Attempted, ObjectOK
    <2>2. CASE op.kind \notin {"connect", "handshake"}
      BY <1>1, <1>2, <2>2 DEF Attempted, ObjectOK
    <2> QED
      BY <2>1, <2>2
  <1>8. ObjectOK(T, i)
    BY <1>3, <1>4, <1>5, <1>6, <1>7 DEF ObjectOK
  <1>9. Sane(T)
    <2>1. S.ops \ {op} \in SUBSET Operation
      BY <1>1 DEF Sockets
    <2>2. \A o \in (S.ops \ {op}) \cup S.ops : o.impl # i => (o \in S.ops \ {op} <=> o \in S.ops)
      BY <1>0
    <2> QED
      BY <1>1, <1>8, <2>1, <2>2, OthersAlone
  <1> QED
    BY <1>2, <1>9 DEF OpGone

\* The object after close, prepared for another connection.
LEMMA Prepared ==
  ASSUME NEW S, ClosedCurrent(S), NEW q, Empty(q), q.owner = S.impls[S.cur].owner,
         ~q.pending_read, ~q.pending_write,
         q.pending_connect \/ ~S.impls[S.cur].pending_connect,
         NEW T, T = Put(S, S.cur, q)
  PROVE  ClosedCurrent(T) /\ Placed(S, T, S.cur, q)
  <1>0. PICK i : i = S.cur
    OBVIOUS
  <1>1. S \in Sockets /\ ObjectOK(S, i) /\ q \in Impl /\ i \in SocketId /\ Sane(S)
        /\ q.pending_read = FALSE /\ q.pending_write = FALSE
    BY <1>0 DEF ClosedCurrent, Sane, Empty, Sockets, Impl
  <1>2. Placed(S, T, i, q)
    BY <1>0, <1>1, PutIs
  <1>3. T.impls[i] = q /\ T.ops = S.ops /\ T.cur = i
    BY <1>0, <1>2 DEF Placed
  <1>4. \A op \in S.ops : op.impl = i => op.kind \notin {"read", "write"}
    BY <1>0, <1>1 DEF ClosedCurrent, ObjectOK, Flagged
  <1>5. Flagged(T, i, "read", T.impls[i].pending_read) /\ Flagged(T, i, "write", T.impls[i].pending_write)
    BY <1>1, <1>3, <1>4 DEF Flagged
  <1>6. Tagged(T, i)
    BY <1>3, <1>4, EmptyTagged DEF Tagged
  <1>7. Attached(T, i)
    BY <1>0, <1>1, <1>3, <1>4 DEF Attached, ObjectOK, Empty
  <1>8. Attempted(T, i)
    BY <1>0, <1>1, <1>3 DEF Attempted, ClosedCurrent
  <1>9. ObjectOK(T, i)
    BY <1>5, <1>6, <1>7, <1>8 DEF ObjectOK
  <1>10. Sane(T)
    <2>1. S.ops \in SUBSET Operation
      BY <1>1 DEF Sockets
    <2>2. T = [impls |-> [S.impls EXCEPT ![i] = q], ops |-> S.ops, cur |-> S.cur]
      BY <1>2 DEF Placed
    <2> QED
      BY <1>1, <1>9, <2>1, <2>2, OthersAlone
  <1>11. \A op \in T.ops : op.impl # T.cur
    BY <1>0, <1>3 DEF ClosedCurrent
  <1> QED
    BY <1>0, <1>1, <1>2, <1>3, <1>10, <1>11 DEF ClosedCurrent

\* Only the operations of i change.
OnlyOps(S, T, i) ==
    /\ Sane(T) /\ T.impls = S.impls /\ T.cur = S.cur
    /\ \A op \in T.ops : op \in S.ops \/ op.impl = i

\* A connection attempt, or its second half, begins.
LEMMA AttemptStarted ==
  ASSUME NEW S, Sane(S), NEW i \in SocketId, i # S.cur => ~S.impls[i].owner,
         NEW kind \in {"connect", "handshake"},
         kind = "connect" => S.impls[i].pending_connect,
         \A op \in S.ops : op.impl = i => op.kind \notin {"connect", "handshake"},
         NEW T, T = So!WithOp(S, i, kind, 0)
  PROVE  OnlyOps(S, T, i)
  <1>1. S \in Sockets /\ S.impls[i] \in Impl /\ ObjectOK(S, i)
    BY DEF Sane, Sockets
  <1>2. PICK op : op = [impl |-> i, kind |-> kind, conn |-> S.impls[i].conn, st |-> "wait", n |-> 0]
    OBVIOUS
  <1>3. op \in Operation /\ op.impl = i /\ op.kind = kind /\ op.st = "wait"
    BY <1>1, <1>2 DEF Impl, Operation
  <1>4. T = [impls |-> S.impls, ops |-> S.ops \cup {op}, cur |-> S.cur]
    BY <1>1, <1>2, WithOpIs DEF OpAdded
  <1>5. T.impls = S.impls /\ T.cur = S.cur /\ T.ops = S.ops \cup {op}
    BY <1>4
  <1>6. Flagged(T, i, "read", T.impls[i].pending_read) /\ Flagged(T, i, "write", T.impls[i].pending_write)
    BY <1>1, <1>3, <1>5 DEF Flagged, ObjectOK
  <1>7. Tagged(T, i)
    BY <1>1, <1>3, <1>5 DEF Tagged, ObjectOK
  <1>8. Attached(T, i)
    BY <1>1, <1>3, <1>5 DEF Attached, ObjectOK
  <1>9. Attempted(T, i)
    BY <1>1, <1>3, <1>5 DEF Attempted, ObjectOK
  <1>10. ObjectOK(T, i)
    BY <1>6, <1>7, <1>8, <1>9 DEF ObjectOK
  <1>11. Sane(T)
    <2>1. S.impls = [S.impls EXCEPT ![i] = S.impls[i]]
      BY <1>1 DEF Sockets
    <2>2. S.ops \cup {op} \in SUBSET Operation
      BY <1>1, <1>3 DEF Sockets
    <2>3. \A o \in (S.ops \cup {op}) \cup S.ops : o.impl # i => (o \in S.ops \cup {op} <=> o \in S.ops)
      BY <1>3
    <2> QED
      BY <1>1, <1>4, <1>10, <2>1, <2>2, <2>3, OthersAlone
  <1> QED
    BY <1>3, <1>5, <1>11 DEF OnlyOps

\* Objects that nothing points to are freed.
LEMMA ReleasedIs ==
  ASSUME NEW S, Sane(S), NEW T, T = So!Released(S)
  PROVE  /\ Sane(T) /\ T.ops = S.ops /\ T.cur = S.cur
         /\ T.impls[T.cur] = S.impls[S.cur]
  <1>0. So!Freed \in Impl /\ Empty(So!Freed) /\ ~So!Freed.pending_read /\ ~So!Freed.pending_write
    BY FreshIs, WithOwner DEF So!Freed, Empty
  <1>1. S \in Sockets
    BY DEF Sane
  <1>2. T = [impls |-> [i \in SocketId |-> IF So!Unused(S, i) THEN So!Freed ELSE S.impls[i]],
             ops |-> S.ops, cur |-> S.cur]
    BY <1>1 DEF So!Released, Sockets
  <1>3. T \in Sockets /\ T.ops = S.ops /\ T.cur = S.cur
    BY <1>0, <1>1, <1>2 DEF Sockets
  <1>4. \A i \in SocketId : T.impls[i] = IF So!Unused(S, i) THEN So!Freed ELSE S.impls[i]
    BY <1>2
  <1>5. T.impls[T.cur] = S.impls[S.cur]
    BY <1>1, <1>3, <1>4 DEF So!Unused, Sockets
  <1>6. ASSUME NEW i \in SocketId
        PROVE  ObjectOK(T, i)
    <2>1. CASE So!Unused(S, i)
      <3>1. T.impls[i] = So!Freed
        BY <1>4, <2>1
      <3>2. Empty(T.impls[i]) /\ ~T.impls[i].pending_read /\ ~T.impls[i].pending_write
        BY <1>0, <3>1
      <3>3. T.impls[i].pending_read = FALSE /\ T.impls[i].pending_write = FALSE
        BY <3>2 DEF Empty, Impl
      <3>4. i # T.cur /\ \A op \in T.ops : op.impl # i
        BY <1>1, <1>3, <2>1, NeverStale DEF So!Unused
      <3>5. Tagged(T, i)
        BY <3>2, <3>4, EmptyTagged DEF Tagged
      <3> QED
        BY <3>3, <3>4, <3>5 DEF ObjectOK, Flagged, Attached, Attempted
    <2>2. CASE ~So!Unused(S, i)
      <3>1. T.impls[i] = S.impls[i]
        BY <1>4, <2>2
      <3>2. ObjectOK(S, i)
        BY DEF Sane
      <3>3. Flagged(T, i, "read", T.impls[i].pending_read) /\ Flagged(T, i, "write", T.impls[i].pending_write)
        BY <1>3, <3>1, <3>2 DEF ObjectOK, Flagged
      <3>4. Tagged(T, i)
        BY <1>3, <3>1, <3>2 DEF ObjectOK, Tagged
      <3>5. Attached(T, i)
        BY <1>3, <3>1, <3>2 DEF ObjectOK, Attached
      <3>6. Attempted(T, i)
        BY <1>3, <3>1, <3>2 DEF ObjectOK, Attempted
      <3> QED
        BY <3>3, <3>4, <3>5, <3>6 DEF ObjectOK
    <2> QED
      BY <2>1, <2>2
  <1> QED
    BY <1>3, <1>5, <1>6 DEF Sane

\* The kernel ends an operation.
LEMMA Completed ==
  ASSUME NEW S, Sane(S), NEW op \in S.ops, NEW st \in {"ok", "err"}, NEW n \in Nat,
         NEW T, T = [S EXCEPT !.ops = (S.ops \ {op}) \cup {[op EXCEPT !.st = st, !.n = n]}]
  PROVE  OnlyOps(S, T, op.impl)
  <1>0. PICK i : i = op.impl
    OBVIOUS
  <1>1. S \in Sockets /\ i \in SocketId /\ ObjectOK(S, i) /\ op \in Operation
    BY <1>0 DEF Sane, Sockets, Operation
  <1>2. PICK p1 : p1 = [op EXCEPT !.st = st]
    OBVIOUS
  <1>3. p1 \in [impl : SocketId, kind : {"connect", "handshake", "read", "write"}, conn : Nat,
               st : {"wait", "ok", "err", "abort"}, n : Int]
        /\ p1.impl = op.impl /\ p1.kind = op.kind /\ p1.conn = op.conn /\ p1.st = st
    BY <1>1, <1>2 DEF Operation
  <1>4. PICK p : p = [p1 EXCEPT !.n = n]
    OBVIOUS
  <1>5. p \in Operation /\ p.impl = op.impl /\ p.kind = op.kind /\ p.conn = op.conn /\ p.st = st
    BY <1>3, <1>4 DEF Operation
  <1>6. [op EXCEPT !.st = st, !.n = n] = p
    BY <1>2, <1>4, Zenon
  <1>7. T = [impls |-> S.impls, ops |-> (S.ops \ {op}) \cup {p}, cur |-> S.cur]
    BY <1>1, <1>6 DEF Sockets
  <1>8. T.impls = S.impls /\ T.cur = S.cur /\ T.ops = (S.ops \ {op}) \cup {p}
    BY <1>7
  <1>9. Flagged(T, i, "read", T.impls[i].pending_read)
    BY <1>0, <1>1, <1>5, <1>8 DEF Flagged, ObjectOK
  <1>10. Flagged(T, i, "write", T.impls[i].pending_write)
    BY <1>0, <1>1, <1>5, <1>8 DEF Flagged, ObjectOK
  <1>11. Tagged(T, i)
    BY <1>0, <1>1, <1>5, <1>8 DEF Tagged, ObjectOK
  <1>12. Attached(T, i)
    BY <1>0, <1>1, <1>5, <1>8 DEF Attached, ObjectOK
  <1>13. Attempted(T, i)
    BY <1>0, <1>1, <1>5, <1>8 DEF Attempted, ObjectOK
  <1>14. ObjectOK(T, i)
    BY <1>9, <1>10, <1>11, <1>12, <1>13 DEF ObjectOK
  <1>15. Sane(T)
    <2>1. S.impls = [S.impls EXCEPT ![i] = S.impls[i]] /\ S.impls[i] \in Impl
      BY <1>1 DEF Sockets
    <2>2. (S.ops \ {op}) \cup {p} \in SUBSET Operation
      BY <1>1, <1>5 DEF Sockets
    <2>3. \A o \in ((S.ops \ {op}) \cup {p}) \cup S.ops :
            o.impl # i => (o \in (S.ops \ {op}) \cup {p} <=> o \in S.ops)
      BY <1>0, <1>5
    <2> QED
      BY <1>1, <1>7, <1>14, <2>1, <2>2, <2>3, OthersAlone
  <1> QED
    BY <1>0, <1>5, <1>8, <1>15 DEF OnlyOps

(***************************************************************************)
(* The steps of the socket                                                 *)
(***************************************************************************)
\* One field of an object changes.
LEMMA WithConnected ==
  ASSUME NEW r \in Impl
  PROVE  LET q == [r EXCEPT !.connected = TRUE] IN
         /\ q \in Impl /\ Same(r, q) /\ q.connected
         /\ q.incoming = r.incoming /\ q.outgoing = r.outgoing
         /\ q.shut = r.shut /\ q.asked_shutdown = r.asked_shutdown
  BY DEF Impl, Same

\* The fields of any object, each set alone: the bytes that came in,
LEMMA WithIncoming ==
  ASSUME NEW r \in Impl, NEW bytes \in Seq(Nat)
  PROVE  LET q == [r EXCEPT !.incoming = bytes] IN
         /\ q \in Impl /\ Same(r, q) /\ q.incoming = bytes
         /\ q.connected = r.connected /\ q.outgoing = r.outgoing
         /\ q.shut = r.shut /\ q.asked_shutdown = r.asked_shutdown
  BY DEF Impl, Same

\* those going out
LEMMA WithOutgoing ==
  ASSUME NEW r \in Impl, NEW bytes \in Seq(Nat)
  PROVE  LET q == [r EXCEPT !.outgoing = bytes] IN
         /\ q \in Impl /\ Same(r, q) /\ q.outgoing = bytes
         /\ q.connected = r.connected /\ q.incoming = r.incoming
         /\ q.shut = r.shut /\ q.asked_shutdown = r.asked_shutdown
  BY DEF Impl, Same

\* and asked_shutdown;
LEMMA WithAsked ==
  ASSUME NEW r \in Impl
  PROVE  LET q == [r EXCEPT !.asked_shutdown = TRUE] IN
         /\ q \in Impl /\ Same(r, q) /\ q.asked_shutdown
         /\ q.connected = r.connected /\ q.incoming = r.incoming /\ q.outgoing = r.outgoing
         /\ q.shut = r.shut
  BY DEF Impl, Same

\* of an empty one the descriptor
LEMMA WithOpen ==
  ASSUME NEW r, Empty(r), NEW b \in BOOLEAN
  PROVE  LET q == [r EXCEPT !.open = b] IN Empty(q) /\ Same(r, q)
  BY DEF Impl, Empty, Same

\* and the kind of connection.
LEMMA WithSSL ==
  ASSUME NEW r, Empty(r), NEW b \in BOOLEAN
  PROVE  LET q == [r EXCEPT !.ssl = b] IN Empty(q) /\ Same(r, q)
  BY DEF Impl, Empty, Same

\* A flag is reset.
Rest(r, q) ==
    /\ q.owner = r.owner /\ q.conn = r.conn /\ q.connected = r.connected /\ q.ssl = r.ssl
    /\ q.incoming = r.incoming /\ q.outgoing = r.outgoing
    /\ q.shut = r.shut /\ q.asked_shutdown = r.asked_shutdown

\* The flag of a read that is over is reset alone,
LEMMA ReadOver ==
  ASSUME NEW r \in Impl
  PROVE  LET q == [r EXCEPT !.pending_read = FALSE] IN
         /\ q \in Impl /\ Rest(r, q) /\ q.pending_read = FALSE
         /\ q.pending_write = r.pending_write /\ q.pending_connect = r.pending_connect
  BY DEF Impl, Rest

\* that of a write,
LEMMA WriteOver ==
  ASSUME NEW r \in Impl
  PROVE  LET q == [r EXCEPT !.pending_write = FALSE] IN
         /\ q \in Impl /\ Rest(r, q) /\ q.pending_write = FALSE
         /\ q.pending_read = r.pending_read /\ q.pending_connect = r.pending_connect
  BY DEF Impl, Rest

\* and that of a connection attempt.
LEMMA ConnectOver ==
  ASSUME NEW r \in Impl
  PROVE  LET q == [r EXCEPT !.pending_connect = FALSE] IN
         /\ q \in Impl /\ Rest(r, q) /\ q.pending_connect = FALSE
         /\ q.pending_read = r.pending_read /\ q.pending_write = r.pending_write
  BY DEF Impl, Rest

\* The state of a socket with its owner's: l is live, c the connections so far.
SocketOK(S, l, c) ==
    /\ Sane(S) /\ Ready(S) /\ l \in BOOLEAN /\ c \in Nat
    /\ l => S.impls[S.cur].conn = c
    /\ l \/ (~S.impls[S.cur].connected /\ \A op \in S.ops : op.impl # S.cur)

\* The object in use belongs to the owner.
LEMMA CurOwned ==
  ASSUME NEW S, Sane(S)
  PROVE  S.cur \in SocketId /\ S.impls[S.cur] \in Impl /\ S.impls[S.cur].owner = TRUE
         /\ ObjectOK(S, S.cur) /\ Proper(S.impls[S.cur])
  <1>1. S.cur \in SocketId /\ S.impls[S.cur] \in Impl /\ ObjectOK(S, S.cur)
    BY DEF Sane, Sockets
  <1>2. Proper(S.impls[S.cur])
    BY <1>1, ProperObjects
  <1> QED
    BY <1>1, <1>2 DEF ObjectOK, Attached, Impl

\* After close() the invariant holds, with no connection.
LEMMA ClosedOK ==
  ASSUME NEW T, ClosedCurrent(T), NEW c \in Nat
  PROVE  SocketOK(T, FALSE, c)
  BY DEF ClosedCurrent, SocketOK, Ready, Empty

\* Opened: close, and a new connection prepared.
LEMMA OpenedIs ==
  ASSUME NEW S, Sane(S), So!CanClose(S, S.cur), NoHandshake(S, S.cur),
         NEW ssl \in BOOLEAN, conns \in Nat,
         NEW T, T = So!Opened(S, ssl)
  PROVE  ClosedCurrent(T) /\ T.impls[T.cur].conn = conns + 1
  <1>1. PICK C : C = So!close(S, S.cur)
    OBVIOUS
  <1>2. ClosedCurrent(C)
    BY <1>1, CloseCurrent
  <1>3. PICK q1 : q1 = [C.impls[C.cur] EXCEPT !.open = TRUE]
    OBVIOUS
  <1>4. PICK q2 : q2 = [q1 EXCEPT !.ssl = ssl]
    OBVIOUS
  <1>5. PICK q : q = [q2 EXCEPT !.conn = conns + 1]
    OBVIOUS
  <1>6. Empty(q1) /\ Same(C.impls[C.cur], q1)
    BY <1>2, <1>3, WithOpen DEF ClosedCurrent
  <1>7. Empty(q2) /\ Same(q1, q2)
    BY <1>4, <1>6, WithSSL
  <1>8. Empty(q) /\ q.owner = q2.owner /\ q.conn = conns + 1
        /\ q.pending_read = q2.pending_read /\ q.pending_write = q2.pending_write
        /\ q.pending_connect = q2.pending_connect
    BY <1>5, <1>7, WithConn
  <1>9. T = Put(C, C.cur, q)
    <2>1. [C.impls[C.cur] EXCEPT !.open = TRUE, !.ssl = ssl, !.conn = conns + 1] = q
      BY <1>3, <1>4, <1>5, Zenon
    <2>2. T = [C EXCEPT !.impls[C.cur] =
                 [C.impls[C.cur] EXCEPT !.open = TRUE, !.ssl = ssl, !.conn = conns + 1]]
      BY <1>1, Zenon DEF So!Opened
    <2> QED
      BY <2>1, <2>2, Zenon DEF Put
  <1>10. q.owner = C.impls[C.cur].owner /\ ~q.pending_read /\ ~q.pending_write
         /\ q.pending_connect = C.impls[C.cur].pending_connect
    BY <1>2, <1>6, <1>7, <1>8 DEF Same, ClosedCurrent
  <1>11. ClosedCurrent(T) /\ Placed(C, T, C.cur, q)
    <2>1. q.pending_connect \/ ~C.impls[C.cur].pending_connect
      BY <1>10
    <2> QED
      BY <1>2, <1>8, <1>9, <1>10, <2>1, Prepared
  <1> QED
    BY <1>8, <1>11 DEF Placed

\* A connection that is prepared during a handshake tears the socket, too.
LEMMA OpenedTears ==
  ASSUME NEW S \in Sockets, NEW ssl, NEW T, T = So!Opened(S, ssl)
  PROVE  Shaped(T) /\ (~So!Stale(T) => NoHandshake(S, S.cur))
  <1>1. PICK C : C = So!close(S, S.cur)
    OBVIOUS
  <1>2. Shaped(C) /\ (~So!Stale(C) => NoHandshake(S, S.cur))
    BY <1>1, CloseTears DEF Sockets
  <1>3. T = Put(C, C.cur, [C.impls[C.cur] EXCEPT !.open = TRUE, !.ssl = ssl, !.conn = conns + 1])
    BY <1>1, Zenon DEF So!Opened, Put
  <1>4. Shaped(T) /\ T.ops = C.ops
    BY <1>2, <1>3, PutShaped
  <1> QED
    BY <1>2, <1>4 DEF So!Stale

ConnectSet(S, T) ==
    /\ ClosedCurrent(T) /\ T.cur = S.cur /\ T.ops = S.ops
    /\ T.impls[T.cur].pending_connect /\ T.impls[T.cur].conn = S.impls[S.cur].conn

\* connect() sets pending_connect in the closed socket.
LEMMA ConnectFlag ==
  ASSUME NEW S, ClosedCurrent(S),
         NEW T, T = [S EXCEPT !.impls[S.cur].pending_connect = TRUE]
  PROVE  ConnectSet(S, T)
  <1>1. PICK q : q = [S.impls[S.cur] EXCEPT !.pending_connect = TRUE]
    OBVIOUS
  <1>2. Empty(q) /\ q.owner = S.impls[S.cur].owner /\ q.conn = S.impls[S.cur].conn
        /\ q.pending_connect = TRUE
        /\ q.pending_read = S.impls[S.cur].pending_read /\ q.pending_write = S.impls[S.cur].pending_write
    BY <1>1, WithConnect DEF ClosedCurrent
  <1>3. T = Put(S, S.cur, q)
    BY <1>1, Zenon DEF Put
  <1>4. ClosedCurrent(T) /\ Placed(S, T, S.cur, q)
    <2>1. ~q.pending_read /\ ~q.pending_write
      BY <1>2 DEF ClosedCurrent
    <2> QED
      BY <1>2, <1>3, <2>1, Prepared
  <1> QED
    BY <1>2, <1>4 DEF Placed, ConnectSet

\* connect() keeps the invariant,
LEMMA ConnectStep ==
  ASSUME SocketOK(sock, live, conns), NEW ssl \in BOOLEAN, So!connect(ssl), ~So!Stale(sock')
  PROVE  SocketOK(sock', live', conns')
  <1>1. So!CanClose(sock, sock.cur) /\ sock' = So!connect_starts(So!Opened(sock, ssl))
        /\ live' = TRUE /\ conns' = conns + 1 /\ Sane(sock) /\ conns \in Nat
    BY DEF So!connect, SocketOK
  <1>2. PICK P : P = So!Opened(sock, ssl)
    OBVIOUS
  <1>4. PICK Q : Q = [P EXCEPT !.impls[P.cur].pending_connect = TRUE]
    OBVIOUS
  <1>3. ClosedCurrent(P) /\ P.impls[P.cur].conn = conns + 1
    <2>1. Shaped(P) /\ (~So!Stale(P) => NoHandshake(sock, sock.cur))
      BY <1>1, <1>2, OpenedTears DEF Sane
    <2>2. Q = Put(P, P.cur, [P.impls[P.cur] EXCEPT !.pending_connect = TRUE])
      BY <1>4, Zenon DEF Put
    <2>3. Shaped(Q) /\ Q.ops = P.ops
      BY <2>1, <2>2, PutShaped
    <2>4. sock' = So!WithOp(Q, P.cur, "connect", 0)
      BY <1>1, <1>2, <1>4, Zenon DEF So!connect_starts
    <2>5. P.ops \subseteq sock'.ops
      BY <2>3, <2>4, StartsMore
    <2>6. ~So!Stale(P)
      BY <2>5 DEF So!Stale
    <2> QED
      BY <1>1, <1>2, <2>1, <2>6, OpenedIs
  <1>5. ClosedCurrent(Q) /\ Q.cur = P.cur /\ Q.impls[Q.cur].pending_connect
        /\ Q.impls[Q.cur].conn = conns + 1
    <2>1. ConnectSet(P, Q)
      BY <1>3, <1>4, ConnectFlag
    <2> QED
      BY <1>3, <2>1 DEF ConnectSet
  <1>6. sock' = So!WithOp(Q, Q.cur, "connect", 0)
    BY <1>1, <1>2, <1>4, <1>5 DEF So!connect_starts
  <1>7. Sane(Q) /\ Q.cur \in SocketId
    BY <1>5, CurOwned DEF ClosedCurrent
  <1>8. /\ Sane(sock') /\ sock'.impls = Q.impls /\ sock'.cur = Q.cur
    <2>1. /\ Q.impls[Q.cur].pending_connect
          /\ \A op \in Q.ops : op.impl = Q.cur => op.kind \notin {"connect", "handshake"}
      BY <1>5 DEF ClosedCurrent
    <2>2. OnlyOps(Q, sock', Q.cur)
      BY <1>6, <1>7, <2>1, AttemptStarted
    <2> QED
      BY <2>2 DEF OnlyOps
  <1>9. Ready(sock')
    BY <1>5, <1>8 DEF Ready, ClosedCurrent, Empty
  <1> QED
    BY <1>1, <1>5, <1>8, <1>9 DEF SocketOK

\* also when the address cannot be resolved,
LEMMA ConnectFails ==
  ASSUME SocketOK(sock, live, conns), So!connect_fails, ~So!Stale(sock')
  PROVE  SocketOK(sock', live', conns')
  <1>1. PICK C : C = So!close(sock, sock.cur)
    OBVIOUS
  <1>2. So!CanClose(sock, sock.cur) /\ sock' = [C EXCEPT !.impls[C.cur].pending_connect = TRUE]
        /\ live' = FALSE /\ conns' = conns /\ Sane(sock) /\ conns \in Nat
    BY <1>1 DEF So!connect_fails, SocketOK
  <1>3. ClosedCurrent(C)
    <2>1. Shaped(C) /\ (~So!Stale(C) => NoHandshake(sock, sock.cur))
      BY <1>1, <1>2, CloseTears DEF Sane, Sockets
    <2>2. sock' = Put(C, C.cur, [C.impls[C.cur] EXCEPT !.pending_connect = TRUE])
      BY <1>2, Zenon DEF Put
    <2>3. ~So!Stale(C)
      BY <2>1, <2>2, PutShaped DEF So!Stale
    <2> QED
      BY <1>1, <1>2, <2>1, <2>3, CloseCurrent
  <1>4. ClosedCurrent(sock')
    BY <1>2, <1>3, ConnectFlag DEF ConnectSet
  <1> QED
    BY <1>2, <1>4, ClosedOK

\* and so does taking an accepted connection over.
LEMMA AcceptStep ==
  ASSUME SocketOK(sock, live, conns), NEW ssl \in BOOLEAN, So!accept(ssl), ~So!Stale(sock')
  PROVE  SocketOK(sock', live', conns')
  <1>1. So!CanClose(sock, sock.cur) /\ sock' = So!accept_starts(So!Opened(sock, ssl), ssl)
        /\ live' = TRUE /\ conns' = conns + 1 /\ Sane(sock) /\ conns \in Nat
    BY DEF So!accept, SocketOK
  <1>2. PICK P : P = So!Opened(sock, ssl)
    OBVIOUS
  <1>3. ClosedCurrent(P) /\ P.impls[P.cur].conn = conns + 1
    <2>1. Shaped(P) /\ (~So!Stale(P) => NoHandshake(sock, sock.cur))
      BY <1>1, <1>2, OpenedTears DEF Sane
    <2>2. PICK Q : Q = [P EXCEPT !.impls[P.cur].connected = TRUE]
      OBVIOUS
    <2>3. Q = Put(P, P.cur, [P.impls[P.cur] EXCEPT !.connected = TRUE])
      BY <2>2, Zenon DEF Put
    <2>4. Shaped(Q) /\ Q.ops = P.ops
      BY <2>1, <2>3, PutShaped
    <2>5. sock' = IF ssl THEN So!start_handshake(P, P.cur) ELSE So!start_read(Q, P.cur)
      BY <1>1, <1>2, <2>2, Zenon DEF So!accept_starts
    <2>6. P.ops \subseteq sock'.ops
      BY <2>1, <2>4, <2>5, StartsMore
    <2>7. ~So!Stale(P)
      BY <2>6 DEF So!Stale
    <2> QED
      BY <1>1, <1>2, <2>1, <2>7, OpenedIs
  <1>4. Sane(P) /\ P.cur \in SocketId /\ P.impls[P.cur] \in Impl /\ P.impls[P.cur].owner = TRUE
        /\ Empty(P.impls[P.cur])
    BY <1>3, CurOwned DEF ClosedCurrent
  <1>5. CASE ssl
    <2>1. sock' = So!WithOp(P, P.cur, "handshake", 0)
      BY <1>1, <1>2, <1>4, <1>5 DEF So!accept_starts, So!start_handshake
    <2>2. \A op \in P.ops : op.impl # P.cur
      BY <1>3 DEF ClosedCurrent
    <2>3. /\ Sane(sock') /\ sock'.impls = P.impls /\ sock'.cur = P.cur
      <3>1. OnlyOps(P, sock', P.cur)
        BY <1>4, <2>1, <2>2, AttemptStarted
      <3> QED
        BY <3>1 DEF OnlyOps
    <2>4. Ready(sock')
      BY <1>4, <2>3 DEF Ready, Empty
    <2> QED
      BY <1>1, <1>3, <2>3, <2>4 DEF SocketOK
  <1>6. CASE ~ssl
    <2>1. PICK q : q = [P.impls[P.cur] EXCEPT !.connected = TRUE]
      OBVIOUS
    <2>2. PICK Q : Q = [P EXCEPT !.impls[P.cur].connected = TRUE]
      OBVIOUS
    <2>3. q \in Impl /\ Same(P.impls[P.cur], q) /\ q.connected
          /\ q.incoming = P.impls[P.cur].incoming /\ q.outgoing = P.impls[P.cur].outgoing
          /\ q.shut = P.impls[P.cur].shut /\ q.asked_shutdown = P.impls[P.cur].asked_shutdown
      BY <1>4, <2>1, WithConnected
    <2>4. Q = Put(P, P.cur, q)
      BY <2>1, <2>2, Zenon DEF Put
    <2>5. Proper(q)
      BY <1>4, <2>3, EmptyProper DEF Proper, Same, Empty
    <2>6. Sane(Q) /\ Placed(P, Q, P.cur, q)
      BY <1>4, <2>3, <2>4, <2>5, Changed
    <2>7. Q.cur = P.cur /\ Q.impls[Q.cur] = q
      BY <2>6 DEF Placed
    <2>8. sock' = So!start_read(Q, Q.cur)
      BY <1>1, <1>2, <1>6, <2>2, <2>7 DEF So!accept_starts
    <2>9. ReadStarted(Q, sock', Q.cur)
      BY <1>4, <2>6, <2>7, <2>8, StartRead
    <2>10. Sane(sock') /\ Ready(sock')
      BY <1>4, <2>3, <2>7, <2>9 DEF ReadStarted, Ready, Alike, Same, Empty
    <2>11. sock'.impls[sock'.cur].conn = conns + 1
      BY <1>3, <2>3, <2>7, <2>9 DEF ReadStarted, Alike, Same
    <2> QED
      BY <1>1, <2>10, <2>11 DEF SocketOK
  <1> QED
    BY <1>1, <1>5, <1>6


\* Bytes of one connection, and what the calls and handlers do to them.
AllAre(s, c) == s \in Seq(Nat) /\ \A k \in 1 .. Len(s) : s[k] = c

\* Bytes of one connection stay so when the first is taken off,
LEMMA TailOf ==
  ASSUME NEW s, NEW c, AllAre(s, c), s # <<>>
  PROVE  AllAre(Tail(s), c)
  <1>1. /\ Tail(s) \in Seq(Nat) /\ Len(Tail(s)) = Len(s) - 1
        /\ \A i \in 1 .. Len(Tail(s)) : Tail(s)[i] = s[i + 1]
    BY HeadTailProperties DEF AllAre
  <1>2. Len(s) \in Nat
    BY LenProperties DEF AllAre
  <1> QED
    BY <1>1, <1>2 DEF AllAre

\* when others of it are put behind them,
LEMMA ConcatOf ==
  ASSUME NEW s, NEW c \in Nat, AllAre(s, c), NEW t, AllAre(t, c)
  PROVE  AllAre(s \o t, c)
  <1>1. /\ s \o t \in Seq(Nat) /\ Len(s \o t) = Len(s) + Len(t)
        /\ \A i \in 1 .. Len(s) + Len(t) :
             (s \o t)[i] = IF i <= Len(s) THEN s[i] ELSE t[i - Len(s)]
    BY ConcatProperties DEF AllAre
  <1>2. Len(s) \in Nat /\ Len(t) \in Nat
    BY LenProperties DEF AllAre
  <1> QED
    BY <1>1, <1>2 DEF AllAre

\* one of them
LEMMA AppendOf ==
  ASSUME NEW s, NEW c \in Nat, AllAre(s, c)
  PROVE  AllAre(Append(s, c), c)
  <1>1. s \in Seq(Nat) /\ Len(s) \in Nat
    BY LenProperties DEF AllAre
  <1>2. /\ Append(s, c) \in Seq(Nat) /\ Len(Append(s, c)) = Len(s) + 1
        /\ \A i \in 1 .. Len(s) + 1 : Append(s, c)[i] = IF i <= Len(s) THEN s[i] ELSE c
    BY <1>1, AppendProperties
  <1> QED
    BY <1>1, <1>2 DEF AllAre

\* or any number of new ones,
LEMMA TagsOf ==
  ASSUME NEW n \in Nat, NEW c \in Nat
  PROVE  AllAre(So!Tags(n, c), c)
  <1>1. So!Tags(n, c) = [i \in 1 .. n |-> c]
    BY DEF So!Tags
  <1>2. [i \in 1 .. n |-> c] \in Seq(Nat) /\ Len([i \in 1 .. n |-> c]) = n
    OBVIOUS
  <1> QED
    BY <1>1, <1>2 DEF AllAre

\* and when any number is dropped from the front.
LEMMA DropOf ==
  ASSUME NEW s, NEW c \in Nat, AllAre(s, c), NEW n \in Nat
  PROVE  AllAre(SubSeq(s, n + 1, Len(s)), c) /\ (s = <<>> => SubSeq(s, n + 1, Len(s)) = <<>>)
  <1>1. Len(s) \in Nat
    BY LenProperties DEF AllAre
  <1>2. \A i \in n + 1 .. Len(s) : s[i] \in Nat
    BY <1>1 DEF AllAre
  <1>3. /\ SubSeq(s, n + 1, Len(s)) \in Seq(Nat)
        /\ Len(SubSeq(s, n + 1, Len(s))) = IF n + 1 <= Len(s) THEN Len(s) - (n + 1) + 1 ELSE 0
        /\ \A i \in 1 .. Len(s) - (n + 1) + 1 : SubSeq(s, n + 1, Len(s))[i] = s[n + 1 + i - 1]
    BY <1>1, <1>2, SubSeqProperties
  <1>4. AllAre(SubSeq(s, n + 1, Len(s)), c)
    BY <1>1, <1>3 DEF AllAre
  <1>5. ASSUME s = <<>>
        PROVE  SubSeq(s, n + 1, Len(s)) = <<>>
    <2>1. Len(s) = 0
      BY <1>5
    <2>2. Len(s) < n + 1 /\ n + 1 \in Int /\ Len(s) \in Int
      BY <2>1
    <2> QED
      BY <2>2, SubSeqEmpty
  <1> QED
    BY <1>4, <1>5

\* The bytes of a proper object are those of its connection.
LEMMA ProperBytes ==
  ASSUME NEW q, Proper(q)
  PROVE  AllAre(q.incoming, q.conn) /\ AllAre(q.outgoing, q.conn) /\ q.conn \in Nat
  BY DEF Proper, AllAre, Impl

\* read_some takes bytes and asks for more,
LEMMA ReadStep ==
  ASSUME SocketOK(sock, live, conns), So!read_some
  PROVE  SocketOK(sock', live', conns')
  <1>1. PICK i : i = sock.cur
    OBVIOUS
  <1>2. PICK r : r = sock.impls[i]
    OBVIOUS
  <1>3. Sane(sock) /\ Ready(sock) /\ i \in SocketId /\ r \in Impl /\ r.owner = TRUE
        /\ Proper(r) /\ ObjectOK(sock, i)
    BY <1>1, <1>2, CurOwned DEF SocketOK
  <1>4. PICK P : P = [sock EXCEPT !.impls[i].incoming = Tail(r.incoming)]
    OBVIOUS
  <1>5. r.incoming # <<>> /\ sock' = So!start_read(P, i) /\ live' = live /\ conns' = conns
    BY <1>1, <1>2, <1>4 DEF So!read_some, So!Cur
  <1>6. PICK q : q = [r EXCEPT !.incoming = Tail(r.incoming)]
    OBVIOUS
  <1>7. AllAre(Tail(r.incoming), r.conn)
    BY <1>3, <1>5, ProperBytes, TailOf
  <1>8. q \in Impl /\ Same(r, q) /\ q.incoming = Tail(r.incoming)
        /\ q.connected = r.connected /\ q.outgoing = r.outgoing
        /\ q.shut = r.shut /\ q.asked_shutdown = r.asked_shutdown
    BY <1>3, <1>6, <1>7, WithIncoming DEF AllAre
  <1>9. P = Put(sock, i, q)
    BY <1>2, <1>4, <1>6, Zenon DEF Put
  <1>10. Proper(q)
    BY <1>3, <1>7, <1>8 DEF Proper, AllAre, Same
  <1>11. Sane(P) /\ Placed(sock, P, i, q)
    BY <1>2, <1>3, <1>8, <1>9, <1>10, Changed
  <1>12. P.cur = i /\ P.impls[i] = q /\ P.ops = sock.ops
    BY <1>1, <1>11 DEF Placed
  <1>13. ReadStarted(P, sock', i)
    BY <1>3, <1>5, <1>11, <1>12, StartRead
  <1>14. Ready(sock')
    <2>1. /\ sock'.cur = i /\ sock'.impls[i].connected = r.connected
          /\ sock'.impls[i].outgoing = r.outgoing /\ sock'.impls[i].shut = r.shut
          /\ sock'.impls[i].asked_shutdown = r.asked_shutdown
          /\ sock'.impls[i].pending_write = r.pending_write
          /\ sock'.impls[i].incoming = q.incoming
      BY <1>8, <1>12, <1>13 DEF ReadStarted, Alike, Same
    <2>2. r.connected /\ Len(q.incoming) < SocketSize => sock'.impls[i].pending_read
      BY <1>3, <1>8, <1>12, <1>13 DEF ReadStarted, Same
    <2> QED
      BY <1>1, <1>2, <1>3, <2>1, <2>2 DEF Ready
  <1>15. Sane(sock') /\ sock'.cur = i /\ sock'.impls[i].conn = r.conn
         /\ sock'.impls[i].connected = r.connected
    BY <1>8, <1>12, <1>13 DEF ReadStarted, Alike, Same
  <1>16. ~r.connected => sock'.ops = sock.ops
    BY <1>8, <1>12, <1>13 DEF ReadStarted
  <1> QED
    BY <1>1, <1>2, <1>5, <1>14, <1>15, <1>16 DEF SocketOK

\* write_some puts bytes in and starts sending them
LEMMA WriteStep ==
  ASSUME SocketOK(sock, live, conns), So!write_some
  PROVE  SocketOK(sock', live', conns')
  <1>1. PICK i : i = sock.cur
    OBVIOUS
  <1>2. PICK r : r = sock.impls[i]
    OBVIOUS
  <1>3. Sane(sock) /\ Ready(sock) /\ i \in SocketId /\ r \in Impl /\ r.owner = TRUE
        /\ Proper(r) /\ ObjectOK(sock, i)
    BY <1>1, <1>2, CurOwned DEF SocketOK
  <1>4. PICK P : P = [sock EXCEPT !.impls[i].outgoing = Append(r.outgoing, conns)]
    OBVIOUS
  <1>5. live /\ ~r.asked_shutdown /\ sock' = So!start_write(P, i) /\ live' = live /\ conns' = conns
    BY <1>1, <1>2, <1>4 DEF So!write_some, So!Cur
  <1>6. PICK q : q = [r EXCEPT !.outgoing = Append(r.outgoing, conns)]
    OBVIOUS
  <1>7. AllAre(Append(r.outgoing, conns), r.conn) /\ r.conn = conns
    <2>1. r.conn = conns /\ AllAre(r.outgoing, r.conn) /\ conns \in Nat
      BY <1>1, <1>2, <1>3, <1>5, ProperBytes DEF SocketOK
    <2> QED
      BY <2>1, AppendOf
  <1>8. q \in Impl /\ Same(r, q) /\ q.outgoing = Append(r.outgoing, conns)
        /\ q.connected = r.connected /\ q.incoming = r.incoming
        /\ q.shut = r.shut /\ q.asked_shutdown = r.asked_shutdown
    BY <1>3, <1>6, <1>7, WithOutgoing DEF AllAre
  <1>9. P = Put(sock, i, q)
    BY <1>2, <1>4, <1>6, Zenon DEF Put
  <1>10. Proper(q)
    BY <1>3, <1>5, <1>7, <1>8 DEF Proper, AllAre, Same
  <1>11. Sane(P) /\ Placed(sock, P, i, q)
    BY <1>2, <1>3, <1>8, <1>9, <1>10, Changed
  <1>12. P.cur = i /\ P.impls[i] = q /\ P.ops = sock.ops
    BY <1>1, <1>11 DEF Placed
  <1>13. WriteStarted(P, sock', i)
    BY <1>3, <1>5, <1>11, <1>12, StartWrite
  <1>14. Ready(sock')
    BY <1>1, <1>2, <1>3, <1>5, <1>8, <1>12, <1>13 DEF WriteStarted, Ready, Alike, Same, SocketOK
  <1>15. Sane(sock') /\ sock'.cur = i /\ sock'.impls[i].conn = r.conn
    BY <1>8, <1>12, <1>13 DEF WriteStarted, Alike, Same
  <1> QED
    BY <1>1, <1>2, <1>5, <1>7, <1>14, <1>15 DEF SocketOK

\* What asking for the shutdown changes.
LEMMA AskedIs ==
  ASSUME NEW S, Sane(S), NEW T, T = So!Asked(S), NEW r, r = S.impls[S.cur]
  PROVE  /\ Sane(T) /\ T.cur = S.cur /\ T.ops = S.ops
         /\ Same(r, T.impls[S.cur]) /\ T.impls[S.cur].asked_shutdown
         /\ T.impls[S.cur].connected = r.connected /\ T.impls[S.cur].outgoing = r.outgoing
         /\ T.impls[S.cur].shut = r.shut
  <1>1. PICK i : i = S.cur
    OBVIOUS
  <1>2. i \in SocketId /\ r \in Impl /\ r.owner = TRUE /\ Proper(r)
    BY <1>1, CurOwned
  <1>3. PICK q1 : q1 = [r EXCEPT !.asked_shutdown = TRUE]
    OBVIOUS
  <1>4. PICK q : q = [q1 EXCEPT !.incoming = <<>>]
    OBVIOUS
  <1>5. q1 \in Impl /\ Same(r, q1) /\ q1.asked_shutdown
        /\ q1.connected = r.connected /\ q1.incoming = r.incoming /\ q1.outgoing = r.outgoing
        /\ q1.shut = r.shut
    BY <1>2, <1>3, WithAsked
  <1>6. q \in Impl /\ Same(q1, q) /\ q.incoming = <<>>
        /\ q.connected = q1.connected /\ q.outgoing = q1.outgoing
        /\ q.shut = q1.shut /\ q.asked_shutdown = q1.asked_shutdown
    <2>1. <<>> \in Seq(Nat)
      OBVIOUS
    <2> QED
      BY <1>4, <1>5, <2>1, WithIncoming
  <1>7. T = Put(S, i, q)
    <2>1. [r EXCEPT !.asked_shutdown = TRUE, !.incoming = <<>>] = q
      BY <1>3, <1>4, Zenon
    <2>2. T = [S EXCEPT !.impls[i] = [r EXCEPT !.asked_shutdown = TRUE, !.incoming = <<>>]]
      BY <1>1, Zenon DEF So!Asked
    <2> QED
      BY <2>1, <2>2, Zenon DEF Put
  <1>8. Proper(q) /\ Same(r, q)
    <2>1. Len(<<>>) = 0
      OBVIOUS
    <2> QED
      BY <1>2, <1>5, <1>6, <2>1 DEF Proper, Same
  <1>9. Sane(T) /\ Placed(S, T, i, q)
    BY <1>1, <1>2, <1>7, <1>8, Changed
  <1> QED
    BY <1>1, <1>5, <1>6, <1>8, <1>9 DEF Placed

\* shutdown_both shuts down at once, or after what is still to be sent.
LEMMA ShutdownStep ==
  ASSUME SocketOK(sock, live, conns), So!shutdown_both
  PROVE  SocketOK(sock', live', conns')
  <1>1. PICK r : r = sock.impls[sock.cur]
    OBVIOUS
  <1>2. PICK P : P = So!Asked(sock)
    OBVIOUS
  <1>3. /\ live /\ live' = live /\ conns' = conns
        /\ sock' = IF r.connected /\ ~r.pending_write THEN So!start_shutdown(P, sock.cur) ELSE P
    BY <1>1, <1>2 DEF So!shutdown_both, So!Cur
  <1>4. /\ Sane(sock) /\ Ready(sock) /\ r.conn = conns /\ sock.cur \in SocketId
    BY <1>1, <1>3, CurOwned DEF SocketOK
  <1>5. /\ Sane(P) /\ P.cur = sock.cur /\ P.ops = sock.ops
        /\ Same(r, P.impls[sock.cur]) /\ P.impls[sock.cur].asked_shutdown
        /\ P.impls[sock.cur].connected = r.connected /\ P.impls[sock.cur].outgoing = r.outgoing
        /\ P.impls[sock.cur].shut = r.shut
    BY <1>1, <1>2, <1>4, AskedIs
  <1>6. CASE r.connected /\ ~r.pending_write
    <2>1. sock' = So!start_shutdown(P, sock.cur)
      BY <1>3, <1>6
    <2>2. P.impls[sock.cur].outgoing = <<>>
      BY <1>1, <1>4, <1>5, <1>6 DEF Ready
    <2>3. /\ Sane(sock') /\ sock'.cur = P.cur /\ sock'.ops = P.ops
          /\ Alike(P.impls[sock.cur], sock'.impls[sock.cur]) /\ sock'.impls[sock.cur].shut
          /\ sock'.impls[sock.cur].pending_read = P.impls[sock.cur].pending_read
          /\ sock'.impls[sock.cur].pending_write = P.impls[sock.cur].pending_write
      BY <1>4, <1>5, <2>1, <2>2, StartShutdown
    <2>4. Ready(sock')
      BY <1>1, <1>4, <1>5, <2>2, <2>3 DEF Ready, Alike, Same
    <2> QED
      BY <1>1, <1>3, <1>4, <1>5, <2>3, <2>4 DEF SocketOK, Alike, Same
  <1>7. CASE ~(r.connected /\ ~r.pending_write)
    <2>1. sock' = P
      BY <1>3, <1>7
    <2>2. Ready(P)
      BY <1>1, <1>4, <1>5, <1>7 DEF Ready, Same
    <2> QED
      BY <1>1, <1>3, <1>4, <1>5, <2>1, <2>2 DEF SocketOK, Same
  <1> QED
    BY <1>6, <1>7

\* close() keeps the invariant in every state of the socket,
LEMMA CloseStep ==
  ASSUME SocketOK(sock, live, conns), So!Close, ~So!Stale(sock')
  PROVE  SocketOK(sock', live', conns')
  <1>1. So!CanClose(sock, sock.cur) /\ sock' = So!close(sock, sock.cur)
        /\ live' = FALSE /\ conns' = conns /\ Sane(sock) /\ conns \in Nat
    BY DEF So!Close, SocketOK
  <1>2. ClosedCurrent(sock')
    <2>1. NoHandshake(sock, sock.cur)
      BY <1>1, CloseTears DEF Sane, Sockets
    <2> QED
      BY <1>1, <2>1, CloseCurrent
  <1> QED
    BY <1>1, <1>2, ClosedOK

\* and so does the kernel, when an operation gets its outcome.
LEMMA CompleteStep ==
  ASSUME SocketOK(sock, live, conns), NEW op \in sock.ops, So!Complete(op)
  PROVE  SocketOK(sock', live', conns')
  <1>1. op.st = "wait" /\ live' = live /\ conns' = conns
    BY DEF So!Complete
  <1>2. PICK st \in {"ok", "err"} : \E n \in 0 .. op.n :
          sock' = [sock EXCEPT !.ops = (sock.ops \ {op}) \cup {[op EXCEPT !.st = st, !.n = n]}]
    BY DEF So!Complete
  <1>3. PICK n \in 0 .. op.n :
          sock' = [sock EXCEPT !.ops = (sock.ops \ {op}) \cup {[op EXCEPT !.st = st, !.n = n]}]
    BY <1>2
  <1>4. Sane(sock) /\ op \in Operation
    BY DEF SocketOK, Sane, Sockets
  <1>5. n \in Nat
    BY <1>4 DEF Operation
  <1>6. /\ Sane(sock') /\ sock'.impls = sock.impls /\ sock'.cur = sock.cur
        /\ \A p \in sock'.ops : p \in sock.ops \/ p.impl = op.impl
    <2>1. OnlyOps(sock, sock', op.impl)
      BY <1>3, <1>4, <1>5, Completed, Zenon
    <2> QED
      BY <2>1 DEF OnlyOps
  <1> QED
    BY <1>1, <1>6 DEF SocketOK, Ready

(***************************************************************************)
(* The handlers of the socket                                              *)
(***************************************************************************)
\* T differs from S in object i; the connection in use is the same, and if it is
\* not that of i nothing of it changes.
OnTrack(S, T, i) ==
    /\ Sane(T) /\ T.cur = S.cur /\ T.impls[S.cur].conn = S.impls[S.cur].conn
    /\ T.impls[i].owner = S.impls[i].owner
    /\ i # S.cur => /\ T.impls[S.cur] = S.impls[S.cur]
                    /\ \A o \in T.ops : o.impl = S.cur => o \in S.ops

\* An object with an operation is in use, or its owner has left it.
LEMMA OpOwner ==
  ASSUME NEW S, Sane(S), NEW op \in S.ops, NEW i, i = op.impl
  PROVE  /\ i \in SocketId /\ S.impls[i] \in Impl /\ Proper(S.impls[i]) /\ ObjectOK(S, i)
         /\ i # S.cur => ~S.impls[i].owner
         /\ i = S.cur => S.impls[i].owner
         /\ op \in Operation
  <1>1. i \in SocketId /\ S.impls[i] \in Impl /\ ObjectOK(S, i) /\ op \in Operation
    BY DEF Sane, Sockets, Operation
  <1>2. /\ i # S.cur => ~S.impls[i].owner
        /\ i = S.cur => S.impls[i].owner
    BY <1>1 DEF ObjectOK, Attached
  <1>3. Proper(S.impls[i])
    BY <1>1, <1>2, ProperObjects
  <1> QED
    BY <1>1, <1>2, <1>3

\* A handler that goes on leaves the invariant,
LEMMA GoesOn ==
  ASSUME SocketOK(sock, live, conns), NEW op \in sock.ops, NEW S, OnTrack(sock, S, op.impl),
         Ready(S), NEW T, T = So!Released(S)
  PROVE  SocketOK(T, live, conns)
  <1>1. /\ Sane(T) /\ T.ops = S.ops /\ T.cur = S.cur
        /\ T.impls[T.cur] = S.impls[S.cur]
    BY ReleasedIs DEF OnTrack
  <1>2. Ready(T)
    BY <1>1 DEF Ready
  <1>3. live => T.impls[T.cur].conn = conns
    BY <1>1 DEF OnTrack, SocketOK
  <1>4. ASSUME ~live
        PROVE  ~T.impls[T.cur].connected /\ \A o \in T.ops : o.impl # T.cur
    BY <1>1, <1>4 DEF OnTrack, SocketOK
  <1> QED
    BY <1>1, <1>2, <1>3, <1>4 DEF SocketOK

\* and so does one that closes the socket: the one of its owner only.
LEMMA FailsOK ==
  ASSUME SocketOK(sock, live, conns), NEW op \in sock.ops, NEW S, OnTrack(sock, S, op.impl),
         So!failed(S, op.impl), ~So!Stale(sock')
  PROVE  SocketOK(sock', live', conns)
  <1>0. PICK i : i = op.impl
    OBVIOUS
  <1>1. PICK C : C = So!close(S, i)
    OBVIOUS
  <1>2. /\ So!CanClose(S, i) /\ sock' = So!Released(C)
        /\ live' = IF S.impls[i].owner THEN FALSE ELSE live
    BY <1>0, <1>1 DEF So!failed
  <1>3. Sane(sock) /\ Sane(S) /\ S.cur = sock.cur /\ i \in SocketId /\ S.impls[i] \in Impl
    BY <1>0, OpOwner DEF SocketOK, OnTrack, Sane, Sockets
  <1>6. NoHandshake(S, i)
    <2>1. Shaped(C) /\ (~So!Stale(C) => NoHandshake(S, i))
      BY <1>1, <1>3, CloseTears DEF Sane
    <2>2. sock'.ops = C.ops
      BY <1>2, <2>1 DEF So!Released, Shaped
    <2> QED
      BY <2>1, <2>2 DEF So!Stale
  <1>4. CASE i = S.cur
    <2>1. ClosedCurrent(C)
      BY <1>1, <1>2, <1>3, <1>4, <1>6, CloseCurrent
    <2>2. /\ Sane(sock') /\ sock'.ops = C.ops /\ sock'.cur = C.cur
          /\ sock'.impls[sock'.cur] = C.impls[C.cur]
      BY <1>2, <2>1, ReleasedIs DEF ClosedCurrent
    <2>3. ClosedCurrent(sock')
      BY <2>1, <2>2 DEF ClosedCurrent
    <2>4. live' = FALSE
      BY <1>2, <1>3, <1>4, CurOwned
    <2> QED
      BY <2>3, <2>4, ClosedOK DEF SocketOK
  <1>5. CASE i # S.cur
    <2>1. S.impls[i].owner = FALSE
      BY <1>0, <1>3, <1>5, OpOwner DEF OnTrack, Impl
    <2>2. /\ Sane(C) /\ C.cur = S.cur /\ C.impls[S.cur] = S.impls[S.cur]
          /\ C.impls[i].owner = FALSE
          /\ \A o \in C.ops : o.impl = S.cur => o \in S.ops
      BY <1>1, <1>3, <1>5, <1>6, <2>1, CloseOther
    <2>3. OnTrack(sock, C, i)
      BY <1>0, <1>3, <1>5, <2>1, <2>2 DEF OnTrack
    <2>4. Ready(C)
      BY <1>0, <1>3, <1>5, <2>2 DEF Ready, OnTrack, SocketOK
    <2>5. live' = live
      BY <1>2, <2>1
    <2> QED
      BY <1>0, <1>2, <2>3, <2>4, <2>5, GoesOn
  <1> QED
    BY <1>4, <1>5

\* What a handler leaves, and whom it calls.
HandledOK(op) ==
    /\ ~So!Stale(sock') => SocketOK(sock', live', conns')
    /\ called' # "none" => sock.impls[op.impl].owner

\* The three outcomes of a handler: aborted, failed and completed.
LEMMA OutcomeOK ==
  ASSUME SocketOK(sock, live, conns), NEW op \in sock.ops, op.st # "wait",
         NEW S, OnTrack(sock, S, op.impl),
         op.st = "abort" => Ready(S),
         NEW T, OnTrack(sock, T, op.impl), op.st = "ok" => Ready(T),
         So!Outcome(op, S, T)
  PROVE  HandledOK(op)
  <1>1. op.st \in {"ok", "err", "abort"} /\ conns' = conns
    BY OpOwner DEF Operation, So!Outcome, SocketOK
  <1>2. CASE op.st = "ok"
    <2>1. sock' = So!Released(T) /\ live' = live /\ (called' # "none" => T.impls[op.impl].owner)
      BY <1>2 DEF So!Outcome, So!succeeded
    <2> QED
      BY <1>1, <1>2, <2>1, GoesOn DEF HandledOK, OnTrack
  <1>3. CASE op.st = "err"
    <2>1. So!failed(S, op.impl)
      BY <1>3 DEF So!Outcome
    <2>2. called' # "none" => S.impls[op.impl].owner
      BY <2>1 DEF So!failed
    <2> QED
      BY <1>1, <2>1, <2>2, FailsOK DEF HandledOK, OnTrack
  <1>4. CASE op.st = "abort"
    <2>1. sock' = So!Released(S) /\ live' = live /\ called' = "none"
      BY <1>4 DEF So!Outcome, So!ignored
    <2> QED
      BY <1>1, <1>4, <2>1, GoesOn DEF HandledOK
  <1> QED
    BY <1>1, <1>2, <1>3, <1>4

\* The state of the objects when a finished operation is taken from the queue,
\* and the flag of its kind reset.
LEMMA Removed ==
  ASSUME Sane(sock), NEW op \in sock.ops, NEW i, i = op.impl, NEW q \in Impl
  PROVE  /\ Put(So!Without(op), i, q) = [impls |-> [sock.impls EXCEPT ![i] = q],
                                         ops |-> sock.ops \ {op}, cur |-> sock.cur]
         /\ So!Without(op) \in Sockets /\ So!Without(op).impls = sock.impls
         /\ So!Without(op).ops = sock.ops \ {op} /\ So!Without(op).cur = sock.cur
  <1>1. sock \in Sockets /\ i \in SocketId
    BY OpOwner DEF Sane
  <1>2. So!Without(op) = [impls |-> sock.impls, ops |-> sock.ops \ {op}, cur |-> sock.cur]
    BY <1>1 DEF So!Without, Sockets
  <1>3. So!Without(op) \in Sockets
    BY <1>1, <1>2 DEF Sockets
  <1>4. Placed(So!Without(op), Put(So!Without(op), i, q), i, q)
    BY <1>1, <1>3, PutIs
  <1> QED
    BY <1>2, <1>3, <1>4 DEF Placed

\* The finished state S: object i is q, and op is gone.
Finished(S, op, i, q) ==
    /\ Sane(S) /\ OnTrack(sock, S, i) /\ S.impls[i] = q /\ S.cur = sock.cur
    /\ S.ops = sock.ops \ {op}

\* What taking an operation out of the event loop leaves to its handler.
LEMMA FinishedIs ==
  ASSUME Sane(sock), NEW op \in sock.ops, NEW i, i = op.impl, NEW r, r = sock.impls[i],
         NEW q \in Impl, Rest(r, q),
         q.pending_read = IF op.kind = "read" THEN FALSE ELSE r.pending_read,
         q.pending_write = IF op.kind = "write" THEN FALSE ELSE r.pending_write,
         op.kind \notin {"connect", "handshake"} => q.pending_connect = r.pending_connect,
         NEW S, S = Put(So!Without(op), i, q)
  PROVE  Finished(S, op, i, q)
  <1>1. S = [impls |-> [sock.impls EXCEPT ![i] = q], ops |-> sock.ops \ {op}, cur |-> sock.cur]
    BY Removed
  <1>2. Proper(r)
    BY OpOwner
  <1>3. Proper(q)
    BY <1>2 DEF Proper, Rest
  <1>4. q.owner = r.owner /\ q.conn = r.conn
    BY DEF Rest
  <1>5. Sane(S) /\ S.impls[i] = q /\ S.cur = sock.cur /\ S.ops = sock.ops \ {op}
        /\ \A j \in SocketId : j # i => S.impls[j] = sock.impls[j]
    <2>1. OpGone(sock, S, op, i, q)
      BY <1>1, <1>3, <1>4, Finish, Zenon
    <2> QED
      BY <2>1 DEF OpGone
  <1>6. OnTrack(sock, S, i)
    <2>1. sock.cur \in SocketId
      BY CurOwned
    <2> QED
      BY <1>4, <1>5, <2>1 DEF OnTrack
  <1> QED
    BY <1>5, <1>6 DEF Finished

\* The object in use has no aborted transfer.
LEMMA AbortReady ==
  ASSUME SocketOK(sock, live, conns), NEW op \in sock.ops, op.kind \in {"read", "write"}, op.st = "abort",
         NEW S, OnTrack(sock, S, op.impl)
  PROVE  Ready(S)
  <1>1. ObjectOK(sock, op.impl)
    BY OpOwner DEF SocketOK
  <1>2. op.impl # sock.cur
    BY <1>1 DEF ObjectOK, Attached
  <1> QED
    BY <1>2 DEF OnTrack, SocketOK, Ready

\* handle_read: of the connection in use, or late, of one that was closed.
LEMMA HandleRead ==
  ASSUME SocketOK(sock, live, conns), NEW op \in sock.ops, op.st # "wait", So!handle_read(op)
  PROVE  HandledOK(op)
  <1>0. PICK i : i = op.impl
    OBVIOUS
  <1>00. PICK r : r = sock.impls[i]
    OBVIOUS
  <1>1. /\ Sane(sock) /\ i \in SocketId /\ r \in Impl /\ Proper(r) /\ ObjectOK(sock, i)
        /\ i # sock.cur => ~r.owner
        /\ op \in Operation
    BY <1>0, <1>00, OpOwner DEF SocketOK
  <1>2. PICK q : q = [r EXCEPT !.pending_read = FALSE]
    OBVIOUS
  <1>3. q \in Impl /\ Rest(r, q) /\ q.pending_read = FALSE
        /\ q.pending_write = r.pending_write /\ q.pending_connect = r.pending_connect
    BY <1>1, <1>2, ReadOver
  <1>4. PICK S : S = [So!Without(op) EXCEPT !.impls[i].pending_read = FALSE]
    OBVIOUS
  <1>5. op.kind = "read"
    BY DEF So!handle_read
  <1>6. S = Put(So!Without(op), i, q)
    <2>1. S = Put(So!Without(op), i, [So!Without(op).impls[i] EXCEPT !.pending_read = FALSE])
      BY <1>4, Zenon DEF Put
    <2>2. So!Without(op).impls = sock.impls
      BY <1>0, <1>1, <1>3, Removed
    <2> QED
      BY <1>00, <1>2, <2>1, <2>2, Zenon
  <1>7. Finished(S, op, i, q)
    BY <1>0, <1>00, <1>1, <1>3, <1>5, <1>6, FinishedIs
  <1>8. PICK R : R = IF S.impls[i].asked_shutdown THEN S
                     ELSE [S EXCEPT !.impls[i].incoming = S.impls[i].incoming \o So!Tags(op.n, op.conn)]
    OBVIOUS
  <1>9. PICK T : T = So!start_read(R, i)
    OBVIOUS
  <1>10. So!Outcome(op, S, T)
    BY <1>0, <1>4, <1>8, <1>9, Zenon DEF So!handle_read
  <1>11. \E p \in Impl : /\ Sane(R) /\ OnTrack(sock, R, i) /\ R.impls[i] = p /\ R.cur = sock.cur
                         /\ p.owner = r.owner /\ p.conn = r.conn /\ p.connected = r.connected
                         /\ p.outgoing = r.outgoing /\ p.shut = r.shut
                         /\ p.asked_shutdown = r.asked_shutdown /\ p.pending_write = r.pending_write
    <2>1. CASE r.asked_shutdown
      <3>1. R = S
        BY <1>3, <1>7, <1>8, <2>1 DEF Finished, Rest
      <3> QED
        BY <1>3, <1>7, <3>1 DEF Finished, Rest
    <2>2. CASE ~r.asked_shutdown
      <3>1. PICK bytes : bytes = q.incoming \o So!Tags(op.n, op.conn)
        OBVIOUS
      <3>2. PICK p : p = [q EXCEPT !.incoming = bytes]
        OBVIOUS
      <3>3. R = Put(S, i, p)
        <4>1. R = [S EXCEPT !.impls[i].incoming = bytes]
          BY <1>3, <1>7, <1>8, <2>2, <3>1 DEF Finished, Rest
        <4>2. R = Put(S, i, [S.impls[i] EXCEPT !.incoming = bytes])
          BY <4>1, Zenon DEF Put
        <4> QED
          BY <1>7, <3>2, <4>2 DEF Finished
      <3>4. AllAre(bytes, q.conn)
        <4>1. op.conn = q.conn /\ op.n \in Nat
          BY <1>0, <1>00, <1>1, <1>3, <1>5 DEF ObjectOK, Tagged, Operation, Rest
        <4>2. Proper(q)
          BY <1>1, <1>3 DEF Proper, Rest
        <4>3. AllAre(q.incoming, q.conn) /\ q.conn \in Nat
          BY <4>2, ProperBytes
        <4>4. AllAre(So!Tags(op.n, op.conn), q.conn)
          BY <4>1, <4>3, TagsOf
        <4> QED
          BY <3>1, <4>3, <4>4, ConcatOf
      <3>5. p \in Impl /\ Same(q, p) /\ p.incoming = bytes
            /\ p.connected = q.connected /\ p.outgoing = q.outgoing
            /\ p.shut = q.shut /\ p.asked_shutdown = q.asked_shutdown
        BY <1>3, <3>2, <3>4, WithIncoming DEF AllAre
      <3>6. Proper(p)
        BY <1>1, <1>3, <3>4, <3>5 DEF Proper, AllAre, Same, Rest
      <3>7. Sane(R) /\ Placed(S, R, i, p)
        BY <1>1, <1>7, <3>3, <3>5, <3>6, Changed DEF Finished
      <3>8. /\ R.impls[i] = p /\ R.cur = sock.cur /\ R.ops = S.ops
            /\ \A j \in SocketId : j # i => R.impls[j] = S.impls[j]
        BY <1>7, <3>7 DEF Placed, Finished
      <3>9. sock.cur \in SocketId /\ p.conn = r.conn /\ p.owner = r.owner
            /\ p.pending_write = r.pending_write /\ p.connected = r.connected
            /\ p.outgoing = r.outgoing /\ p.shut = r.shut /\ p.asked_shutdown = r.asked_shutdown
        BY <1>1, <1>3, <3>5, CurOwned DEF Same, Rest
      <3>10. OnTrack(sock, R, i)
        BY <1>00, <1>7, <3>7, <3>8, <3>9 DEF OnTrack, Finished
      <3> QED
        BY <3>5, <3>7, <3>8, <3>9, <3>10
    <2> QED
      BY <2>1, <2>2
  <1>12. PICK p \in Impl : /\ Sane(R) /\ OnTrack(sock, R, i) /\ R.impls[i] = p /\ R.cur = sock.cur
                         /\ p.owner = r.owner /\ p.conn = r.conn /\ p.connected = r.connected
                         /\ p.outgoing = r.outgoing /\ p.shut = r.shut
                         /\ p.asked_shutdown = r.asked_shutdown /\ p.pending_write = r.pending_write
    BY <1>11
  <1>13. ReadStarted(R, T, i)
    BY <1>1, <1>9, <1>12, StartRead
  <1>14. OnTrack(sock, T, i)
    <2>1. CASE i = sock.cur
      BY <1>00, <1>12, <1>13, <2>1 DEF OnTrack, ReadStarted, Alike
    <2>2. CASE i # sock.cur
      BY <1>1, <1>12, <1>13, <2>2 DEF ReadStarted
    <2> QED
      BY <2>1, <2>2
  <1>15. Ready(T)
    <2>1. CASE i = sock.cur
      <3>1. /\ T.cur = i /\ T.impls[i].connected = r.connected
            /\ T.impls[i].outgoing = r.outgoing /\ T.impls[i].shut = r.shut
            /\ T.impls[i].asked_shutdown = r.asked_shutdown
            /\ T.impls[i].pending_write = r.pending_write
            /\ T.impls[i].incoming = p.incoming
        BY <1>12, <1>13, <2>1 DEF ReadStarted, Alike
      <3>2. r.connected /\ Len(p.incoming) < SocketSize => T.impls[i].pending_read
        <4>1. r.owner
          BY <1>0, <1>00, <1>1, <2>1, OpOwner
        <4> QED
          BY <1>12, <1>13, <4>1 DEF ReadStarted
      <3>3. Ready(sock)
        BY DEF SocketOK
      <3> QED
        BY <1>00, <2>1, <3>1, <3>2, <3>3 DEF Ready
    <2>2. CASE i # sock.cur
      BY <1>14, <2>2 DEF OnTrack, SocketOK, Ready
    <2> QED
      BY <2>1, <2>2
  <1>16. op.st = "abort" => Ready(S)
    BY <1>0, <1>5, <1>7, AbortReady DEF Finished
  <1>17. OnTrack(sock, S, op.impl)
    BY <1>0, <1>00, <1>3, <1>7 DEF Finished, Rest
  <1> QED
    BY <1>0, <1>10, <1>14, <1>15, <1>16, <1>17, OutcomeOK

\* handle_write
LEMMA HandleWrite ==
  ASSUME SocketOK(sock, live, conns), NEW op \in sock.ops, op.st # "wait", So!handle_write(op)
  PROVE  HandledOK(op)
  <1>0. PICK i : i = op.impl
    OBVIOUS
  <1>00. PICK r : r = sock.impls[i]
    OBVIOUS
  <1>1. /\ Sane(sock) /\ i \in SocketId /\ r \in Impl /\ Proper(r) /\ ObjectOK(sock, i)
        /\ i # sock.cur => ~r.owner
        /\ i = sock.cur => r.owner
        /\ op \in Operation
    BY <1>0, <1>00, OpOwner DEF SocketOK
  <1>2. PICK q : q = [r EXCEPT !.pending_write = FALSE]
    OBVIOUS
  <1>3. q \in Impl /\ Rest(r, q) /\ q.pending_write = FALSE
        /\ q.pending_read = r.pending_read /\ q.pending_connect = r.pending_connect
    BY <1>1, <1>2, WriteOver
  <1>4. PICK S : S = [So!Without(op) EXCEPT !.impls[i].pending_write = FALSE]
    OBVIOUS
  <1>5. op.kind = "write"
    BY DEF So!handle_write
  <1>6. S = Put(So!Without(op), i, q)
    <2>1. S = Put(So!Without(op), i, [So!Without(op).impls[i] EXCEPT !.pending_write = FALSE])
      BY <1>4, Zenon DEF Put
    <2>2. So!Without(op).impls = sock.impls
      BY <1>0, <1>1, <1>3, Removed
    <2> QED
      BY <1>00, <1>2, <2>1, <2>2, Zenon
  <1>7. Finished(S, op, i, q)
    BY <1>0, <1>00, <1>1, <1>3, <1>5, <1>6, FinishedIs
  <1>8. PICK bytes : bytes = SubSeq(q.outgoing, op.n + 1, Len(q.outgoing))
    OBVIOUS
  <1>9. PICK W : W = [S EXCEPT !.impls[i].outgoing = SubSeq(S.impls[i].outgoing, op.n + 1, Len(S.impls[i].outgoing))]
    OBVIOUS
  <1>10. PICK T : T = So!start_write(W, i)
    OBVIOUS
  <1>11. So!Outcome(op, S, T)
    BY <1>0, <1>4, <1>9, <1>10, Zenon DEF So!handle_write
  <1>12. AllAre(bytes, q.conn) /\ (q.outgoing = <<>> => bytes = <<>>)
    <2>1. op.n \in Nat
      BY <1>1, <1>5 DEF Operation
    <2>2. Proper(q)
      BY <1>1, <1>3 DEF Proper, Rest
    <2>3. AllAre(q.outgoing, q.conn) /\ q.conn \in Nat
      BY <2>2, ProperBytes
    <2> QED
      BY <1>8, <2>1, <2>3, DropOf
  <1>13. PICK p : p = [q EXCEPT !.outgoing = bytes]
    OBVIOUS
  <1>14. p \in Impl /\ Same(q, p) /\ p.outgoing = bytes
         /\ p.connected = q.connected /\ p.incoming = q.incoming
         /\ p.shut = q.shut /\ p.asked_shutdown = q.asked_shutdown
    BY <1>3, <1>12, <1>13, WithOutgoing DEF AllAre
  <1>15. Proper(p)
    BY <1>1, <1>3, <1>12, <1>14 DEF Proper, AllAre, Same, Rest
  <1>16. W = Put(S, i, p)
    <2>1. S.impls[i] = q
      BY <1>7 DEF Finished
    <2>2. W = [S EXCEPT !.impls[i].outgoing = bytes]
      BY <1>8, <1>9, <2>1
    <2>3. W = Put(S, i, [S.impls[i] EXCEPT !.outgoing = bytes])
      BY <2>2, Zenon DEF Put
    <2> QED
      BY <1>13, <2>1, <2>3
  <1>17. Sane(W) /\ Placed(S, W, i, p)
    BY <1>1, <1>7, <1>14, <1>15, <1>16, Changed DEF Finished
  <1>18. /\ W.impls[i] = p /\ W.cur = sock.cur /\ W.ops = S.ops
         /\ \A j \in SocketId : j # i => W.impls[j] = S.impls[j]
    BY <1>7, <1>17 DEF Placed, Finished
  <1>19. sock.cur \in SocketId /\ p.conn = r.conn /\ p.owner = r.owner
         /\ p.pending_read = r.pending_read /\ p.connected = r.connected
         /\ p.incoming = r.incoming /\ p.asked_shutdown = r.asked_shutdown
    BY <1>1, <1>3, <1>14, CurOwned DEF Same, Rest
  <1>20. OnTrack(sock, W, i)
    BY <1>00, <1>7, <1>17, <1>18, <1>19 DEF OnTrack, Finished
  <1>21. WriteStarted(W, T, i)
    BY <1>1, <1>10, <1>17, <1>18, <1>19, StartWrite
  <1>22. OnTrack(sock, T, i)
    <2>1. CASE i = sock.cur
      BY <1>00, <1>18, <1>19, <1>21, <2>1 DEF OnTrack, WriteStarted, Alike
    <2>2. CASE i # sock.cur
      BY <1>1, <1>18, <1>19, <1>20, <1>21, <2>2 DEF WriteStarted
    <2> QED
      BY <2>1, <2>2
  <1>23. Ready(T)
    <2>1. CASE i = sock.cur
      <3>1. /\ T.cur = i /\ T.impls[i].connected = r.connected
            /\ T.impls[i].incoming = r.incoming
            /\ T.impls[i].asked_shutdown = r.asked_shutdown
            /\ T.impls[i].pending_read = r.pending_read
            /\ T.impls[i].outgoing = p.outgoing
        BY <1>18, <1>19, <1>21, <2>1 DEF WriteStarted, Alike
      <3>2. r.connected =>
              /\ p.outgoing # <<>> => T.impls[i].pending_write
              /\ r.asked_shutdown => T.impls[i].shut \/ T.impls[i].pending_write
        BY <1>1, <1>18, <1>19, <1>21, <2>1 DEF WriteStarted
      <3>3. Ready(sock)
        BY DEF SocketOK
      <3> QED
        BY <1>00, <2>1, <3>1, <3>2, <3>3 DEF Ready
    <2>2. CASE i # sock.cur
      BY <1>22, <2>2 DEF OnTrack, SocketOK, Ready
    <2> QED
      BY <2>1, <2>2
  <1>24. op.st = "abort" => Ready(S)
    BY <1>0, <1>5, <1>7, AbortReady DEF Finished
  <1>25. OnTrack(sock, S, op.impl)
    BY <1>0, <1>00, <1>3, <1>7 DEF Finished, Rest
  <1> QED
    BY <1>0, <1>11, <1>22, <1>23, <1>24, <1>25, OutcomeOK

\* connected_now: the connection is made, and its read and write are started.
LEMMA ConnectedNow ==
  ASSUME SocketOK(sock, live, conns), NEW i \in SocketId, NEW S, OnTrack(sock, S, i),
         i # sock.cur => ~S.impls[i].owner,
         i = sock.cur => S.impls[i].owner,
         NEW T, T = So!connected_now(S, i)
  PROVE  OnTrack(sock, T, i) /\ Ready(T)
  <1>1. PICK r : r = S.impls[i]
    OBVIOUS
  <1>2. Sane(S) /\ S.cur = sock.cur /\ r \in Impl /\ Proper(r)
    BY <1>1, ProperObjects DEF OnTrack, Sane, Sockets
  <1>3. PICK q : q = [r EXCEPT !.connected = TRUE]
    OBVIOUS
  <1>4. q \in Impl /\ Same(r, q) /\ q.connected
        /\ q.incoming = r.incoming /\ q.outgoing = r.outgoing
        /\ q.shut = r.shut /\ q.asked_shutdown = r.asked_shutdown
    BY <1>2, <1>3, WithConnected
  <1>5. Proper(q)
    BY <1>2, <1>4 DEF Proper, Same
  <1>6. PICK C : C = [S EXCEPT !.impls[i].connected = TRUE]
    OBVIOUS
  <1>7. PICK R : R = So!start_read(C, i)
    OBVIOUS
  <1>8. T = So!start_write(R, i)
    BY <1>6, <1>7, Zenon DEF So!connected_now
  <1>9. C = Put(S, i, q)
    <2>1. C = Put(S, i, [S.impls[i] EXCEPT !.connected = TRUE])
      BY <1>6, Zenon DEF Put
    <2> QED
      BY <1>1, <1>3, <2>1
  <1>10. Sane(C) /\ Placed(S, C, i, q)
    BY <1>1, <1>2, <1>4, <1>5, <1>9, Changed
  <1>11. /\ C.impls[i] = q /\ C.cur = sock.cur /\ C.ops = S.ops
         /\ \A j \in SocketId : j # i => C.impls[j] = S.impls[j]
    BY <1>2, <1>10 DEF Placed
  <1>12. ReadStarted(C, R, i)
    BY <1>1, <1>4, <1>7, <1>10, <1>11, StartRead DEF Same
  <1>13. Sane(R) /\ R.cur = sock.cur /\ (i # R.cur => ~R.impls[i].owner)
    BY <1>1, <1>4, <1>11, <1>12 DEF ReadStarted, Same, Alike
  <1>14. WriteStarted(R, T, i)
    BY <1>8, <1>13, StartWrite
  <1>15. Sane(T) /\ T.cur = sock.cur /\ sock.cur \in SocketId
    BY <1>13, <1>14, CurOwned DEF WriteStarted, SocketOK
  <1>16. CASE i = sock.cur
    <2>1. /\ R.impls[i].connected /\ R.impls[i].owner /\ R.impls[i].conn = r.conn
          /\ R.impls[i].incoming = r.incoming
          /\ R.impls[i].owner = r.owner
          /\ Len(r.incoming) < SocketSize => R.impls[i].pending_read
      BY <1>1, <1>4, <1>11, <1>12, <1>16 DEF ReadStarted, Same, Alike
    <2>2. /\ T.impls[i].conn = r.conn /\ T.impls[i].incoming = r.incoming
          /\ T.impls[i].owner = R.impls[i].owner
          /\ Len(r.incoming) < SocketSize => T.impls[i].pending_read
          /\ T.impls[i].outgoing # <<>> => T.impls[i].pending_write
          /\ T.impls[i].asked_shutdown => T.impls[i].shut \/ T.impls[i].pending_write
      BY <1>14, <2>1 DEF WriteStarted, Alike
    <2>3. Ready(T)
      BY <1>15, <1>16, <2>2 DEF Ready
    <2>4. OnTrack(sock, T, i)
      BY <1>1, <1>15, <1>16, <2>1, <2>2 DEF OnTrack
    <2> QED
      BY <2>3, <2>4
  <1>17. CASE i # sock.cur
    <2>1. R = C /\ T = R
      <3>1. ~q.owner
        BY <1>1, <1>4, <1>17 DEF Same
      <3>2. R = C
        BY <1>11, <1>12, <3>1 DEF ReadStarted
      <3> QED
        BY <1>11, <1>14, <3>1, <3>2 DEF WriteStarted
    <2>2. OnTrack(sock, T, i)
      BY <1>1, <1>4, <1>10, <1>11, <1>15, <1>17, <2>1 DEF OnTrack, Same
    <2>3. Ready(T)
      BY <1>15, <1>17, <2>2 DEF OnTrack, Ready, SocketOK
    <2> QED
      BY <2>2, <2>3
  <1> QED
    BY <1>16, <1>17

\* The end of a connection attempt.
LEMMA AttemptEnds ==
  ASSUME SocketOK(sock, live, conns), NEW op \in sock.ops, op.st # "wait",
         op.kind \in {"connect", "handshake"},
         NEW S, S = [So!Without(op) EXCEPT !.impls[op.impl].pending_connect = FALSE],
         So!Outcome(op, S, So!connected_now(S, op.impl))
  PROVE  HandledOK(op)
  <1>0. PICK i : i = op.impl
    OBVIOUS
  <1>00. PICK r : r = sock.impls[i]
    OBVIOUS
  <1>1. /\ Sane(sock) /\ i \in SocketId /\ r \in Impl
        /\ i # sock.cur => ~r.owner
        /\ i = sock.cur => r.owner
    BY <1>0, <1>00, OpOwner DEF SocketOK
  <1>2. PICK q : q = [r EXCEPT !.pending_connect = FALSE]
    OBVIOUS
  <1>3. q \in Impl /\ Rest(r, q) /\ q.pending_connect = FALSE
        /\ q.pending_read = r.pending_read /\ q.pending_write = r.pending_write
    BY <1>1, <1>2, ConnectOver
  <1>4. S = Put(So!Without(op), i, q)
    <2>1. S = Put(So!Without(op), i, [So!Without(op).impls[i] EXCEPT !.pending_connect = FALSE])
      BY <1>0, Zenon DEF Put
    <2>2. So!Without(op).impls = sock.impls
      BY <1>0, <1>1, <1>3, Removed
    <2> QED
      BY <1>00, <1>2, <2>1, <2>2, Zenon
  <1>5. Finished(S, op, i, q)
    BY <1>0, <1>00, <1>1, <1>3, <1>4, FinishedIs
  <1>6. Ready(S)
    <2>1. CASE i = sock.cur
      BY <1>00, <1>3, <1>5, <2>1 DEF Ready, SocketOK, Finished, Rest
    <2>2. CASE i # sock.cur
      BY <1>5, <2>2 DEF Ready, SocketOK, Finished, OnTrack
    <2> QED
      BY <2>1, <2>2
  <1>7. PICK T : T = So!connected_now(S, i)
    OBVIOUS
  <1>8. OnTrack(sock, T, i) /\ Ready(T)
    BY <1>00, <1>1, <1>3, <1>5, <1>7, ConnectedNow DEF Finished, Rest
  <1>9. OnTrack(sock, S, op.impl)
    BY <1>0, <1>00, <1>3, <1>5 DEF Finished, Rest
  <1> QED
    BY <1>0, <1>6, <1>7, <1>8, <1>9, OutcomeOK

\* handle_connect, whose handshake or first read follows
LEMMA HandleConnect ==
  ASSUME SocketOK(sock, live, conns), NEW op \in sock.ops, op.st # "wait", So!handle_connect(op)
  PROVE  HandledOK(op)
  <1>0. PICK i : i = op.impl
    OBVIOUS
  <1>1. /\ Sane(sock) /\ i \in SocketId /\ sock.impls[i] \in Impl /\ ObjectOK(sock, i)
        /\ i # sock.cur => ~sock.impls[i].owner
    BY <1>0, OpOwner DEF SocketOK
  <1>2. op.kind = "connect"
    BY DEF So!handle_connect
  <1>3. CASE op.st = "ok" /\ sock.impls[i].ssl
    <2>1. PICK W : W = So!Without(op)
      OBVIOUS
    <2>0. PICK U : U = So!start_handshake(W, i)
      OBVIOUS
    <2>02. sock' = So!Released(U) /\ live' = live /\ conns' = conns /\ called' = "none"
      BY <1>0, <1>3, <2>0, <2>1 DEF So!handle_connect, So!ignored
    <2>03. So!Stale(sock') \/ U = So!WithOp(W, i, "handshake", 0)
      <3> SUFFICES ASSUME U # So!WithOp(W, i, "handshake", 0)
                   PROVE  So!Stale(sock')
        OBVIOUS
      <3>1. PICK o1 : o1 = So!Op(W, i, "handshake", 0)
        OBVIOUS
      <3>2. PICK o : o = [o1 EXCEPT !.st = "stale"]
        OBVIOUS
      <3>3. o.st = "stale"
        BY <3>1, <3>2 DEF So!Op
      <3>4. U = [W EXCEPT !.ops = W.ops \cup {o}]
        BY <2>0, <3>1, <3>2, Zenon DEF So!start_handshake
      <3>5. W \in Sockets
        BY <1>0, <1>1, <2>1, Removed
      <3>6. Shaped(U) /\ o \in U.ops
        BY <3>4, <3>5 DEF Shaped, Sockets
      <3>7. o \in sock'.ops
        BY <2>02, <3>6 DEF So!Released, Shaped
      <3> QED
        BY <3>3, <3>7 DEF So!Stale
    <2>2. PICK T : T = So!WithOp(W, i, "handshake", 0)
      OBVIOUS
    <2>3. ~So!Stale(sock') => sock' = So!Released(T)
      BY <2>02, <2>03, <2>2
    <2>4. PICK r : r = sock.impls[i]
      OBVIOUS
    <2>5. W = Put(W, i, r)
      <3>1. W \in Sockets /\ W.impls = sock.impls
        BY <1>0, <1>1, <2>1, Removed
      <3>2. Placed(W, Put(W, i, r), i, r)
        BY <1>1, <2>4, <3>1, PutIs
      <3> QED
        BY <1>1, <2>4, <3>1, <3>2 DEF Placed, Sockets
    <2>6. Finished(W, op, i, r)
      <3>1. Rest(r, r) /\ r \in Impl
        BY <1>1, <2>4 DEF Rest
      <3>2. r.pending_read = IF op.kind = "read" THEN FALSE ELSE r.pending_read
        BY <1>2
      <3>3. r.pending_write = IF op.kind = "write" THEN FALSE ELSE r.pending_write
        BY <1>2
      <3> QED
        BY <1>0, <1>1, <2>1, <2>4, <2>5, <3>1, <3>2, <3>3, FinishedIs
    <2>7. OnlyOps(W, T, i)
      <3>1. \A o \in W.ops : o.impl = i => o.kind \notin {"connect", "handshake"}
        BY <1>0, <1>1, <1>2, <2>4, <2>6 DEF ObjectOK, Attempted, Finished
      <3>2. Sane(W) /\ (i # W.cur => ~W.impls[i].owner)
        BY <1>1, <2>4, <2>6 DEF Finished
      <3> QED
        BY <1>1, <2>2, <3>1, <3>2, AttemptStarted
    <2>8. OnTrack(sock, T, i)
      BY <2>6, <2>7 DEF OnlyOps, OnTrack, Finished
    <2>9. Ready(T)
      <3>1. T.impls[sock.cur] = sock.impls[sock.cur] /\ T.cur = sock.cur
        BY <2>4, <2>6, <2>7 DEF OnlyOps, OnTrack, Finished
      <3> QED
        BY <3>1 DEF Ready, SocketOK
    <2> QED
      BY <1>0, <2>02, <2>3, <2>8, <2>9, GoesOn DEF HandledOK
  <1>4. CASE ~(op.st = "ok" /\ sock.impls[i].ssl)
    <2>1. PICK S : S = [So!Without(op) EXCEPT !.impls[op.impl].pending_connect = FALSE]
      OBVIOUS
    <2>2. So!Outcome(op, S, So!connected_now(S, op.impl))
      BY <1>0, <1>4, <2>1, Zenon DEF So!handle_connect
    <2> QED
      BY <1>2, <2>1, <2>2, AttemptEnds
  <1> QED
    BY <1>3, <1>4

\* handle_handshake
LEMMA HandleHandshake ==
  ASSUME SocketOK(sock, live, conns), NEW op \in sock.ops, op.st # "wait", So!handle_handshake(op)
  PROVE  HandledOK(op)
  <1>1. op.kind = "handshake"
    BY DEF So!handle_handshake
  <1>2. PICK S : S = [So!Without(op) EXCEPT !.impls[op.impl].pending_connect = FALSE]
    OBVIOUS
  <1>3. So!Outcome(op, S, So!connected_now(S, op.impl))
    BY <1>2, Zenon DEF So!handle_handshake
  <1> QED
    BY <1>1, <1>2, <1>3, AttemptEnds

\* A socket is sound as long as it is not torn from a handshake.
SocketInv == torn \in BOOLEAN /\ (~torn => SocketOK(sock, live, conns))

\* The invariant of the socket holds at first
LEMMA SocketInit == So!Init => SocketInv
  <1> SUFFICES ASSUME So!Init PROVE torn = FALSE /\ SocketOK(sock, live, conns)
    BY DEF SocketInv
  <1>1. PICK c : c = CHOOSE i \in SocketId : TRUE
    OBVIOUS
  <1>2. c \in SocketId
    BY <1>1, NetAssumption
  <1>3. /\ sock = [impls |-> [i \in SocketId |-> So!Fresh], ops |-> {}, cur |-> c]
        /\ live = FALSE /\ conns = 0 /\ torn = FALSE
    BY <1>1 DEF So!Init
  <1>4. sock \in Sockets /\ sock.ops = {} /\ sock.cur = c
        /\ \A i \in SocketId : sock.impls[i] = So!Fresh
    BY <1>2, <1>3, FreshTyped DEF Sockets
  <1>5. PICK f : f = So!Fresh
    OBVIOUS
  <1>6. Empty(f) /\ f.owner /\ f.pending_read = FALSE /\ f.pending_write = FALSE
    <2>1. ~f.pending_read /\ ~f.pending_write /\ Empty(f) /\ f.owner
      BY <1>5, FreshIs
    <2> QED
      BY <2>1 DEF Empty, Impl
  <1>7. ASSUME NEW i \in SocketId
        PROVE  ObjectOK(sock, i)
    <2>1. sock.impls[i] = f
      BY <1>4, <1>5
    <2>2. Tagged(sock, i)
      BY <1>4, <1>6, <2>1, EmptyTagged DEF Tagged
    <2>3. Attached(sock, i)
      BY <1>4, <1>6, <2>1 DEF Attached, Empty
    <2> QED
      BY <1>4, <1>6, <2>1, <2>2, <2>3 DEF ObjectOK, Flagged, Attempted
  <1>8. Sane(sock)
    BY <1>4, <1>7 DEF Sane
  <1>9. ~sock.impls[sock.cur].connected
    BY <1>2, <1>4, <1>5, <1>6 DEF Empty
  <1> QED
    BY <1>3, <1>4, <1>8, <1>9 DEF SocketOK, Ready

\* and after every call of the owner, every outcome and every handler.
LEMMA SocketNext ==
  ASSUME SocketInv, [So!Next]_socket
  PROVE  SocketInv'
  <1>1. CASE UNCHANGED socket
    BY <1>1 DEF socket, SocketInv, SocketOK, Ready
  <1>2. CASE So!Next
    <2>1. So!Step /\ torn' = (torn \/ So!Stale(sock')) /\ torn \in BOOLEAN
      BY <1>2 DEF So!Next, So!Noted, SocketInv
    <2>2. torn' \in BOOLEAN /\ (torn' <=> torn \/ So!Stale(sock'))
      BY <2>1, Zenon DEF So!Stale
    <2>3. ASSUME ~torn'
          PROVE  SocketOK(sock', live', conns')
      <3>1. SocketOK(sock, live, conns) /\ ~So!Stale(sock')
        BY <2>2, <2>3 DEF SocketInv
      <3>2. ASSUME NEW op \in sock.ops, So!Handle(op)
            PROVE  SocketOK(sock', live', conns')
        <4>1. op.st # "stale" /\ op.st # "wait"
          BY <3>1, <3>2, NeverStale DEF SocketOK, Sane, So!Handle
        <4> QED
          BY <3>1, <3>2, <4>1, HandleConnect, HandleHandshake, HandleRead, HandleWrite
             DEF So!Handle, So!handle_stale, HandledOK
      <3> QED
        BY <2>1, <3>1, <3>2, ConnectStep, ConnectFails, AcceptStep, ReadStep, WriteStep,
           ShutdownStep, CloseStep, CompleteStep DEF So!Step
    <2> QED
      BY <2>2, <2>3 DEF SocketInv
  <1> QED
    BY <1>1, <1>2

\* The four properties of the socket, in any state that satisfies the invariant.
LEMMA SocketSound ==
  ASSUME SocketInv
  PROVE  So!FlagsMatch /\ So!OwnBytes /\ So!Armed /\ So!ShutdownAfterData
  <1> SUFFICES ASSUME SocketOK(sock, live, conns)
               PROVE  So!FlagsMatch /\ So!OwnBytes /\ So!Armed /\ So!ShutdownAfterData
    BY DEF SocketInv, So!FlagsMatch, So!OwnBytes, So!Armed, So!ShutdownAfterData
  <1>1. Sane(sock) /\ Ready(sock) /\ sock \in Sockets
    BY DEF SocketOK, Sane
  <1>2. So!FlagsMatch
    <2> SUFFICES ASSUME NEW i \in SocketId, NEW kind \in {"read", "write"},
                        NEW held, held = {op \in sock.ops : op.impl = i /\ op.kind = kind}
                 PROVE  /\ \A a, b \in held : a = b
                        /\ (held # {}) = (IF kind = "read" THEN sock.impls[i].pending_read
                                                           ELSE sock.impls[i].pending_write)
      BY DEF So!FlagsMatch
    <2>1. PICK flag : flag = IF kind = "read" THEN sock.impls[i].pending_read
                                               ELSE sock.impls[i].pending_write
      OBVIOUS
    <2>2. Flagged(sock, i, kind, flag) /\ flag \in BOOLEAN
      <3>1. CASE kind = "read"
        BY <1>1, <2>1, <3>1 DEF Sane, ObjectOK, Sockets, Impl
      <3>2. CASE kind = "write"
        BY <1>1, <2>1, <3>2 DEF Sane, ObjectOK, Sockets, Impl
      <3> QED
        BY <3>1, <3>2
    <2>3. held # {} <=> \E op \in sock.ops : op.impl = i /\ op.kind = kind
      OBVIOUS
    <2>4. (held # {}) = flag
      BY <2>2, <2>3 DEF Flagged
    <2>5. \A a, b \in held : a = b
      BY <2>2 DEF Flagged
    <2> QED
      BY <2>1, <2>4, <2>5
  <1>3. So!OwnBytes
    <2> SUFFICES ASSUME NEW i \in SocketId, NEW r, r = sock.impls[i],
                        NEW k \in 1 .. Len(r.incoming) + Len(r.outgoing)
                 PROVE  (r.incoming \o r.outgoing)[k] = r.conn
      BY DEF So!OwnBytes
    <2>1. r \in Impl /\ Tagged(sock, i)
      BY <1>1 DEF Sane, ObjectOK, Sockets
    <2>2. AllAre(r.incoming, r.conn) /\ AllAre(r.outgoing, r.conn) /\ r.conn \in Nat
      BY <2>1 DEF Tagged, AllAre, Impl
    <2>3. AllAre(r.incoming \o r.outgoing, r.conn)
      BY <2>2, ConcatOf
    <2>4. Len(r.incoming \o r.outgoing) = Len(r.incoming) + Len(r.outgoing)
      BY <2>2, ConcatProperties DEF AllAre
    <2> QED
      BY <2>3, <2>4 DEF AllAre
  <1>4. PICK r : r = sock.impls[sock.cur]
    OBVIOUS
  <1>5. r = So!Cur
    BY <1>4 DEF So!Cur
  <1>6. r.shut => r.outgoing = <<>>
    BY <1>1, <1>4, CurOwned DEF Proper
  <1>7. So!Armed
    BY <1>1, <1>4, <1>5 DEF Ready, So!Armed
  <1>8. So!ShutdownAfterData
    BY <1>1, <1>4, <1>5, <1>6 DEF Ready, So!ShutdownAfterData
  <1> QED
    BY <1>2, <1>3, <1>7, <1>8

\* A handler of the owner is called only while it has a connection.
LEMMA SocketTold ==
  ASSUME SocketInv, [So!Next]_socket
  PROVE  [called' # "none" => live \/ torn]_socket
  <1> SUFFICES ASSUME So!Step, called' # "none", SocketOK(sock, live, conns) PROVE live
    BY DEF socket, SocketInv, So!Next
  <1>1. ASSUME NEW op \in sock.ops, So!Handle(op)
        PROVE  live
    <2>0. PICK i : i = op.impl
      OBVIOUS
    <2>1. /\ i # sock.cur => ~sock.impls[i].owner
          /\ op \in Operation /\ sock.impls[i] \in Impl
      BY <2>0, OpOwner DEF SocketOK
    <2>2. sock.impls[i].owner
      <3>1. op.st # "stale" /\ op.st # "wait"
        BY <1>1, NeverStale DEF SocketOK, Sane, So!Handle
      <3> QED
        BY <1>1, <2>0, <3>1, HandleConnect, HandleHandshake, HandleRead, HandleWrite
           DEF So!Handle, So!handle_stale, HandledOK
    <2>3. i = sock.cur
      BY <2>1, <2>2
    <2> QED
      BY <2>0, <2>3 DEF SocketOK
  <1>2. So!Step => \E op \in sock.ops : So!Handle(op)
    BY DEF So!Step, So!connect, So!connect_fails, So!accept, So!read_some, So!write_some,
           So!shutdown_both, So!Close, So!Complete
  <1> QED
    BY <1>1, <1>2

(***************************************************************************)
(* The timer                                                               *)
(***************************************************************************)
TimerImpl == [owner : BOOLEAN, pending_wait : BOOLEAN]
Wait == [impl : TimerId, arm : Nat, st : {"wait", "ok", "abort"}]

\* An object whose owner has not left it belongs to the timer, and its wait is
\* for the latest setting and not aborted.
OwnedWaits ==
    \A w \in waits : impls[w.impl].owner => w.impl = ti_impl /\ w.arm = armed /\ w.st # "abort"

TimerInv ==
    /\ impls \in [TimerId -> TimerImpl] /\ waits \subseteq Wait
    /\ ti_impl \in TimerId \cup {0} /\ count \in Nat /\ armed \in Nat
    /\ Ti!OneWaitEach
    /\ OwnedWaits

\* The invariant of the timer holds at first.
LEMMA TimerInit == Ti!Init => TimerInv
  <1> SUFFICES ASSUME Ti!Init PROVE TimerInv
    OBVIOUS
  <1> QED
    BY DEF Ti!Init, Ti!Fresh, TimerInv, TimerImpl, Ti!OneWaitEach, OwnedWaits

\* An object with a wait knows of it.
LEMMA WaitKnown ==
  ASSUME TimerInv, NEW w \in waits
  PROVE  w.impl \in TimerId /\ w.impl # 0 /\ impls[w.impl].pending_wait
  <1>1. w.impl \in TimerId
    BY DEF TimerInv, Wait
  <1>2. impls[w.impl].pending_wait = TRUE
    BY <1>1 DEF TimerInv, Ti!OneWaitEach
  <1> QED
    BY <1>1, <1>2, NetAssumption

\* The waits of an object that is not waiting or not used.
LEMMA NoWaits ==
  ASSUME TimerInv, NEW i \in TimerId,
         IF ti_impl # 0 /\ ~Ti!Waiting THEN i = ti_impl ELSE Ti!Unused(i)
  PROVE  \A w \in waits : w.impl # i
  <1>1. CASE ti_impl # 0 /\ ~Ti!Waiting
    BY <1>1, WaitKnown DEF Ti!Waiting
  <1>2. CASE ~(ti_impl # 0 /\ ~Ti!Waiting)
    BY <1>2 DEF Ti!Unused
  <1> QED
    BY <1>1, <1>2

TimerAbort(w) == IF w.impl = ti_impl /\ w.st = "wait" THEN [w EXCEPT !.st = "abort"] ELSE w

\* What cancelling a wait does to the waits.
LEMMA TimerAborted ==
  ASSUME waits \subseteq Wait
  PROVE  /\ Ti!Aborted \subseteq Wait
         /\ \A v \in Ti!Aborted : \E w \in waits :
              v = TimerAbort(w) /\ v.impl = w.impl /\ v.arm = w.arm /\ (v.impl # ti_impl => v = w)
         /\ \A w \in waits : TimerAbort(w) \in Ti!Aborted /\ TimerAbort(w).impl = w.impl
  <1>1. Ti!Aborted = {TimerAbort(w) : w \in waits}
    BY DEF Ti!Aborted, TimerAbort
  <1>2. \A w \in waits : TimerAbort(w) \in Wait /\ TimerAbort(w).impl = w.impl
                         /\ TimerAbort(w).arm = w.arm /\ (w.impl # ti_impl => TimerAbort(w) = w)
    BY DEF TimerAbort, Wait
  <1> QED
    BY <1>1, <1>2

\* The invariant of the timer holds after once(), cancel(), the end of a wait and
\* its handler.
LEMMA TimerNext ==
  ASSUME TimerInv, [Ti!Next]_timer
  PROVE  TimerInv'
  <1> USE DEF TimerInv
  <1>1. ASSUME Ti!once
        PROVE  TimerInv'
    <2>1. PICK i \in TimerId :
          /\ IF ti_impl # 0 /\ ~Ti!Waiting THEN i = ti_impl ELSE Ti!Unused(i)
          /\ waits' = (IF Ti!Waiting THEN Ti!Aborted ELSE waits)
                          \cup {[impl |-> i, arm |-> count + 1, st |-> "wait"]}
          /\ impls' = [j \in TimerId |->
                          IF j = i THEN [owner |-> TRUE, pending_wait |-> TRUE]
                          ELSE IF Ti!Waiting /\ j = ti_impl THEN [impls[j] EXCEPT !.owner = FALSE]
                          ELSE impls[j]]
          /\ ti_impl' = i
      BY <1>1 DEF Ti!once
    <2>2. count' = count + 1 /\ armed' = count + 1
      BY <1>1 DEF Ti!once
    <2>3. \A w \in waits : w.impl # i
      BY <2>1, NoWaits
    <2>4. PICK new : new = [impl |-> i, arm |-> count + 1, st |-> "wait"]
      OBVIOUS
    <2>5. new \in Wait /\ new.impl = i /\ new.arm = count + 1 /\ new.st = "wait"
      BY <2>4 DEF Wait
    <2>6. PICK old : old = IF Ti!Waiting THEN Ti!Aborted ELSE waits
      OBVIOUS
    <2>7. waits' = old \cup {new}
      BY <2>1, <2>4, <2>6
    <2>8. /\ old \subseteq Wait
          /\ \A v \in old : \E w \in waits : v.impl = w.impl /\ (v.impl # ti_impl \/ ~Ti!Waiting => v = w)
          /\ \A w \in waits : \E v \in old : v.impl = w.impl
          /\ \A v, w \in old : v.impl = w.impl => v = w
      <3>1. CASE Ti!Waiting
        <4>1. \A v, w \in waits : v.impl = w.impl => v = w
          BY DEF Ti!OneWaitEach, Wait
        <4> QED
          BY <2>6, <3>1, <4>1, TimerAborted
      <3>2. CASE ~Ti!Waiting
        BY <2>6, <3>2 DEF Ti!OneWaitEach, Wait
      <3> QED
        BY <3>1, <3>2
    <2>9. /\ impls' \in [TimerId -> TimerImpl]
          /\ impls'[i].owner = TRUE /\ impls'[i].pending_wait = TRUE
          /\ \A j \in TimerId : j # i => /\ impls'[j].pending_wait = impls[j].pending_wait
                                         /\ impls'[j].owner => impls[j].owner
                                         /\ Ti!Waiting /\ j = ti_impl => ~impls'[j].owner
      <3>1. \A j \in TimerId : /\ [impls[j] EXCEPT !.owner = FALSE] \in TimerImpl
                               /\ [impls[j] EXCEPT !.owner = FALSE].pending_wait = impls[j].pending_wait
                               /\ [impls[j] EXCEPT !.owner = FALSE].owner = FALSE
        BY DEF TimerImpl
      <3>2. [owner |-> TRUE, pending_wait |-> TRUE] \in TimerImpl
        BY DEF TimerImpl
      <3> QED
        BY <2>1, <3>1, <3>2
    <2>10. Ti!OneWaitEach'
      <3> SUFFICES ASSUME NEW j \in TimerId
                   PROVE  /\ impls'[j].pending_wait = (\E w \in waits' : w.impl = j)
                          /\ \A v, w \in waits' : v.impl = w.impl => v = w
        BY DEF Ti!OneWaitEach
      <3>1. \A v, w \in waits' : v.impl = w.impl => v = w
        BY <2>3, <2>5, <2>7, <2>8
      <3>2. CASE j = i
        BY <2>5, <2>7, <2>9, <3>1, <3>2
      <3>3. CASE j # i
        <4>1. (\E w \in waits' : w.impl = j) = (\E w \in waits : w.impl = j)
          BY <2>5, <2>7, <2>8, <3>3
        <4>2. impls'[j].pending_wait = impls[j].pending_wait
          BY <2>9, <3>3
        <4> QED
          BY <3>1, <4>1, <4>2 DEF Ti!OneWaitEach
      <3> QED
        BY <3>2, <3>3
    <2>11. OwnedWaits'
      <3> SUFFICES ASSUME NEW v \in waits', impls'[v.impl].owner
                   PROVE  v.impl = ti_impl' /\ v.arm = armed' /\ v.st # "abort"
        BY DEF OwnedWaits
      <3>1. CASE v = new
        BY <2>1, <2>2, <2>5, <3>1
      <3>2. CASE v \in old
        <4>1. PICK w \in waits : v.impl = w.impl /\ (v.impl # ti_impl \/ ~Ti!Waiting => v = w)
          BY <2>8, <3>2
        <4>2. v.impl # i /\ v.impl \in TimerId
          BY <2>3, <4>1 DEF Wait
        <4>3. impls[v.impl].owner /\ ~(Ti!Waiting /\ v.impl = ti_impl)
          BY <2>9, <4>2
        <4>4. w.impl = ti_impl /\ ~Ti!Waiting
          BY <4>1, <4>3 DEF OwnedWaits
        <4>5. ti_impl # 0 /\ impls[ti_impl].pending_wait
          BY <4>1, <4>4, WaitKnown
        <4> QED
          BY <4>4, <4>5 DEF Ti!Waiting
      <3> QED
        BY <2>7, <3>1, <3>2
    <2> QED
      BY <2>1, <2>2, <2>5, <2>7, <2>8, <2>9, <2>10, <2>11
  <1>2. ASSUME Ti!cancel
        PROVE  TimerInv'
    <2>1. CASE Ti!Waiting
      <3>1. /\ impls' = [impls EXCEPT ![ti_impl].owner = FALSE]
            /\ waits' = Ti!Aborted /\ ti_impl' = 0 /\ armed' = 0 /\ count' = count
        BY <1>2, <2>1 DEF Ti!cancel, Ti!close
      <3>2. ti_impl \in TimerId
        BY <2>1 DEF Ti!Waiting
      <3>3. /\ impls' \in [TimerId -> TimerImpl]
            /\ ~impls'[ti_impl].owner
            /\ \A j \in TimerId : /\ impls'[j].pending_wait = impls[j].pending_wait
                                  /\ j # ti_impl => impls'[j] = impls[j]
        BY <3>1, <3>2 DEF TimerImpl
      <3>4. \A v, w \in waits : v.impl = w.impl => v = w
        BY DEF Ti!OneWaitEach, Wait
      <3>5. /\ waits' \subseteq Wait
            /\ \A v \in waits' : \E w \in waits : v.impl = w.impl
            /\ \A w \in waits : \E v \in waits' : v.impl = w.impl
            /\ \A v, w \in waits' : v.impl = w.impl => v = w
        BY <3>1, <3>4, TimerAborted
      <3>6. Ti!OneWaitEach'
        <4> SUFFICES ASSUME NEW j \in TimerId
                     PROVE  impls'[j].pending_wait = (\E w \in waits' : w.impl = j)
          BY <3>5 DEF Ti!OneWaitEach
        <4>1. (\E w \in waits' : w.impl = j) = (\E w \in waits : w.impl = j)
          BY <3>5
        <4> QED
          BY <3>3, <4>1 DEF Ti!OneWaitEach
      <3>7. OwnedWaits'
        BY <3>3, <3>5 DEF OwnedWaits, Wait
      <3> QED
        BY <3>1, <3>3, <3>5, <3>6, <3>7
    <2>2. CASE ~Ti!Waiting
      <3>1. impls' = impls /\ waits' = waits /\ ti_impl' = ti_impl /\ armed' = 0 /\ count' = count
        BY <1>2, <2>2 DEF Ti!cancel, Ti!close
      <3>2. \A w \in waits : ~impls[w.impl].owner
        BY <2>2, WaitKnown DEF Ti!Waiting, OwnedWaits
      <3> QED
        BY <3>1, <3>2 DEF Ti!OneWaitEach, OwnedWaits
    <2> QED
      BY <2>1, <2>2
  <1>3. ASSUME NEW w \in waits, Ti!Expire(w)
        PROVE  TimerInv'
    <2>1. PICK v : v = [w EXCEPT !.st = "ok"]
      OBVIOUS
    <2>2. v \in Wait /\ v.impl = w.impl /\ v.arm = w.arm /\ v.st = "ok"
      BY <2>1 DEF Wait
    <2>3. /\ waits' = (waits \ {w}) \cup {v}
          /\ impls' = impls /\ ti_impl' = ti_impl /\ armed' = armed /\ count' = count
      BY <1>3, <2>1 DEF Ti!Expire
    <2>4. Ti!OneWaitEach'
      <3>1. \A a, b \in waits' : a.impl = b.impl => a = b
        <4>1. \A a, b \in waits : a.impl = b.impl => a = b
          BY DEF Ti!OneWaitEach, Wait
        <4>2. \A a \in waits \ {w} : a.impl # w.impl
          BY <4>1
        <4> QED
          BY <2>2, <2>3, <4>1, <4>2
      <3>2. ASSUME NEW j \in TimerId
            PROVE  (\E u \in waits' : u.impl = j) <=> (\E u \in waits : u.impl = j)
        <4>1. ASSUME NEW u \in waits', u.impl = j
              PROVE  \E x \in waits : x.impl = j
          <5>1. CASE u = v
            BY <2>2, <4>1, <5>1
          <5>2. CASE u # v
            BY <2>3, <4>1, <5>2
          <5> QED
            BY <5>1, <5>2
        <4>2. ASSUME NEW u \in waits, u.impl = j
              PROVE  \E x \in waits' : x.impl = j
          <5>1. CASE u = w
            <6>1. v \in waits' /\ v.impl = j
              BY <2>2, <2>3, <4>2, <5>1
            <6> QED
              BY <6>1
          <5>2. CASE u # w
            BY <2>3, <4>2, <5>2
          <5> QED
            BY <5>1, <5>2
        <4> QED
          BY <4>1, <4>2
      <3> QED
        BY <2>3, <3>1, <3>2 DEF Ti!OneWaitEach
    <2> QED
      BY <2>2, <2>3, <2>4 DEF OwnedWaits
  <1>4. ASSUME NEW w \in waits, Ti!handle_timeout(w)
        PROVE  TimerInv'
    <2>1. /\ waits' = waits \ {w}
          /\ impls' = [impls EXCEPT ![w.impl].pending_wait = FALSE]
          /\ ti_impl' = ti_impl /\ count' = count
          /\ (armed' = 0 /\ impls[w.impl].owner) \/ armed' = armed
      BY <1>4 DEF Ti!handle_timeout
    <2>2. w \in Wait
      OBVIOUS
    <2>3. /\ impls' \in [TimerId -> TimerImpl]
          /\ impls'[w.impl].pending_wait = FALSE
          /\ \A j \in TimerId : /\ impls'[j].owner = impls[j].owner
                                /\ j # w.impl => impls'[j].pending_wait = impls[j].pending_wait
      BY <2>1, <2>2 DEF TimerImpl, Wait
    <2>4. \A v \in waits' : v.impl # w.impl /\ v \in waits
      BY <2>1, <2>2 DEF Ti!OneWaitEach, Wait
    <2>5. Ti!OneWaitEach'
      <3> SUFFICES ASSUME NEW j \in TimerId
                   PROVE  /\ impls'[j].pending_wait = (\E u \in waits' : u.impl = j)
                          /\ \A u, v \in waits' : u.impl = v.impl => u = v
        BY DEF Ti!OneWaitEach
      <3>1. \A u, v \in waits' : u.impl = v.impl => u = v
        BY <2>4 DEF Ti!OneWaitEach
      <3>2. CASE j = w.impl
        BY <2>3, <2>4, <3>1, <3>2
      <3>3. CASE j # w.impl
        <4>1. (\E u \in waits' : u.impl = j) = (\E u \in waits : u.impl = j)
          BY <2>1, <3>3
        <4> QED
          BY <2>3, <3>1, <3>3, <4>1 DEF Ti!OneWaitEach
      <3> QED
        BY <3>2, <3>3
    <2>6. OwnedWaits'
      <3>1. \A v \in waits' : impls[v.impl].owner => ~impls[w.impl].owner
        BY <2>4 DEF OwnedWaits
      <3> QED
        BY <2>1, <2>3, <2>4, <3>1 DEF OwnedWaits, Wait
    <2>7. armed' \in Nat
      BY <2>1
    <2> QED
      BY <2>1, <2>3, <2>5, <2>6, <2>7
  <1>5. CASE UNCHANGED timer
    BY <1>5 DEF timer, Ti!OneWaitEach, OwnedWaits
  <1> QED
    BY <1>1, <1>2, <1>3, <1>4, <1>5 DEF Ti!Next

\* A handler that calls the owner does so for the latest once().
LEMMA TimerFires ==
  ASSUME TimerInv, [Ti!Next]_timer
  PROVE  [fired' # 0 => fired' = armed]_timer
  <1> SUFFICES ASSUME Ti!Next, fired' # 0 PROVE fired' = armed
    BY DEF timer
  <1>1. PICK w \in waits : Ti!handle_timeout(w)
    BY DEF Ti!Next, Ti!once, Ti!cancel, Ti!Expire
  <1>2. impls[w.impl].owner /\ fired' = w.arm
    BY <1>1 DEF Ti!handle_timeout
  <1> QED
    BY <1>2 DEF TimerInv, OwnedWaits

(***************************************************************************)
(* The acceptor                                                            *)
(***************************************************************************)
AcceptorInv ==
    /\ backlog \subseteq Conn /\ clients \subseteq Conn /\ dropped \subseteq Conn
    /\ socket_being_accepted \in Conn \cup {NoConn}
    /\ accepting = "waiting" => socket_being_accepted = NoConn
    /\ accepting = "ok" => socket_being_accepted # NoConn
    /\ backlog \cap (clients \cup dropped) = {}
    /\ Ac!NoneOverwritten

\* The invariant of the acceptor holds at first
LEMMA AcceptorInit == Ac!Init => AcceptorInv
  BY NetAssumption DEF Ac!Init, AcceptorInv, Ac!NoneOverwritten, Ac!Pending, Ac!AcceptorAssumption

\* and after every step of it.
LEMMA AcceptorNext ==
  ASSUME AcceptorInv, [Ac!Next]_acceptor
  PROVE  AcceptorInv'
  <1> USE NetAssumption DEF AcceptorInv, Ac!NoneOverwritten, Ac!Pending, Ac!AcceptorAssumption
  <1>1. ASSUME Ac!HandleAccept
        PROVE  AcceptorInv'
    <2>1. CASE accepting = "ok" /\ owner
      BY <1>1, <2>1 DEF Ac!HandleAccept, Ac!handle_accept, Ac!accept_all, Ac!accept_gone,
                       Ac!accept_client, Ac!start_accept
    <2>2. CASE ~(accepting = "ok" /\ owner)
      BY <1>1, <2>2 DEF Ac!HandleAccept, Ac!handle_accept
    <2> QED
      BY <2>1, <2>2
  <1>2. ASSUME Ac!close \/ Ac!AcceptFails
        PROVE  AcceptorInv'
    BY <1>2 DEF Ac!close, Ac!AcceptFails
  <1>3. ASSUME NEW c \in Conn, Ac!Arrive(c)
        PROVE  AcceptorInv'
    BY <1>3 DEF Ac!Arrive
  <1>4. ASSUME NEW c \in Conn, Ac!Leave(c) \/ Ac!Accepted(c)
        PROVE  AcceptorInv'
    BY <1>4 DEF Ac!Leave, Ac!Accepted
  <1>5. CASE UNCHANGED acceptor
    BY <1>5 DEF acceptor
  <1> QED
    BY <1>1, <1>2, <1>3, <1>4, <1>5 DEF Ac!Next

\* Only an acceptor that is alive gives a connection away.
LEMMA NoClients ==
  ASSUME [Ac!Next]_acceptor
  PROVE  [~owner => UNCHANGED clients]_acceptor
  <1> SUFFICES ASSUME Ac!Next, ~owner PROVE clients' = clients
    BY DEF acceptor
  <1> QED
    BY DEF Ac!Next, Ac!HandleAccept, Ac!handle_accept, Ac!close, Ac!AcceptFails, Ac!Arrive,
           Ac!Leave, Ac!Accepted

(***************************************************************************)
(* The stream                                                              *)
(***************************************************************************)
\* The bytes after the i-th up to the j-th.
LEMMA CutOf ==
  ASSUME NEW S, NEW s \in Seq(S), NEW i \in Nat, NEW j \in Nat, i <= j, j <= Len(s)
  PROVE  /\ SubSeq(s, i + 1, j) \in Seq(S)
         /\ Len(SubSeq(s, i + 1, j)) = j - i
         /\ \A k \in 1 .. j - i : SubSeq(s, i + 1, j)[k] = s[i + k]
  <1>1. Len(s) \in Nat
    BY LenProperties
  <1>2. \A k \in i + 1 .. j : s[k] \in S
    BY <1>1, ElementOfSeq
  <1>3. i + 1 \in Int /\ j \in Int
    OBVIOUS
  <1>4. /\ SubSeq(s, i + 1, j) \in Seq(S)
        /\ Len(SubSeq(s, i + 1, j)) = IF i + 1 <= j THEN j - (i + 1) + 1 ELSE 0
        /\ \A k \in 1 .. j - (i + 1) + 1 : SubSeq(s, i + 1, j)[k] = s[i + 1 + k - 1]
    BY <1>2, <1>3, SubSeqProperties
  <1>5. (IF i + 1 <= j THEN j - (i + 1) + 1 ELSE 0) = j - i /\ j - (i + 1) + 1 = j - i
    OBVIOUS
  <1>6. \A k \in 1 .. j - i : i + 1 + k - 1 = i + k
    OBVIOUS
  <1> QED
    BY <1>4, <1>5, <1>6

\* Where an element of a concatenation comes from.
LEMMA ConcatAt ==
  ASSUME NEW S, NEW s \in Seq(S), NEW t \in Seq(S)
  PROVE  /\ Len(s \o t) = Len(s) + Len(t) /\ s \o t \in Seq(S)
         /\ \A k \in 1 .. Len(s) : (s \o t)[k] = s[k]
         /\ \A k \in 1 .. Len(t) : (s \o t)[Len(s) + k] = t[k]
  <1>1. Len(s) \in Nat /\ Len(t) \in Nat
    BY LenProperties
  <1>2. /\ Len(s \o t) = Len(s) + Len(t) /\ s \o t \in Seq(S)
        /\ \A k \in 1 .. Len(s) + Len(t) :
             (s \o t)[k] = IF k <= Len(s) THEN s[k] ELSE t[k - Len(s)]
    BY ConcatProperties
  <1>3. ASSUME NEW k \in 1 .. Len(t)
        PROVE  (s \o t)[Len(s) + k] = t[k]
    <2>1. Len(s) + k \in 1 .. Len(s) + Len(t) /\ ~(Len(s) + k <= Len(s)) /\ Len(s) + k - Len(s) = k
      BY <1>1
    <2> QED
      BY <1>2, <2>1
  <1> QED
    BY <1>1, <1>2, <1>3

\* Two pieces that meet are one.
LEMMA CutJoins ==
  ASSUME NEW S, NEW s \in Seq(S), NEW i \in Nat, NEW j \in Nat, i <= j, j <= Len(s)
  PROVE  SubSeq(s, i + 1, j) \o SubSeq(s, j + 1, Len(s)) = SubSeq(s, i + 1, Len(s))
  <1>0. Len(s) \in Nat
    BY LenProperties
  <1>1. PICK a : a = SubSeq(s, i + 1, j)
    OBVIOUS
  <1>2. PICK b : b = SubSeq(s, j + 1, Len(s))
    OBVIOUS
  <1>3. PICK c : c = SubSeq(s, i + 1, Len(s))
    OBVIOUS
  <1>4. a \in Seq(S) /\ Len(a) = j - i /\ \A k \in 1 .. j - i : a[k] = s[i + k]
    BY <1>1, CutOf
  <1>5. b \in Seq(S) /\ Len(b) = Len(s) - j /\ \A k \in 1 .. Len(s) - j : b[k] = s[j + k]
    BY <1>0, <1>2, CutOf
  <1>6. c \in Seq(S) /\ Len(c) = Len(s) - i /\ \A k \in 1 .. Len(s) - i : c[k] = s[i + k]
    BY <1>0, <1>3, CutOf
  <1>7. /\ Len(a \o b) = Len(a) + Len(b) /\ a \o b \in Seq(S)
        /\ \A k \in 1 .. Len(a) : (a \o b)[k] = a[k]
        /\ \A k \in 1 .. Len(b) : (a \o b)[Len(a) + k] = b[k]
    <2>1. a \in Seq(S)
      BY <1>4
    <2>2. b \in Seq(S)
      BY <1>5
    <2> QED
      BY <2>1, <2>2, ConcatAt
  <1>8. ASSUME NEW k \in 1 .. Len(s) - i
        PROVE  (a \o b)[k] = c[k]
    <2>1. CASE k <= j - i
      BY <1>0, <1>4, <1>6, <1>7, <2>1
    <2>2. CASE k > j - i
      <3>1. PICK l : l = k - (j - i)
        OBVIOUS
      <3>2. l \in 1 .. Len(s) - j /\ k = Len(a) + l /\ j + l = i + k
        <4>1. Len(a) = j - i
          BY <1>4
        <4> QED
          BY <1>0, <4>1, <2>2, <3>1
      <3>3. (a \o b)[k] = b[l]
        BY <1>5, <1>7, <3>2
      <3>4. b[l] = s[j + l]
        BY <1>5, <3>2
      <3> QED
        BY <1>6, <3>2, <3>3, <3>4
    <2>3. k <= j - i \/ k > j - i
      BY <1>0
    <2> QED
      BY <2>1, <2>2, <2>3
  <1>9. Len(a \o b) = Len(c)
    BY <1>0, <1>4, <1>5, <1>6, <1>7
  <1>10. a \o b = c
    BY <1>6, <1>7, <1>8, <1>9, SeqEqual
  <1> QED
    BY <1>1, <1>2, <1>3, <1>10

\* A piece up to the end grows with the sequence.
LEMMA CutGrows ==
  ASSUME NEW S, NEW s \in Seq(S), NEW t \in Seq(S), NEW i \in Nat, i <= Len(s)
  PROVE  SubSeq(s \o t, i + 1, Len(s \o t)) = SubSeq(s, i + 1, Len(s)) \o t
  <1>0. Len(s) \in Nat /\ Len(t) \in Nat
    BY LenProperties
  <1>1. PICK u : u = s \o t
    OBVIOUS
  <1>2. /\ Len(u) = Len(s) + Len(t) /\ u \in Seq(S)
        /\ \A k \in 1 .. Len(s) : u[k] = s[k]
        /\ \A k \in 1 .. Len(t) : u[Len(s) + k] = t[k]
    BY <1>1, ConcatAt
  <1>3. PICK a : a = SubSeq(s, i + 1, Len(s))
    OBVIOUS
  <1>4. PICK c : c = SubSeq(u, i + 1, Len(u))
    OBVIOUS
  <1>5. a \in Seq(S) /\ Len(a) = Len(s) - i /\ \A k \in 1 .. Len(s) - i : a[k] = s[i + k]
    BY <1>0, <1>3, CutOf
  <1>6. c \in Seq(S) /\ Len(c) = Len(u) - i /\ \A k \in 1 .. Len(u) - i : c[k] = u[i + k]
    <2>1. i <= Len(u) /\ Len(u) <= Len(u) /\ Len(u) \in Nat
      BY <1>0, <1>2
    <2> QED
      BY <1>2, <1>4, <2>1, CutOf
  <1>7. /\ Len(a \o t) = Len(a) + Len(t) /\ a \o t \in Seq(S)
        /\ \A k \in 1 .. Len(a) : (a \o t)[k] = a[k]
        /\ \A k \in 1 .. Len(t) : (a \o t)[Len(a) + k] = t[k]
    <2>1. a \in Seq(S)
      BY <1>5
    <2> QED
      BY <2>1, ConcatAt
  <1>8. ASSUME NEW k \in 1 .. Len(c)
        PROVE  c[k] = (a \o t)[k]
    <2>0. c[k] = u[i + k] /\ Len(c) = Len(s) + Len(t) - i
      BY <1>0, <1>2, <1>6
    <2>1. CASE k <= Len(s) - i
      BY <1>0, <1>2, <1>5, <1>7, <2>0, <2>1
    <2>2. CASE k > Len(s) - i
      <3>1. PICK l : l = k - (Len(s) - i)
        OBVIOUS
      <3>2. l \in 1 .. Len(t) /\ k = Len(a) + l /\ i + k = Len(s) + l
        BY <1>0, <1>5, <2>0, <2>2, <3>1
      <3>3. (a \o t)[k] = t[l]
        BY <1>7, <3>2
      <3>4. u[i + k] = t[l]
        BY <1>2, <3>2
      <3> QED
        BY <2>0, <3>3, <3>4
    <2>3. k <= Len(s) - i \/ k > Len(s) - i
      <3>1. Len(c) \in Nat /\ k \in Nat
        BY <1>0, <2>0
      <3> QED
        BY <1>0, <3>1
    <2> QED
      BY <2>1, <2>2, <2>3
  <1>9. Len(a \o t) = Len(c)
    BY <1>0, <1>2, <1>5, <1>6, <1>7
  <1>10. c = a \o t
    BY <1>6, <1>7, <1>8, <1>9, SeqEqual
  <1> QED
    BY <1>1, <1>3, <1>4, <1>10

StreamInv == st_buffer \in Seq(Byte) /\ st_in \in Nat /\ st_in <= Len(st_buffer)

\* A new stream is an empty queue.
LEMMA StreamInit == St!Init => StreamInv /\ St!AsFifo!FifoInit
  <1> SUFFICES ASSUME St!Init PROVE StreamInv /\ St!AsFifo!FifoInit
    OBVIOUS
  <1>1. st_buffer = << >> /\ st_in = 0
    BY DEF St!Init
  <1>2. StreamInv
    BY <1>1, EmptySeq DEF StreamInv
  <1>3. St!Unread = << >>
    BY <1>1 DEF St!Unread
  <1> QED
    BY <1>2, <1>3 DEF St!Init, St!AsFifo!FifoInit

\* A call that moves n bytes at most takes the oldest ones and leaves the rest.
LEMMA GotIsFront ==
  ASSUME StreamInv, NEW n \in Nat, st_buffer' = st_buffer, st_in' = st_in + Len(St!Got(n))
  PROVE  StreamInv' /\ St!Unread = St!Got(n) \o St!Unread'
  <1>1. PICK m : m = St!Lesser(n, Len(st_buffer) - st_in)
    OBVIOUS
  <1>2. m \in 0 .. Len(st_buffer) - st_in /\ Len(st_buffer) \in Nat
    BY <1>1, LenProperties DEF StreamInv, St!Lesser
  <1>3. st_in + m \in Nat /\ st_in <= st_in + m /\ st_in + m <= Len(st_buffer)
        /\ st_in + m - st_in = m
    BY <1>2 DEF StreamInv
  <1>4. PICK got : got = SubSeq(st_buffer, st_in + 1, st_in + m)
    OBVIOUS
  <1>5. St!Got(n) = got
    BY <1>1, <1>4 DEF St!Got
  <1>6. Len(got) = m
    <2>1. PICK j : j = st_in + m
      OBVIOUS
    <2>2. st_buffer \in Seq(Byte) /\ st_in \in Nat /\ j \in Nat /\ st_in <= j /\ j <= Len(st_buffer)
      BY <1>3, <2>1 DEF StreamInv
    <2>3. Len(SubSeq(st_buffer, st_in + 1, j)) = j - st_in
      BY <2>2, CutOf
    <2>4. got = SubSeq(st_buffer, st_in + 1, j)
      BY <1>4, <2>1
    <2>5. j - st_in = m
      BY <1>2, <2>1 DEF StreamInv
    <2> QED
      BY <2>3, <2>4, <2>5
  <1>7. st_in' = st_in + m
    BY <1>5, <1>6
  <1>8. StreamInv'
    BY <1>3, <1>7 DEF StreamInv
  <1>9. got \o SubSeq(st_buffer, st_in + m + 1, Len(st_buffer))
          = SubSeq(st_buffer, st_in + 1, Len(st_buffer))
    BY <1>3, <1>4, CutJoins DEF StreamInv
  <1> QED
    BY <1>5, <1>7, <1>8, <1>9 DEF St!Unread

\* Every call of the stream keeps the read position in the buffer, and is a step
\* of Fifo.
LEMMA StreamNext ==
  ASSUME StreamInv, [St!Next]_stream
  PROVE  StreamInv' /\ [St!AsFifo!FifoNext]_(St!AsFifo!fvars)
  <1>1. CASE UNCHANGED stream
    BY <1>1 DEF stream, StreamInv, St!AsFifo!fvars, St!Unread
  <1>2. ASSUME NEW n \in 0 .. MaxBytes, NEW data \in [1 .. n -> Byte], St!write_some(data)
        PROVE  StreamInv' /\ St!AsFifo!Put
    <2>1. n \in Nat
      BY NetAssumption
    <2>2. data \in Seq(Byte)
      BY <2>1
    <2>3. st_buffer' = st_buffer \o data /\ st_in' = st_in
          /\ st_io' = [op |-> "write", data |-> data]
      BY <1>2 DEF St!write_some
    <2>4. /\ st_buffer' \in Seq(Byte) /\ Len(st_buffer') = Len(st_buffer) + Len(data)
          /\ Len(data) \in Nat /\ Len(st_buffer) \in Nat
      BY <2>2, <2>3, ConcatProperties, LenProperties DEF StreamInv
    <2>5. StreamInv'
      BY <2>3, <2>4 DEF StreamInv
    <2>6. St!Unread' = St!Unread \o data
      BY <2>2, <2>3, CutGrows DEF StreamInv, St!Unread
    <2> QED
      BY <2>2, <2>3, <2>5, <2>6 DEF St!AsFifo!Put
  <1>3. ASSUME NEW many \in 0 .. MaxBytes, St!read_some(many) \/ St!read(many)
        PROVE  StreamInv' /\ St!AsFifo!Take
    <2>1. /\ many \in Nat /\ st_buffer' = st_buffer /\ st_in' = st_in + Len(St!Got(many))
          /\ st_io' = [op |-> "read", data |-> St!Got(many)]
      BY <1>3, NetAssumption DEF St!read_some, St!read
    <2> QED
      BY <2>1, GotIsFront DEF St!AsFifo!Take
  <1>4. ASSUME NEW max_count \in 0 .. MaxBytes, NEW room \in 0 .. MaxBytes,
               St!copy_to(max_count, room)
        PROVE  StreamInv' /\ St!AsFifo!Take
    <2>1. PICK n : n = St!Lesser(max_count, room)
      OBVIOUS
    <2>2. /\ n \in Nat /\ st_buffer' = st_buffer /\ st_in' = st_in + Len(St!Got(n))
          /\ st_io' = [op |-> "read", data |-> St!Got(n)]
      BY <1>4, <2>1, NetAssumption DEF St!copy_to, St!Lesser
    <2> QED
      BY <2>2, GotIsFront DEF St!AsFifo!Take
  <1>5. ASSUME St!clear
        PROVE  StreamInv' /\ St!AsFifo!Drop
    <2>1. st_buffer' = << >> /\ st_in' = 0 /\ st_io' = [op |-> "clear", data |-> << >>]
      BY <1>5 DEF St!clear
    <2>2. StreamInv'
      BY <2>1, EmptySeq DEF StreamInv
    <2>3. St!Unread' = << >>
      BY <2>1 DEF St!Unread
    <2> QED
      BY <2>1, <2>2, <2>3 DEF St!AsFifo!Drop
  <1> QED
    BY <1>1, <1>2, <1>3, <1>4, <1>5 DEF St!Next, St!AsFifo!FifoNext

(***************************************************************************)
(* The HTTP server                                                         *)
(***************************************************************************)
\* The server asks its socket to shut down with nothing left to write and no answer
\* awaited, or for a bad request.
LEMMA ServerShuts ==
  ASSUME [Hs!Next]_ms
  PROVE  [Hs!ShutsAfterAnswer]_ms
  <1> SUFFICES ASSUME Hs!Next, m4' /\ ~m4
               PROVE  \/ m12' = << >> /\ ~m10'
                      \/ m17 = "head"
    BY DEF Hs!ShutsAfterAnswer
  <1>1. ASSUME NEW rs, NEW waiting, NEW keep, Hs!write(rs, waiting, keep)
        PROVE  ~waiting /\ m12' = << >>
    <2>1. PICK n : n = (IF m4 THEN 0 ELSE Hs!Lesser(Hs!Sum(rs), BufSize - m3))
      OBVIOUS
    <2>2. m12' = Hs!Left(rs, n) /\ m4' = (m4 \/ (~waiting /\ Hs!Left(rs, n) = << >> /\ ~keep))
      BY <1>1, <2>1 DEF Hs!write
    <2> QED
      BY <2>2
  <1>2. CASE Hs!AdvanceWrites
    BY <1>1, <1>2 DEF Hs!AdvanceWrites
  <1>3. CASE Hs!AdvanceParses
    BY <1>3 DEF Hs!AdvanceParses
  <1>4. CASE Hs!AdvanceReads
    BY <1>4 DEF Hs!AdvanceReads
  <1>5. CASE Hs!on_client_handler
    <2>1. CASE Requests[m6].long
      BY <1>5, <2>1 DEF Hs!on_client_handler, Hs!sock
    <2>2. CASE ~Requests[m6].long
      <3>1. m10' = FALSE /\ Hs!write(m12 \o <<1, Requests[m6].answer>>, FALSE, Requests[m6].keep)
        BY <1>5, <2>2 DEF Hs!on_client_handler
      <3> QED
        BY <1>1, <3>1
    <2> QED
      BY <2>1, <2>2
  <1>6. CASE Hs!advance_long_poll
    <2>1. m10' = FALSE
          /\ Hs!write(m12 \o <<1, Requests[m6 - 1].answer>>, FALSE, Requests[m6 - 1].keep)
      BY <1>6 DEF Hs!advance_long_poll, Hs!write_response
    <2> QED
      BY <1>1, <2>1
  <1>7. CASE Hs!on_disconnect
    BY <1>7 DEF Hs!on_disconnect
  <1>8. CASE Hs!Over
    BY <1>8 DEF Hs!Over, Hs!vars
  <1>9. CASE Hs!Reads \/ Hs!Writes
    BY <1>9 DEF Hs!Reads, Hs!Writes, Hs!SocketReads, Hs!SocketWrites
  <1> QED
    BY <1>2, <1>3, <1>4, <1>5, <1>6, <1>7, <1>8, <1>9 DEF Hs!Next, Hs!Step

(***************************************************************************)
(* The parts together                                                      *)
(***************************************************************************)
\* Whichever part a behaviour is about, the others stay as they are: every
\* step is one of each part's own, or leaves it alone.
LEMMA InitOfParts ==
    NetInit => Init /\ So!Init /\ Ac!Init /\ Ti!Init /\ St!Init
  BY Zenon DEF NetInit

\* Every step of the run is one of each part, or leaves it alone.
LEMMA PartMoves ==
    [NetNext]_net => [So!Next]_socket /\ [Ac!Next]_acceptor /\ [Ti!Next]_timer /\ [St!Next]_stream
  <1>1. UNCHANGED net => UNCHANGED socket /\ UNCHANGED acceptor /\ UNCHANGED timer /\ UNCHANGED stream
    BY DEF net
  <1>2. NetNext => [So!Next]_socket
    BY Zenon DEF NetNext, In
  <1>3. NetNext => [Ac!Next]_acceptor
    BY Zenon DEF NetNext, In, AcceptorOver
  <1>4. NetNext => [Ti!Next]_timer
    BY Zenon DEF NetNext, In
  <1>5. NetNext => [St!Next]_stream
    BY Zenon DEF NetNext, In
  <1> QED
    BY <1>1, <1>2, <1>3, <1>4, <1>5

\* In a behaviour about the server the steps are those of the server.
LEMMA ServerMoves == [NetNext]_net => part' = part /\ (part = "server" => [Hs!Next]_ms)
  <1>1. UNCHANGED net => part' = part /\ UNCHANGED ms
    BY DEF net
  <1>2. NetNext => part' = part
    BY Zenon DEF NetNext, In
  <1>3. ASSUME NetNext, part = "server"
        PROVE  Hs!Next
    <2>1. /\ part # "buffer" /\ part # "stream" /\ part # "socket" /\ part # "acceptor"
          /\ part # "timer" /\ part # "agent" /\ part # "peer"
      BY <1>3
    <2> QED
      BY <1>3, <2>1, Zenon DEF NetNext, In
  <1> QED
    BY <1>1, <1>2, <1>3

NetInv == SocketInv /\ AcceptorInv /\ TimerInv /\ StreamInv

\* The invariants of all parts hold together in every behaviour.
LEMMA NetAlwaysSound == NetSpec => []NetInv
  <1>1. NetInit => NetInv
    BY InitOfParts, SocketInit, AcceptorInit, TimerInit, StreamInit DEF NetInv
  <1>2. NetInv /\ [NetNext]_net => NetInv'
    <2> SUFFICES ASSUME NetInv, [NetNext]_net
                 PROVE  NetInv'
      OBVIOUS
    <2>1. SocketInv'
      BY PartMoves, SocketNext DEF NetInv
    <2>2. AcceptorInv'
      BY PartMoves, AcceptorNext DEF NetInv
    <2>3. TimerInv'
      BY PartMoves, TimerNext DEF NetInv
    <2>4. StreamInv'
      BY PartMoves, StreamNext DEF NetInv
    <2> QED
      BY <2>1, <2>2, <2>3, <2>4 DEF NetInv
  <1> QED
    BY <1>1, <1>2, PTL DEF NetSpec

\* At any time a socket that was not closed during an SSL handshake has at most
\* one read and one write outstanding and knows of them,
\* holds bytes of its connection only, is reading if it has room and
\* writing if it has bytes, and is shut down after its bytes; no accepted
\* connection is overwritten; each timer object has one wait at most; and a stream
\* is not read past its end: for any number of objects, connections and timers and
\* any sizes (TCPSocket::Impl, TCPAcceptor::Impl and Timer::Impl of
\* platform/Network.cpp, common/MemoryStreams.cpp).
THEOREM OperationsAlwaysMatch == NetSpec => []OperationsMatch
  <1>1. NetInv => OperationsMatch
    BY SocketSound DEF NetInv, OperationsMatch, AcceptorInv, TimerInv, StreamInv, St!InBuffer
  <1> QED
    BY <1>1, NetAlwaysSound, PTL

\* No handler of a socket runs after its close(), unless it was closed during an
\* SSL handshake, plain or SSL, connected or accepted; no client is given away by
\* an acceptor that is gone, a timer fires for its latest setting only, the server
\* shuts a connection down after the answer, and a stream hands its bytes over once
\* each and in order (platform/Network.cpp, http/Server.cpp,
\* common/MemoryStreams.cpp).
THEOREM HandlersAlwaysInTime == NetSpec => HandlersInTime
  <1>1. NetInv /\ [NetNext]_net => [called' # "none" => live \/ torn]_socket
    BY PartMoves, SocketTold DEF NetInv
  <1>2. NetInv /\ [NetNext]_net => [~owner => UNCHANGED clients]_acceptor
    BY PartMoves, NoClients
  <1>3. NetInv /\ [NetNext]_net => [fired' # 0 => fired' = armed]_timer
    BY PartMoves, TimerFires DEF NetInv
  <1>4. [NetNext]_net => [part = "server" => Hs!ShutsAfterAnswer]_net
    BY ServerMoves, ServerShuts DEF net, Hs!ShutsAfterAnswer, ms
  <1>5. NetInv /\ [NetNext]_net => [St!AsFifo!FifoNext]_(St!AsFifo!fvars)
    BY PartMoves, StreamNext DEF NetInv
  <1>6. NetInit => St!AsFifo!FifoInit
    BY InitOfParts, StreamInit
  <1>7. NetSpec => St!ImplementsFifo
    BY <1>5, <1>6, NetAlwaysSound, PTL DEF NetSpec, St!ImplementsFifo, St!AsFifo!FifoSpec
  <1>8. NetSpec => So!NoHandlerAfterClose
    BY <1>1, NetAlwaysSound, PTL DEF NetSpec, So!NoHandlerAfterClose, So!vars, socket
  <1>9. NetSpec => Ac!NoClientAfterClose
    BY <1>2, NetAlwaysSound, PTL DEF NetSpec, Ac!NoClientAfterClose, Ac!vars, acceptor
  <1>10. NetSpec => Ti!OnlyLatestFires
    BY <1>3, NetAlwaysSound, PTL DEF NetSpec, Ti!OnlyLatestFires, Ti!vars, timer
  <1>11. NetSpec => [][part = "server" => Hs!ShutsAfterAnswer]_net
    BY <1>4, PTL DEF NetSpec
  <1> QED
    BY <1>7, <1>8, <1>9, <1>10, <1>11 DEF HandlersInTime

(***************************************************************************)
(* Messages                                                                *)
(***************************************************************************)
\* The numbers from one on, in order.
Counted(s) == s \in Seq(Nat) /\ \A k \in 1 .. Len(s) : s[k] = k

\* The next number keeps a sequence counted.
LEMMA CountsOn ==
  ASSUME NEW s, Counted(s), NEW k, k = Len(s) + 1
  PROVE  Counted(Append(s, k)) /\ Len(Append(s, k)) = Len(s) + 1 /\ Len(s) \in Nat
  BY DEF Counted

\* The server has given the requests before the current one to the node, and
\* all of these are answered except one that is waiting for its answer.
ServerInv ==
    /\ Counted(m14) /\ Counted(m15)
    /\ m6 = Len(m14) + 1
    /\ m10 \in BOOLEAN /\ m13 \in BOOLEAN
    /\ m16 = FALSE
    /\ m17 # "closed" => /\ m13 = m10
                         /\ Len(m14) = IF m10 THEN Len(m15) + 1 ELSE Len(m15)
    /\ m17 = "closed" => /\ m10 = FALSE /\ m13 = FALSE
                         /\ Len(m14) = Len(m15) \/ Len(m14) = Len(m15) + 1
    /\ m17 \in {"head", "body", "ready"} => m10 = FALSE

\* The invariant of the server holds at first
LEMMA ServerInit == Hs!Init => ServerInv
  <1> SUFFICES ASSUME Hs!Init PROVE ServerInv
    OBVIOUS
  <1>1. /\ m14 = << >> /\ m15 = << >> /\ m6 = 1 /\ m10 = FALSE /\ m13 = FALSE /\ m16 = FALSE
        /\ m17 = "idle"
    BY DEF Hs!Init
  <1>2. Counted(m14) /\ Counted(m15) /\ Len(m14) = 0 /\ Len(m15) = 0
    BY <1>1, EmptySeq DEF Counted
  <1>3. Len(m14) = IF m10 THEN Len(m15) + 1 ELSE Len(m15)
    BY <1>1, <1>2
  <1>4. m6 = Len(m14) + 1 /\ m17 # "closed" /\ m17 \notin {"head", "body", "ready"}
    BY <1>1, <1>2
  <1>5. m10 \in BOOLEAN /\ m13 \in BOOLEAN /\ m13 = m10
    BY <1>1
  <1> QED
    BY <1>1, <1>2, <1>3, <1>4, <1>5 DEF ServerInv

\* and after every step of it.
LEMMA ServerNext ==
  ASSUME ServerInv, [Hs!Next]_ms
  PROVE  ServerInv'
  <1> USE DEF ServerInv
  <1>1. CASE UNCHANGED ms
    BY <1>1 DEF ms
  <1>2. CASE Hs!AdvanceWrites
    <2>1. /\ m17 = "advance" /\ m17' \in {"idle", "body", "head"}
          /\ m17' # "idle" => ~m10
          /\ m10' = m10 /\ m13' = m13 /\ m14' = m14 /\ m15' = m15 /\ m16' = m16 /\ m6' = m6
      BY <1>2 DEF Hs!AdvanceWrites, Hs!Busy, Hs!parsing, Hs!node
    <2> QED
      BY <2>1
  <1>3. CASE Hs!AdvanceParses
    BY <1>3 DEF Hs!AdvanceParses, Hs!node
  <1>4. CASE Hs!AdvanceReads
    BY <1>4 DEF Hs!AdvanceReads, Hs!node
  <1>5. CASE Hs!on_client_handler
    <2>1. /\ m17 = "ready" /\ m17' = "idle" /\ m6' = m6 + 1 /\ m14' = Append(m14, m6) /\ m16' = m16
          /\ \/ m13' = TRUE /\ m10' = TRUE /\ m15' = m15
             \/ m13' = m13 /\ m10' = FALSE /\ m15' = Append(m15, m6)
      BY <1>5 DEF Hs!on_client_handler, Hs!read_next
    <2>2. Counted(m14') /\ Len(m14') = Len(m14) + 1 /\ Len(m14) \in Nat
      BY <2>1, CountsOn
    <2>3. m13 = FALSE /\ m10 = FALSE /\ Len(m14) = Len(m15)
      BY <2>1
    <2>4. CASE m13' = TRUE /\ m10' = TRUE /\ m15' = m15
      BY <2>1, <2>2, <2>3, <2>4
    <2>5. CASE m13' = m13 /\ m10' = FALSE /\ m15' = Append(m15, m6)
      <3>1. Counted(m15') /\ Len(m15') = Len(m15) + 1
        BY <2>3, <2>5, CountsOn
      <3> QED
        BY <2>1, <2>2, <2>3, <2>5, <3>1
    <2> QED
      BY <2>1, <2>4, <2>5
  <1>6. CASE Hs!advance_long_poll
    <2>1. /\ m17 = "idle" /\ m17' = "idle" /\ m13 /\ m13' = FALSE /\ m10' = FALSE
          /\ m16' = (m16 \/ ~m10) /\ m15' = Append(m15, m6 - 1) /\ m14' = m14 /\ m6' = m6
      BY <1>6 DEF Hs!advance_long_poll, Hs!write_response, Hs!parsing
    <2>2. m10 = TRUE /\ Len(m14) = Len(m15) + 1
      BY <2>1
    <2>3. Len(m14) \in Nat
      BY DEF Counted
    <2>4. m6 - 1 = Len(m15) + 1
      BY <2>2, <2>3
    <2>5. Counted(m15') /\ Len(m15') = Len(m15) + 1
      BY <2>1, <2>4, CountsOn
    <2> QED
      BY <2>1, <2>2, <2>5
  <1>7. CASE Hs!on_disconnect
    BY <1>7 DEF Hs!on_disconnect, Hs!forget
  <1>8. CASE Hs!Over
    BY <1>8 DEF Hs!Over, Hs!vars
  <1>9. CASE Hs!Reads \/ Hs!Writes
    BY <1>9 DEF Hs!Reads, Hs!Writes, Hs!SocketReads, Hs!SocketWrites, Hs!parsing, Hs!node
  <1> QED
    BY <1>1, <1>2, <1>3, <1>4, <1>5, <1>6, <1>7, <1>8, <1>9 DEF Hs!Next, Hs!Step

\* so that a request is executed only after the answer to the one before it.
LEMMA ServerSound == ServerInv => Hs!AnswersExpected /\ Hs!OneAtATime
  BY DEF ServerInv, Counted, Hs!AnswersExpected, Hs!OneAtATime

(***************************************************************************)
(* The agent                                                               *)
(***************************************************************************)
\* What the owner of a request was told.
ToldOK ==
    /\ DOMAIN m8 \subseteq Request
    /\ \A r \in DOMAIN m8 :
         \/ m8[r] = << >>
         \/ m8[r] = <<"timeout">> \/ m8[r] = <<"cancelled">>
         \/ m8[r] = <<r>> /\ r \in m9

\* The outstanding request is on the connection, on one of the two ways, or it
\* waits for the timer and there is no connection; nothing else is under way.
AgentInv ==
    /\ ToldOK
    /\ m3 \in BOOLEAN /\ m4 \in BOOLEAN /\ m5 \in BOOLEAN
    /\ m1 # None => m1 \in DOMAIN m8 /\ m8[m1] = << >> /\ (m3 \/ m5)
    /\ m5 => ~m3 /\ m1 # None
    /\ ~m3 => m6 = << >> /\ m7 = << >>
    /\ m3 /\ m4 => m1 = None /\ m6 = << >> /\ m7 = << >>
    /\ m3 /\ ~m4 => /\ m1 # None
                    /\ \/ m6 = <<m1>> /\ m7 = << >>
                       \/ m6 = << >> /\ m7 = <<m1>> /\ m1 \in m9
    /\ m10 = FALSE

\* The invariant of the agent holds at first
LEMMA AgentInit == Ha!Init => AgentInv
  BY DEF Ha!Init, AgentInv, ToldOK

\* and after every step of it,
LEMMA AgentNext ==
  ASSUME AgentInv, [Ha!Next]_ms
  PROVE  AgentInv'
  <1> USE DEF AgentInv
  <1>1. CASE UNCHANGED ms
    BY <1>1 DEF ms, ToldOK
  <1>2. ASSUME NEW r \in Request, Ha!set_request(r)
        PROVE  AgentInv'
    <2>1. /\ m1 = None /\ m1' = r /\ r # None /\ r \notin DOMAIN m8
          /\ m8' = [q \in DOMAIN m8 \cup {r} |-> IF q = r THEN << >> ELSE m8[q]]
          /\ m9' = m9
      BY <1>2, NetAssumption DEF Ha!set_request, Ha!Made
    <2>2. ToldOK' /\ m1' \in DOMAIN m8' /\ m8'[m1'] = << >>
      BY <2>1 DEF ToldOK
    <2>3. CASE Ha!connect_fails
      BY <2>1, <2>2, <2>3 DEF Ha!connect_fails, Ha!clear
    <2>4. CASE Ha!connect_and_write(r) /\ m5' = m5
      <3>1. m6 = << >> /\ m7 = << >> /\ m5 = FALSE
        BY <2>1
      <3>2. m6' = <<r>> /\ m7' = << >> /\ m3' = TRUE /\ m4' = FALSE /\ m10' = (m10 \/ (m3 /\ ~m4))
        BY <2>4, <3>1 DEF Ha!connect_and_write
      <3>3. m10' = FALSE
        BY <2>1, <3>2
      <3> QED
        BY <2>1, <2>2, <2>4, <3>1, <3>2, <3>3
    <2> QED
      BY <1>2, <2>3, <2>4 DEF Ha!set_request
  <1>3. ASSUME NEW r \in Request, Ha!cancel_request(r)
        PROVE  AgentInv'
    <2>1. /\ m1 = r /\ m1 # None /\ m1' = None
          /\ m8' = [m8 EXCEPT ![r] = Append(@, "cancelled")] /\ m9' = m9
      BY <1>3 DEF Ha!cancel_request
    <2>2. m8[r] = << >> /\ r \in DOMAIN m8
      BY <2>1
    <2>3. m8'[r] = <<"cancelled">> /\ DOMAIN m8' = DOMAIN m8 /\ \A q \in DOMAIN m8 : q # r => m8'[q] = m8[q]
      BY <2>1, <2>2
    <2>4. ToldOK'
      BY <2>1, <2>2, <2>3 DEF ToldOK
    <2> QED
      BY <1>3, <2>1, <2>4 DEF Ha!cancel_request, Ha!clear
  <1>4. CASE Ha!on_client_response
    <2>1. /\ m3 /\ ~m4 /\ m7 # << >> /\ m4' = TRUE /\ m7' = Tail(m7) /\ m1' = None
          /\ m8' = IF m1 = None THEN m8 ELSE [m8 EXCEPT ![m1] = Append(@, Head(m7))]
          /\ m9' = m9 /\ m3' = m3 /\ m6' = m6 /\ m5' = m5 /\ m10' = m10
      BY <1>4 DEF Ha!on_client_response
    <2>2. m1 # None /\ m7 = <<m1>> /\ m6 = << >> /\ m1 \in m9 /\ m1 \in DOMAIN m8 /\ m8[m1] = << >>
      BY <2>1
    <2>3. m7' = << >> /\ Head(m7) = m1
      BY <2>1, <2>2
    <2>4. m8'[m1] = <<m1>> /\ DOMAIN m8' = DOMAIN m8 /\ \A q \in DOMAIN m8 : q # m1 => m8'[q] = m8[q]
      BY <2>1, <2>2, <2>3
    <2>5. ToldOK'
      BY <2>1, <2>2, <2>4 DEF ToldOK
    <2> QED
      BY <2>1, <2>2, <2>3, <2>5
  <1>5. CASE Ha!on_client_disconnect
    <2>1. ToldOK'
      BY <1>5 DEF ToldOK, Ha!on_client_disconnect
    <2> QED
      BY <1>5, <2>1 DEF Ha!on_client_disconnect, Ha!clear
  <1>6. CASE Ha!on_reconnect_timer
    <2>1. m5 /\ m1 # None /\ ~m3 /\ m6 = << >> /\ m7 = << >> /\ m9' = m9
          /\ m1 \in DOMAIN m8 /\ m8[m1] = << >>
      BY <1>6 DEF Ha!on_reconnect_timer
    <2>2. CASE m2' > Timeout
      <3>1. /\ m5' = FALSE /\ m1' = None /\ m8' = [m8 EXCEPT ![m1] = Append(@, "timeout")]
            /\ UNCHANGED <<m3, m4, m6, m7, m10>>
        BY <1>6, <2>1, <2>2 DEF Ha!on_reconnect_timer, Ha!connection
      <3>2. m8'[m1] = <<"timeout">> /\ DOMAIN m8' = DOMAIN m8
            /\ \A q \in DOMAIN m8 : q # m1 => m8'[q] = m8[q]
        BY <2>1, <3>1
      <3>3. ToldOK'
        BY <2>1, <3>2 DEF ToldOK
      <3> QED
        BY <2>1, <3>1, <3>3
    <2>3. CASE ~(m2' > Timeout)
      <3>1. /\ m1' = m1 /\ m8' = m8
            /\ Ha!connect_fails \/ (Ha!connect_and_write(m1) /\ m5' = FALSE)
        BY <1>6, <2>1, <2>3 DEF Ha!on_reconnect_timer
      <3>2. ToldOK'
        BY <2>1, <3>1 DEF ToldOK
      <3>3. CASE Ha!connect_fails
        BY <2>1, <3>1, <3>2, <3>3 DEF Ha!connect_fails, Ha!clear
      <3>4. CASE Ha!connect_and_write(m1) /\ m5' = FALSE
        <4>1. m6' = <<m1>> /\ m7' = << >> /\ m3' = TRUE /\ m4' = FALSE /\ m10' = FALSE
          BY <2>1, <3>4 DEF Ha!connect_and_write
        <4> QED
          BY <2>1, <3>1, <3>2, <3>4, <4>1
      <3> QED
        BY <3>1, <3>3, <3>4
    <2> QED
      BY <2>2, <2>3
  <1>7. CASE Ha!ServerAnswers
    <2>1. /\ m6 # << >> /\ m9' = m9 \cup {Head(m6)} /\ m7' = Append(m7, Head(m6)) /\ m6' = Tail(m6)
          /\ UNCHANGED <<m1, m3, m4, m5, m8, m10>>
      BY <1>7 DEF Ha!ServerAnswers
    <2>2. m3 /\ ~m4 /\ m1 # None /\ m6 = <<m1>> /\ m7 = << >>
      BY <2>1
    <2>3. m9' = m9 \cup {m1} /\ m7' = <<m1>> /\ m6' = << >>
      BY <2>1, <2>2
    <2>4. ToldOK'
      BY <2>1, <2>3 DEF ToldOK
    <2> QED
      BY <2>1, <2>2, <2>3, <2>4
  <1>8. CASE Ha!Over
    BY <1>8 DEF Ha!Over, Ha!vars, ToldOK
  <1> QED
    BY <1>1, <1>2, <1>3, <1>4, <1>5, <1>6, <1>7, <1>8 DEF Ha!Next

\* so that an answer is never given to another request.
LEMMA AgentSound == AgentInv => Ha!RightAnswer /\ Ha!WriteExpected /\ Ha!SomethingComes
  <1> SUFFICES ASSUME AgentInv PROVE Ha!RightAnswer /\ Ha!WriteExpected /\ Ha!SomethingComes
    OBVIOUS
  <1>1. Ha!RightAnswer
    <2> SUFFICES ASSUME NEW r \in DOMAIN m8
                 PROVE  /\ Len(m8[r]) <= 1
                        /\ \A k \in 1 .. Len(m8[r]) : m8[r][k] \in {r, "timeout", "cancelled"}
                        /\ m8[r] = <<r>> => r \in m9
      BY DEF Ha!RightAnswer, Ha!Made
    <2>1. r # "timeout" /\ r # "cancelled"
      <3>1. r \in Request
        BY DEF AgentInv, ToldOK
      <3>2. Request \cap {None, "timeout", "cancelled"} = {}
        BY NetAssumption
      <3> QED
        BY <3>1, <3>2
    <2>2. \/ m8[r] = << >> \/ m8[r] = <<"timeout">> \/ m8[r] = <<"cancelled">>
          \/ m8[r] = <<r>> /\ r \in m9
      BY DEF AgentInv, ToldOK
    <2>3. CASE m8[r] = << >>
      BY <2>3
    <2>4. CASE m8[r] = <<"timeout">>
      BY <2>1, <2>4
    <2>5. CASE m8[r] = <<"cancelled">>
      BY <2>1, <2>5
    <2>6. CASE m8[r] = <<r>> /\ r \in m9
      BY <2>6
    <2> QED
      BY <2>2, <2>3, <2>4, <2>5, <2>6
  <1>2. Ha!WriteExpected
    BY DEF AgentInv, Ha!WriteExpected
  <1>3. Ha!SomethingComes
    <2>1. m5 => ~m3 /\ m1 # None
      BY DEF AgentInv
    <2>2. ASSUME m1 # None, ~m5
          PROVE  m3 /\ m1 \in {m6[k] : k \in 1 .. Len(m6)} \cup {m7[k] : k \in 1 .. Len(m7)}
      <3>1. m3 /\ (m6 = <<m1>> \/ m7 = <<m1>>)
        BY <2>2 DEF AgentInv
      <3> QED
        BY <3>1
    <2> QED
      BY <2>1, <2>2 DEF Ha!SomethingComes
  <1> QED
    BY <1>1, <1>2, <1>3

(***************************************************************************)
(* The queue of answers of a peer                                          *)
(***************************************************************************)
\* A sequence of whatever its elements are: of the numbers in the queue only
\* how many there are matters.
IsSeq(s) == \E S : s \in Seq(S)

\* An element more.
LEMMA OneMore ==
  ASSUME NEW s, IsSeq(s), NEW x
  PROVE  IsSeq(Append(s, x)) /\ Len(Append(s, x)) = Len(s) + 1 /\ Len(s) \in Nat
  <1>1. PICK S : s \in Seq(S)
    BY DEF IsSeq
  <1>2. PICK T : T = S \cup {x}
    OBVIOUS
  <1>3. s \in Seq(T) /\ x \in T
    BY <1>1, <1>2
  <1>4. Append(s, x) \in Seq(T) /\ Len(Append(s, x)) = Len(s) + 1 /\ Len(s) \in Nat
    BY <1>3
  <1> QED
    BY <1>4 DEF IsSeq

\* Writing makes the queue no longer.
LEMMA LeftIsShorter ==
  ASSUME NEW s, IsSeq(s), NEW n
  PROVE  IsSeq(Pc!Left(s, n)) /\ Len(Pc!Left(s, n)) <= Len(s) /\ Len(Pc!Left(s, n)) \in Nat
  <1>1. PICK S : s \in Seq(S)
    BY DEF IsSeq
  <1>2. Len(s) \in Nat
    BY <1>1
  <1>3. PICK D : D = {k \in 1 .. Len(s) : Pc!SumTo(s, k) <= n}
    OBVIOUS
  <1>4. PICK done : done = Cardinality(D)
    OBVIOUS
  <1>5. done \in Nat /\ done <= Len(s)
    <2>1. IsFiniteSet(1 .. Len(s)) /\ Cardinality(1 .. Len(s)) = Len(s)
      <3>1. /\ IsFiniteSet(1 .. Len(s))
            /\ Cardinality(1 .. Len(s)) = IF 1 > Len(s) THEN 0 ELSE Len(s) - 1 + 1
        BY <1>2, FS_Interval
      <3> QED
        BY <1>2, <3>1
    <2>2. D \subseteq 1 .. Len(s)
      BY <1>3
    <2>3. IsFiniteSet(D) /\ Cardinality(D) <= Cardinality(1 .. Len(s))
      BY <2>1, <2>2, FS_Subset
    <2>4. Cardinality(D) \in Nat
      BY <2>3, FS_CardinalityType
    <2> QED
      BY <1>4, <2>1, <2>3, <2>4
  <1>6. PICK rest : rest = SubSeq(s, done + 1, Len(s))
    OBVIOUS
  <1>7. rest \in Seq(S) /\ Len(rest) = Len(s) - done
    BY <1>1, <1>2, <1>5, <1>6, CutOf
  <1>8. PICK l : l = Pc!Left(s, n)
    OBVIOUS
  <1>9. PICK x : x = Head(rest) - (n - Pc!SumTo(s, done))
    OBVIOUS
  <1>10. l = IF rest = << >> THEN << >> ELSE <<x>> \o Tail(rest)
    <2>1. Pc!Cardinality(D) = Cardinality(D)
      BY DEF Pc!Cardinality, Cardinality
    <2> QED
      BY <2>1, <1>3, <1>4, <1>6, <1>8, <1>9 DEF Pc!Left
  <1>11. CASE rest = << >>
    <2>1. l = << >> /\ l \in Seq(S) /\ Len(l) = 0
      BY <1>10, <1>11
    <2> QED
      BY <1>2, <1>8, <2>1 DEF IsSeq
  <1>12. CASE rest # << >>
    <2>1. PICK T : T = S \cup {x}
      OBVIOUS
    <2>2. Tail(rest) \in Seq(S) /\ Len(Tail(rest)) = Len(rest) - 1
      BY <1>7, <1>12, HeadTailProperties
    <2>3. Tail(rest) \in Seq(T) /\ <<x>> \in Seq(T) /\ Len(<<x>>) = 1
      BY <2>1, <2>2
    <2>4. l \in Seq(T) /\ Len(l) = 1 + Len(Tail(rest))
      <3>1. /\ <<x>> \o Tail(rest) \in Seq(T)
            /\ Len(<<x>> \o Tail(rest)) = Len(<<x>>) + Len(Tail(rest))
        BY <2>3, ConcatProperties
      <3> QED
        BY <1>10, <1>12, <2>3, <3>1
    <2>5. Len(l) = Len(s) - done
      BY <1>2, <1>5, <1>7, <2>2, <2>4
    <2>6. Len(l) \in Nat
      BY <2>4
    <2> QED
      BY <1>2, <1>5, <1>8, <2>4, <2>5, <2>6 DEF IsSeq
  <1> QED
    BY <1>11, <1>12

\* Between two messages of one buffer at most one answer waits, so that there
\* are two after the next: the node's own messages come on top.
QueueInv ==
    /\ IsSeq(m8) /\ Len(m8) \in Nat /\ m13 \in Nat
    /\ Len(m8) <= 2 + m13
    /\ m14 \in {"ready", "next"} /\ m5 => Len(m8) <= 1

\* What a write does to the queue.
LEMMA WriteShortens ==
  ASSUME NEW rs, IsSeq(rs), NEW shutdown, Pc!write(rs, shutdown)
  PROVE  IsSeq(m8') /\ Len(m8') <= Len(rs) /\ Len(m8') \in Nat
  <1>1. PICK n : n = IF m11 THEN 0 ELSE Pc!Accepted(rs)
    OBVIOUS
  <1>2. m8' = Pc!Left(rs, n)
    BY <1>1 DEF Pc!write
  <1> QED
    BY <1>2, LeftIsShorter

\* advance_state writes, and goes on only if at most one answer is left.
LEMMA AdvanceShortens ==
  ASSUME QueueInv, NEW after, NEW stop, Pc!advance_state(after, stop)
  PROVE  /\ IsSeq(m8') /\ Len(m8') \in Nat /\ Len(m8') <= Len(m8) /\ m13' = m13
         /\ \/ m14' = stop /\ m5' = m5
            \/ m14' \in {after, stop} /\ Len(m8') <= 1
  <1>1. Pc!write(m8, m10) /\ m13' = m13
    BY DEF Pc!advance_state, Pc!net
  <1>2. IsSeq(m8') /\ Len(m8') \in Nat /\ Len(m8') <= Len(m8)
    BY <1>1, WriteShortens DEF QueueInv
  <1>3. CASE Pc!Backed(m8')
    <2>1. m14' = stop /\ m5' = m5
      BY <1>3 DEF Pc!advance_state, Pc!reading
    <2> QED
      BY <1>1, <1>2, <2>1
  <1>4. CASE ~Pc!Backed(m8')
    <2>1. Len(m8') <= 1
      BY <1>2, <1>4 DEF Pc!Backed
    <2>2. m14' \in {after, stop}
      BY <1>4 DEF Pc!advance_state
    <2> QED
      BY <1>1, <1>2, <2>1, <2>2
  <1> QED
    BY <1>3, <1>4

\* The queue is empty at first,
LEMMA QueueInit == Pc!Init => QueueInv
  <1> SUFFICES ASSUME Pc!Init PROVE QueueInv
    OBVIOUS
  <1>1. m8 = << >> /\ m13 = 0 /\ m14 = "idle"
    BY DEF Pc!Init
  <1>2. m8 \in Seq(Nat) /\ Len(m8) = 0
    BY <1>1, EmptySeq
  <1> QED
    BY <1>1, <1>2 DEF QueueInv, IsSeq

\* and its bound holds after every step of the peer.
LEMMA QueueNext ==
  ASSUME QueueInv, [Pc!Next]_ms
  PROVE  QueueInv'
  <1> USE DEF QueueInv
  <1>1. CASE UNCHANGED ms
    BY <1>1 DEF ms
  <1>2. ASSUME Pc!disconnect
        PROVE  QueueInv'
    <2>1. m8' = << >> /\ m13' = m13 /\ m14' = "closed"
      BY <1>2 DEF Pc!disconnect, Pc!net
    <2>2. m8' \in Seq(Nat) /\ Len(m8') = 0
      BY <2>1, EmptySeq
    <2> QED
      BY <2>1, <2>2 DEF IsSeq
  <1>3. CASE Pc!Advance
    <2>1. CASE Pc!advance_state("ready", "idle")
      BY <2>1, AdvanceShortens
    <2>2. CASE Pc!advance_refused
      BY <1>2, <2>2 DEF Pc!advance_refused
    <2> QED
      BY <1>3, <2>1, <2>2 DEF Pc!Advance
  <1>4. CASE Pc!NextRequest
    <2>1. CASE Pc!advance_state("next", "next")
      <3>1. m14 = "ready"
        BY <1>4 DEF Pc!NextRequest
      <3> QED
        BY <2>1, <3>1, AdvanceShortens
    <2>2. CASE Pc!advance_refused
      BY <1>2, <2>2 DEF Pc!advance_refused
    <2> QED
      BY <1>4, <2>1, <2>2 DEF Pc!NextRequest
  <1>5. CASE Pc!read_next_request
    <2>1. CASE ~Pc!Complete
      BY <1>5, <2>1 DEF Pc!read_next_request, Pc!writing, Pc!net
    <2>2. CASE Pc!Complete
      <3>1. m14 = "next" /\ m5 /\ m5' = FALSE /\ m13' = m13
        BY <1>5, <2>2 DEF Pc!read_next_request, Pc!Complete
      <3>2. Len(m8) <= 1
        BY <3>1
      <3>3. PICK k : Pc!handle(k)
        BY <1>5, <2>2 DEF Pc!read_next_request
      <3>4. CASE m8' = m8
        BY <3>1, <3>2, <3>4
      <3>5. CASE Pc!write(Append(m8, Answer[k]), FALSE)
        <4>1. IsSeq(Append(m8, Answer[k])) /\ Len(Append(m8, Answer[k])) = Len(m8) + 1
          BY OneMore
        <4>2. IsSeq(m8') /\ Len(m8') <= Len(m8) + 1 /\ Len(m8') \in Nat
          BY <3>5, <4>1, WriteShortens
        <4> QED
          BY <3>1, <3>2, <4>2
      <3> QED
        BY <3>3, <3>4, <3>5 DEF Pc!handle, Pc!writing
    <2> QED
      BY <2>1, <2>2
  <1>6. CASE Pc!Broadcast
    <2>1. /\ m14 = "idle" /\ m14' = m14 /\ m13' = m13 + 1
          /\ Pc!write(Append(m8, 1), FALSE)
      BY <1>6 DEF Pc!Broadcast
    <2>2. IsSeq(Append(m8, 1)) /\ Len(Append(m8, 1)) = Len(m8) + 1
      BY OneMore
    <2>3. IsSeq(m8') /\ Len(m8') <= Len(m8) + 1 /\ Len(m8') \in Nat
      BY <2>1, <2>2, WriteShortens
    <2> QED
      BY <2>1, <2>3
  <1>7. CASE Pc!send_shutdown
    <2>1. m14 = "idle" /\ m14' = m14 /\ m13' = m13 /\ Pc!write(m8, TRUE)
      BY <1>7 DEF Pc!send_shutdown, Pc!net
    <2>2. IsSeq(m8') /\ Len(m8') <= Len(m8) /\ Len(m8') \in Nat
      BY <2>1, WriteShortens
    <2> QED
      BY <2>1, <2>2
  <1>8. CASE Pc!SocketEnds
    BY <1>2, <1>8 DEF Pc!SocketEnds
  <1>9. CASE Pc!Over
    BY <1>9 DEF Pc!Over, Pc!vars
  <1>10. CASE Pc!Reads \/ Pc!Writes
    BY <1>10 DEF Pc!Reads, Pc!Writes, Pc!SocketReads, Pc!SocketWrites, Pc!writing, Pc!net
  <1> QED
    BY <1>1, <1>3, <1>4, <1>5, <1>6, <1>7, <1>8, <1>9, <1>10 DEF Pc!Next, Pc!Runs

(***************************************************************************)
(* Sums of numbers.  SumTo is a recursive function: what it gives is       *)
(* proved by induction over the naturals, from their order being           *)
(* well-founded.                                                           *)
(***************************************************************************)
\* Induction over the naturals, over the elements of a set.
LEMMA Induction ==
  ASSUME NEW S, 0 \in S, \A n \in Nat : n \in S => n + 1 \in S
  PROVE  \A n \in Nat : n \in S
  <1>1. SUFFICES ASSUME NEW x \in Nat, x \notin S PROVE FALSE
    OBVIOUS
  <1>2. PICK T : T = {n \in Nat : n \notin S}
    OBVIOUS
  <1> DEFINE R == {ss \in Nat \X Nat : ss[1] < ss[2]}
  <1>3. IsWellFoundedOn(R, Nat)
    BY NatLessThanWellFounded DEF OpToRel
  <1>4. PICK m \in T : \A y \in T : ~(<<y, m>> \in R)
    <2>1. T \subseteq Nat /\ T # {}
      BY <1>1, <1>2
    <2> HIDE DEF R
    <2> QED
      BY <1>3, <2>1, WFMin
  <1>5. m \in Nat /\ m \notin S
    BY <1>2
  <1>6. ASSUME NEW y \in Nat, y < m
        PROVE  y \in S
    BY <1>2, <1>4, <1>5, <1>6
  <1>7. m # 0 /\ m - 1 \in Nat
    BY <1>5
  <1>8. m - 1 \in S
    BY <1>5, <1>6, <1>7
  <1>9. (m - 1) + 1 \in S
    BY <1>7, <1>8
  <1> QED
    BY <1>5, <1>7, <1>9

\* The sums of the first numbers of a sequence, up to n of them,
HasSums(s, n) ==
  \E g \in [0 .. n -> Nat] : g[0] = 0 /\ \A k \in 1 .. n : g[k] = g[k - 1] + s[k]

\* exist.
LEMMA SumsExist ==
  ASSUME NEW s, NEW n \in Nat, \A k \in 1 .. n : s[k] \in Nat
  PROVE  HasSums(s, n)
  <1>1. PICK T : T = {m \in Nat : m <= n => HasSums(s, m)}
    OBVIOUS
  <1>2. 0 \in T
    <2>1. PICK g : g = [k \in 0 .. 0 |-> 0]
      OBVIOUS
    <2>2. g \in [0 .. 0 -> Nat] /\ g[0] = 0 /\ \A k \in 1 .. 0 : g[k] = g[k - 1] + s[k]
      BY <2>1
    <2> QED
      BY <1>1, <2>2 DEF HasSums
  <1>3. \A m \in Nat : m \in T => m + 1 \in T
    <2> SUFFICES ASSUME NEW m \in Nat, m \in T, m + 1 <= n
                 PROVE  HasSums(s, m + 1)
      BY <1>1
    <2>1. PICK f \in [0 .. m -> Nat] : f[0] = 0 /\ \A k \in 1 .. m : f[k] = f[k - 1] + s[k]
      BY <1>1 DEF HasSums
    <2>2. PICK g : g = [k \in 0 .. m + 1 |-> IF k <= m THEN f[k] ELSE f[m] + s[m + 1]]
      OBVIOUS
    <2>3. s[m + 1] \in Nat
      OBVIOUS
    <2>4. g \in [0 .. m + 1 -> Nat] /\ g[0] = 0
      BY <2>1, <2>2, <2>3
    <2>5. ASSUME NEW k \in 1 .. m + 1
          PROVE  g[k] = g[k - 1] + s[k]
      <3>1. CASE k = m + 1
        BY <2>2, <3>1
      <3>2. CASE k \in 1 .. m
        <4>1. k \in 0 .. m + 1 /\ k - 1 \in 0 .. m + 1 /\ k <= m /\ k - 1 <= m
          BY <3>2
        <4> QED
          BY <2>1, <2>2, <3>2, <4>1
      <3> QED
        BY <3>1, <3>2
    <2> QED
      BY <2>4, <2>5 DEF HasSums
  <1>4. n \in T
    BY <1>2, <1>3, Induction
  <1> QED
    BY <1>1, <1>4

\* A sum grows by the next number.
LEMMA Sums ==
  ASSUME NEW s, Len(s) \in Nat, \A k \in 1 .. Len(s) : s[k] \in Nat
  PROVE  /\ Pc!SumTo(s, 0) = 0
         /\ \A k \in 0 .. Len(s) : Pc!SumTo(s, k) \in Nat
         /\ \A k \in 1 .. Len(s) : Pc!SumTo(s, k) = Pc!SumTo(s, k - 1) + s[k]
  <1>1. PICK n \in Nat : n = Len(s)
    OBVIOUS
  <1>2. PICK g \in [0 .. n -> Nat] : g[0] = 0 /\ \A k \in 1 .. n : g[k] = g[k - 1] + s[k]
    BY <1>1, SumsExist DEF HasSums
  <1>3. g = [k \in 0 .. n |-> IF k = 0 THEN 0 ELSE g[k - 1] + s[k]]
    <2>1. ASSUME NEW k \in 0 .. n
          PROVE  g[k] = IF k = 0 THEN 0 ELSE g[k - 1] + s[k]
      <3>1. k = 0 \/ k \in 1 .. n
        OBVIOUS
      <3> QED
        BY <1>2, <3>1
    <2>2. g = [k \in 0 .. n |-> g[k]]
      OBVIOUS
    <2> QED
      BY <2>1, <2>2
  <1>4. PICK f : /\ f = [k \in 0 .. n |-> IF k = 0 THEN 0 ELSE f[k - 1] + s[k]]
                 /\ \A k : Pc!SumTo(s, k) = f[k]
    <2>1. PICK f : f = CHOOSE h : h = [k \in 0 .. n |-> IF k = 0 THEN 0 ELSE h[k - 1] + s[k]]
      OBVIOUS
    <2>2. f = [k \in 0 .. n |-> IF k = 0 THEN 0 ELSE f[k - 1] + s[k]]
      BY <1>3, <2>1
    <2>3. \A k : Pc!SumTo(s, k) = f[k]
      BY <1>1, <2>1, Zenon DEF Pc!SumTo
    <2> QED
      BY <2>2, <2>3
  <1>5. f[0] = 0 /\ \A k \in 1 .. n : f[k] = f[k - 1] + s[k]
    <2>1. 0 \in 0 .. n
      OBVIOUS
    <2>2. ASSUME NEW k \in 1 .. n
          PROVE  k \in 0 .. n /\ k # 0
      OBVIOUS
    <2> QED
      BY <1>4, <2>1, <2>2
  <1>6. PICK T : T = {k \in Nat : k <= n => f[k] \in Nat}
    OBVIOUS
  <1>7. 0 \in T
    BY <1>5, <1>6
  <1>8. \A k \in Nat : k \in T => k + 1 \in T
    <2> SUFFICES ASSUME NEW k \in Nat, k \in T, k + 1 <= n PROVE f[k + 1] \in Nat
      BY <1>6
    <2>1. k + 1 \in 1 .. n /\ (k + 1) - 1 = k /\ f[k] \in Nat
      BY <1>6
    <2> QED
      BY <1>1, <1>5, <2>1
  <1>9. \A k \in Nat : k \in T
    BY <1>7, <1>8, Induction
  <1>10. \A k \in 0 .. n : f[k] \in Nat
    BY <1>6, <1>9
  <1>11. Pc!SumTo(s, 0) = 0
    BY <1>4, <1>5
  <1>12. \A k \in 0 .. Len(s) : Pc!SumTo(s, k) \in Nat
    BY <1>1, <1>4, <1>10
  <1>13. \A k \in 1 .. Len(s) : Pc!SumTo(s, k) = Pc!SumTo(s, k - 1) + s[k]
    <2>1. \A k : Pc!SumTo(s, k) = f[k]
      BY <1>4
    <2> QED
      BY <1>1, <1>5, <2>1
  <1> QED
    BY <1>11, <1>12, <1>13

\* The sums of positive numbers grow.
LEMMA SumsGrow ==
  ASSUME NEW s, Len(s) \in Nat, \A k \in 1 .. Len(s) : s[k] \in Nat \ {0},
         NEW j \in 0 .. Len(s), NEW k \in 0 .. Len(s), j < k
  PROVE  Pc!SumTo(s, j) < Pc!SumTo(s, k)
  <1>1. \A i \in 1 .. Len(s) : s[i] \in Nat
    OBVIOUS
  <1>2. PICK n \in Nat : n = Len(s)
    OBVIOUS
  <1>3. PICK f : f = [i \in 0 .. n |-> Pc!SumTo(s, i)]
    OBVIOUS
  <1>4. f \in [0 .. n -> Nat] /\ \A i \in 1 .. n : f[i] = f[i - 1] + s[i]
    <2>1. \A i \in 1 .. n : i \in 0 .. n /\ i - 1 \in 0 .. n
      OBVIOUS
    <2> QED
      BY <1>1, <1>2, <1>3, <2>1, Sums
  <1>5. PICK T : T = {d \in Nat : (j + 1) + d <= n => f[j] < f[(j + 1) + d]}
    OBVIOUS
  <1>6. 0 \in T
    <2> SUFFICES ASSUME j + 1 <= n PROVE f[j] < f[j + 1]
      <3>1. (j + 1) + 0 = j + 1
        BY <1>2
      <3> QED
        BY <1>5, <3>1
    <2>1. j \in 0 .. n /\ j + 1 \in 1 .. n /\ (j + 1) - 1 = j
      BY <1>2
    <2>2. f[j] \in Nat /\ f[j + 1] = f[j] + s[j + 1] /\ s[j + 1] \in Nat \ {0}
      BY <1>2, <1>4, <2>1
    <2> QED
      BY <2>2
  <1>7. \A d \in Nat : d \in T => d + 1 \in T
    <2> SUFFICES ASSUME NEW d \in Nat, d \in T, (j + 1) + (d + 1) <= n
                 PROVE  f[j] < f[(j + 1) + (d + 1)]
      BY <1>5
    <2>1. PICK i : i = (j + 1) + d
      OBVIOUS
    <2>2. i \in 0 .. n /\ i + 1 \in 1 .. n /\ (i + 1) - 1 = i /\ (j + 1) + (d + 1) = i + 1
      BY <1>2, <2>1
    <2>3. f[j] < f[i]
      BY <1>5, <2>1, <2>2
    <2>4. f[i + 1] = f[i] + s[i + 1] /\ s[i + 1] \in Nat \ {0}
      BY <1>2, <1>4, <2>2
    <2>5. f[i] \in Nat /\ f[j] \in Nat
      BY <1>2, <1>4, <2>2
    <2>6. f[j] < f[i + 1]
      BY <2>3, <2>4, <2>5
    <2> QED
      BY <2>2, <2>6
  <1>8. \A d \in Nat : d \in T
    BY <1>6, <1>7, Induction
  <1>9. PICK d \in Nat : (j + 1) + d = k
    <2>1. k - (j + 1) \in Nat /\ (j + 1) + (k - (j + 1)) = k
      BY <1>2
    <2> QED
      BY <2>1
  <1>10. f[j] < f[k]
    <2>1. d \in T /\ k <= n
      BY <1>2, <1>8
    <2> QED
      BY <1>5, <1>9, <2>1
  <1> QED
    BY <1>2, <1>3, <1>10

\* Sums of the same numbers are the same.
LEMMA SumsAgree ==
  ASSUME NEW s, NEW t, Len(s) \in Nat, Len(t) \in Nat,
         \A k \in 1 .. Len(s) : s[k] \in Nat, \A k \in 1 .. Len(t) : t[k] \in Nat,
         NEW n \in Nat, n <= Len(s), n <= Len(t), \A k \in 1 .. n : s[k] = t[k]
  PROVE  Pc!SumTo(s, n) = Pc!SumTo(t, n)
  <1>1. PICK T : T = {k \in Nat : k <= n => Pc!SumTo(s, k) = Pc!SumTo(t, k)}
    OBVIOUS
  <1>2. 0 \in T
    <2>1. Pc!SumTo(s, 0) = 0
      BY Sums
    <2>2. Pc!SumTo(t, 0) = 0
      BY Sums
    <2> QED
      BY <1>1, <2>1, <2>2
  <1>3. \A k \in Nat : k \in T => k + 1 \in T
    <2> SUFFICES ASSUME NEW k \in Nat, k \in T, k + 1 <= n
                 PROVE  Pc!SumTo(s, k + 1) = Pc!SumTo(t, k + 1)
      BY <1>1
    <2>1. k + 1 \in 1 .. Len(s) /\ k + 1 \in 1 .. Len(t) /\ k + 1 \in 1 .. n /\ (k + 1) - 1 = k
      OBVIOUS
    <2>2. Pc!SumTo(s, k) = Pc!SumTo(t, k)
      BY <1>1
    <2>3. Pc!SumTo(s, k + 1) = Pc!SumTo(s, (k + 1) - 1) + s[k + 1]
      BY <2>1, Sums
    <2>4. Pc!SumTo(t, k + 1) = Pc!SumTo(t, (k + 1) - 1) + t[k + 1]
      BY <2>1, Sums
    <2> QED
      BY <2>1, <2>2, <2>3, <2>4
  <1>4. n \in T
    BY <1>2, <1>3, Induction
  <1> QED
    BY <1>1, <1>4

Positive == Nat \ {0}

\* What is left of the answers is not empty, each of them.
LEMMA LeftPositive ==
  ASSUME NEW s \in Seq(Positive), NEW n \in Nat
  PROVE  Pc!Left(s, n) \in Seq(Positive)
  <1>1. Len(s) \in Nat /\ \A k \in 1 .. Len(s) : s[k] \in Nat \ {0} /\ s[k] \in Nat
    BY DEF Positive
  <1>2. PICK N \in Nat : N = Len(s)
    BY <1>1
  <1>3. /\ Pc!SumTo(s, 0) = 0
        /\ \A k \in 0 .. N : Pc!SumTo(s, k) \in Nat
        /\ \A k \in 1 .. N : Pc!SumTo(s, k) = Pc!SumTo(s, k - 1) + s[k]
    BY <1>1, <1>2, Sums
  <1>4. PICK T : T = {k \in Nat : k <= N /\ Pc!SumTo(s, k) <= n}
    OBVIOUS
  <1>5. PICK m \in T : m + 1 \notin T
    <2>1. 0 \in T
      BY <1>3, <1>4
    <2>2. N + 1 \notin T
      BY <1>4
    <2> QED
      BY <1>4, <2>1, <2>2, Induction
  <1>6. /\ m \in 0 .. N /\ Pc!SumTo(s, m) <= n
        /\ m < N => Pc!SumTo(s, m + 1) > n
    <2>1. m \in 0 .. N /\ Pc!SumTo(s, m) <= n
      BY <1>4, <1>5
    <2>2. m < N => m + 1 \in 0 .. N /\ ~(Pc!SumTo(s, m + 1) <= n)
      BY <1>4, <1>5, <2>1
    <2> QED
      BY <1>3, <2>1, <2>2
  <1>7. PICK D : D = {k \in 1 .. Len(s) : Pc!SumTo(s, k) <= n}
    OBVIOUS
  <1>8. D = 1 .. m
    <2>1. ASSUME NEW k \in 1 .. m
          PROVE  k \in D
      <3>1. k \in 0 .. Len(s) /\ k \in 1 .. Len(s) /\ m \in 0 .. Len(s) /\ k \in 0 .. N
        BY <1>2, <1>6
      <3>2. CASE k = m
        BY <1>6, <1>7, <3>1, <3>2
      <3>3. CASE k < m
        <4>1. Pc!SumTo(s, k) < Pc!SumTo(s, m)
          BY <1>1, <3>1, <3>3, SumsGrow
        <4> QED
          BY <1>3, <1>6, <1>7, <3>1, <4>1
      <3> QED
        BY <1>6, <3>2, <3>3
    <2>2. ASSUME NEW k \in D, k \notin 1 .. m
          PROVE  FALSE
      <3>1. k \in 1 .. N /\ k > m /\ m < N /\ Pc!SumTo(s, k) <= n
        BY <1>2, <1>6, <1>7, <2>2
      <3>2. m + 1 \in 0 .. N /\ k \in 0 .. N /\ Pc!SumTo(s, m + 1) > n
        BY <1>6, <3>1
      <3>3. CASE k = m + 1
        BY <1>3, <3>1, <3>2, <3>3
      <3>4. CASE m + 1 < k
        <4>1. Pc!SumTo(s, m + 1) < Pc!SumTo(s, k)
          BY <1>1, <1>2, <3>2, <3>4, SumsGrow
        <4> QED
          BY <1>3, <3>1, <3>2, <4>1
      <3> QED
        BY <1>6, <3>1, <3>3, <3>4
    <2>3. D \subseteq 1 .. m
      BY <2>2
    <2> QED
      BY <2>1, <2>3
  <1>9. Pc!Cardinality(D) = m
    <2>1. Cardinality(1 .. m) = IF 1 > m THEN 0 ELSE m - 1 + 1
      BY <1>6, FS_Interval
    <2>2. Cardinality(D) = m
      BY <1>6, <1>8, <2>1
    <2>3. Pc!Cardinality(D) = Cardinality(D)
      BY DEF Pc!Cardinality, Cardinality
    <2> QED
      BY <2>2, <2>3
  <1>10. PICK rest : rest = SubSeq(s, m + 1, Len(s))
    OBVIOUS
  <1>11. PICK x : x = Head(rest) - (n - Pc!SumTo(s, m))
    OBVIOUS
  <1>12. PICK l : l = Pc!Left(s, n)
    OBVIOUS
  <1>13. l = IF rest = << >> THEN << >> ELSE <<x>> \o Tail(rest)
    BY <1>7, <1>9, <1>10, <1>11, <1>12 DEF Pc!Left
  <1>14. CASE rest = << >>
    BY <1>12, <1>13, <1>14
  <1>15. CASE rest # << >>
    <2>1. rest \in Seq(Positive) /\ Len(rest) = N - m
      BY <1>2, <1>6, <1>10, CutOf
    <2>2. m < N
      <3>1. m = N => Len(rest) = 0
        BY <2>1
      <3> QED
        BY <1>6, <1>15, <2>1, <3>1
    <2>3. Head(rest) = s[m + 1]
      BY <1>2, <1>6, <1>10, <2>1, <2>2
    <2>4. m + 1 \in 1 .. N /\ (m + 1) - 1 = m /\ m + 1 \in 0 .. N
      BY <1>6, <2>2
    <2>5. Pc!SumTo(s, m + 1) = Pc!SumTo(s, m) + s[m + 1]
      BY <1>3, <2>4
    <2>6. x \in Positive
      <3>1. /\ s[m + 1] \in Nat /\ Pc!SumTo(s, m) \in Nat /\ Pc!SumTo(s, m + 1) \in Nat
            /\ Pc!SumTo(s, m + 1) > n
        BY <1>1, <1>2, <1>3, <1>6, <2>2, <2>4
      <3> QED
        BY <1>11, <2>3, <2>5, <3>1 DEF Positive
    <2>7. Tail(rest) \in Seq(Positive)
      BY <1>15, <2>1, HeadTailProperties
    <2> QED
      BY <1>12, <1>13, <1>15, <2>6, <2>7
  <1> QED
    BY <1>14, <1>15

\* Where the messages of the peer begin.
LEMMA Starts ==
  /\ Body \in Seq(Nat) /\ Len(Body) \in Nat /\ \A k \in 1 .. Len(Body) : Body[k] \in Nat
  /\ HeaderSize \in Nat \ {0} /\ BufSize \in Nat /\ BufSize >= HeaderSize
  /\ Pc!Start(1) = 0
  /\ \A k \in 1 .. Len(Body) + 1 : Pc!Start(k) \in Nat
  /\ \A k \in 1 .. Len(Body) : Pc!Start(k + 1) = Pc!Start(k) + HeaderSize + Body[k]
  /\ \A j, k \in 1 .. Len(Body) + 1 : j < k => Pc!Start(j) < Pc!Start(k)
  <1>1. /\ Body \in Seq(Nat) /\ HeaderSize \in Nat \ {0} /\ BufSize \in Nat /\ BufSize >= HeaderSize
    BY NetAssumption DEF Pc!ClientAssumption
  <1>2. PICK N \in Nat : N = Len(Body)
    BY <1>1
  <1>3. \A k \in 1 .. N : Body[k] \in Nat
    BY <1>1, <1>2
  <1>4. PICK w : w = [i \in 1 .. N |-> HeaderSize + Body[i]]
    OBVIOUS
  <1>5. /\ Len(w) = N
        /\ \A i \in 1 .. N : w[i] = HeaderSize + Body[i] /\ w[i] \in Nat /\ w[i] \in Nat \ {0}
    <2>1. \A i \in 1 .. N : w[i] = HeaderSize + Body[i] /\ w[i] \in Nat /\ w[i] \in Nat \ {0}
      BY <1>1, <1>3, <1>4
    <2>2. w \in [1 .. N -> Nat]
      BY <1>4, <2>1
    <2>3. Len(w) = N
      BY <2>2
    <2> QED
      BY <2>1, <2>3
  <1>6. ASSUME NEW k \in 1 .. N + 1
        PROVE  Pc!Start(k) = Pc!SumTo(w, k - 1)
    <2>1. PICK v : v = [i \in 1 .. k - 1 |-> HeaderSize + Body[i]]
      OBVIOUS
    <2>2. \A i \in 1 .. k - 1 : i \in 1 .. N
      OBVIOUS
    <2>3. \A i \in 1 .. k - 1 : v[i] = w[i] /\ v[i] \in Nat
      BY <1>5, <2>1, <2>2
    <2>4. k - 1 \in Nat /\ v \in [1 .. k - 1 -> Nat]
      BY <2>1, <2>3
    <2>5. Len(v) = k - 1
      BY <2>4
    <2>6. Pc!SumTo(v, k - 1) = Pc!SumTo(w, k - 1)
      <3>1. k - 1 <= Len(v) /\ k - 1 <= Len(w) /\ Len(v) \in Nat /\ Len(w) \in Nat
        BY <1>5, <2>4, <2>5
      <3> QED
        BY <1>5, <2>3, <2>4, <2>5, <3>1, SumsAgree
    <2>7. Pc!Start(k) = Pc!SumTo(v, Len(v))
      BY <2>1 DEF Pc!Start, Pc!Sum
    <2> QED
      BY <2>5, <2>6, <2>7
  <1>7. /\ Pc!SumTo(w, 0) = 0
        /\ \A k \in 0 .. N : Pc!SumTo(w, k) \in Nat
        /\ \A k \in 1 .. N : Pc!SumTo(w, k) = Pc!SumTo(w, k - 1) + w[k]
    BY <1>5, Sums
  <1>8. Pc!Start(1) = 0
    BY <1>6, <1>7
  <1>9. ASSUME NEW k \in 1 .. N + 1
        PROVE  Pc!Start(k) \in Nat
    BY <1>6, <1>7
  <1>10. ASSUME NEW k \in 1 .. N
         PROVE  Pc!Start(k + 1) = Pc!Start(k) + HeaderSize + Body[k]
    <2>1. k \in 1 .. N + 1 /\ k + 1 \in 1 .. N + 1 /\ (k + 1) - 1 = k /\ k - 1 \in 0 .. N
      OBVIOUS
    <2>2. Pc!Start(k + 1) = Pc!SumTo(w, k) /\ Pc!Start(k) = Pc!SumTo(w, k - 1)
      BY <1>6, <2>1
    <2>3. /\ Pc!SumTo(w, k) = Pc!SumTo(w, k - 1) + w[k] /\ w[k] = HeaderSize + Body[k]
          /\ Pc!SumTo(w, k - 1) \in Nat
      BY <1>5, <1>7, <2>1
    <2> QED
      BY <1>1, <1>3, <2>2, <2>3
  <1>11. ASSUME NEW j \in 1 .. N + 1, NEW k \in 1 .. N + 1, j < k
         PROVE  Pc!Start(j) < Pc!Start(k)
    <2>1. j - 1 \in 0 .. Len(w) /\ k - 1 \in 0 .. Len(w) /\ j - 1 < k - 1
      BY <1>5, <1>11
    <2>2. Pc!SumTo(w, j - 1) < Pc!SumTo(w, k - 1)
      BY <1>5, <2>1, SumsGrow
    <2> QED
      BY <1>6, <2>2
  <1> QED
    BY <1>1, <1>2, <1>3, <1>8, <1>9, <1>10, <1>11

(***************************************************************************)
(* The bytes of a peer: those not yet taken from the stream are in the     *)
(* buffer, the socket and the network.                                     *)
(***************************************************************************)
Places == {"idle", "advance", "ready", "next", "closed"}
Handling == [from : Nat, to : Nat]

\* The part of the stream taken so far ends in message j, or before it.
InMessage(j) ==
    /\ ~m5 => m4 = Pc!Start(j) /\ m7 = 0
    /\ m5 => j <= Len(Body) /\ m6 = Body[j] /\ m4 = (Pc!Start(j) + HeaderSize) + m7
    /\ ~m10 => Len(m12) = j - 1

\* Buffers hold what fits, no byte of the stream is lost before the shutdown, and
\* the message under way is the one after those handled.
PeerInv ==
    /\ m1 \in Nat /\ m2 \in 0 .. BufSize /\ m3 \in 0 .. BufSize /\ m4 \in Nat
    /\ m5 \in BOOLEAN /\ m6 \in Nat /\ m7 \in 0 .. m6
    /\ m8 \in Seq(Positive) /\ m9 \in 0 .. BufSize
    /\ m10 \in BOOLEAN /\ m11 \in BOOLEAN /\ m14 \in Places
    /\ ((m4 + m3) + m2) + m1 <= Pc!Total
    /\ m14 # "closed" /\ ~m11 => ((m4 + m3) + m2) + m1 = Pc!Total
    /\ m12 \in Seq(Handling) /\ Pc!HandledInOrder
    /\ m14 # "closed" => \E j \in 1 .. Len(Body) + 1 : InMessage(j)
    /\ m14 = "closed" => ~m5

\* No byte is sent or taken at first.
LEMMA PeerInit == Pc!Init => PeerInv
  <1> SUFFICES ASSUME Pc!Init PROVE PeerInv
    OBVIOUS
  <1>1. /\ m1 = Pc!Total /\ m2 = 0 /\ m3 = 0 /\ m4 = 0 /\ m5 = FALSE /\ m6 = 0 /\ m7 = 0
        /\ m8 = << >> /\ m9 = 0 /\ m10 = FALSE /\ m11 = FALSE /\ m12 = << >> /\ m14 = "idle"
    BY DEF Pc!Init
  <1>2. Pc!Total \in Nat /\ BufSize \in Nat /\ Pc!Start(1) = 0 /\ Len(Body) \in Nat
    BY Starts DEF Pc!Total
  <1>3. m8 \in Seq(Positive) /\ m12 \in Seq(Handling) /\ Len(m12) = 0
    BY <1>1
  <1>4. Pc!HandledInOrder
    BY <1>3 DEF Pc!HandledInOrder
  <1>5. 1 \in 1 .. Len(Body) + 1 /\ InMessage(1)
    BY <1>1, <1>2, <1>3 DEF InMessage
  <1>6. \E j \in 1 .. Len(Body) + 1 : InMessage(j)
    BY <1>5
  <1>7. /\ m1 \in Nat /\ m2 \in 0 .. BufSize /\ m3 \in 0 .. BufSize /\ m4 \in Nat
        /\ m5 \in BOOLEAN /\ m6 \in Nat /\ m7 \in 0 .. m6 /\ m9 \in 0 .. BufSize
        /\ m10 \in BOOLEAN /\ m11 \in BOOLEAN
        /\ ((m4 + m3) + m2) + m1 = Pc!Total /\ ((m4 + m3) + m2) + m1 <= Pc!Total
    <2>1. PICK t \in Nat : t = Pc!Total
      BY <1>2
    <2>2. ((0 + 0) + 0) + t = t /\ t <= t
      OBVIOUS
    <2>3. ((m4 + m3) + m2) + m1 = Pc!Total /\ ((m4 + m3) + m2) + m1 <= Pc!Total
      BY <1>1, <2>1, <2>2
    <2>4. 0 \in 0 .. BufSize /\ 0 \in 0 .. 0
      BY <1>2
    <2> QED
      BY <1>1, <1>2, <2>3, <2>4
  <1>8. m14 \in Places /\ m14 # "closed"
    BY <1>1 DEF Places
  <1> QED
    BY <1>3, <1>4, <1>6, <1>7, <1>8 DEF PeerInv

\* What is read into a buffer that holds b bytes fits, and comes from the socket.
LEMMA FilledIs ==
  ASSUME NEW b \in 0 .. BufSize, NEW i \in 0 .. BufSize
  PROVE  /\ Pc!Filled(b, i, BufSize) \in b .. BufSize
         /\ Pc!Filled(b, i, BufSize) - b \in 0 .. i
  BY Starts DEF Pc!Filled, Pc!Lesser

\* What is read into a body is no more than it lacks, and all bytes are still there.
LEMMA BodyReadIs ==
  ASSUME NEW b \in 0 .. BufSize, NEW i \in 0 .. BufSize, NEW need \in Nat,
         NEW r, r = Pc!BodyRead(b, i, need, BufSize)
  PROVE  /\ r.body \in 0 .. need /\ r.buffer \in 0 .. BufSize /\ r.incoming \in 0 .. BufSize
         /\ (r.body + r.buffer) + r.incoming = b + i
  <1>1. BufSize \in Nat
    BY Starts
  <1>2. CASE need <= b
    <2>1. r = [body |-> need, buffer |-> b - need, incoming |-> i]
      BY <1>2 DEF Pc!BodyRead
    <2> QED
      BY <1>1, <1>2, <2>1
  <1>3. CASE ~(need <= b)
    <2>1. PICK b2 : b2 = Pc!Filled(0, i, BufSize)
      OBVIOUS
    <2>2. PICK n2 : n2 = Pc!Lesser(need - b, b2)
      OBVIOUS
    <2>3. r = [body |-> b + n2, buffer |-> b2 - n2, incoming |-> i - b2]
      BY <1>3, <2>1, <2>2 DEF Pc!BodyRead
    <2>4. b2 \in 0 .. i
      BY <1>1, <2>1 DEF Pc!Filled, Pc!Lesser
    <2>5. n2 \in 0 .. b2 /\ n2 <= need - b
      BY <1>1, <1>3, <2>2, <2>4 DEF Pc!Lesser
    <2> QED
      BY <1>1, <1>3, <2>3, <2>4, <2>5
  <1> QED
    BY <1>2, <1>3

\* What a write does.
LEMMA WriteKeeps ==
  ASSUME NEW rs \in Seq(Positive), NEW shutdown \in BOOLEAN, m9 \in 0 .. BufSize, m11 \in BOOLEAN,
         Pc!write(rs, shutdown)
  PROVE  m9' \in 0 .. BufSize /\ m8' \in Seq(Positive) /\ m11' \in BOOLEAN /\ (m11 => m11')
         /\ (m11' => m11 \/ shutdown)
  <1>1. PICK n : n = IF m11 THEN 0 ELSE Pc!Accepted(rs)
    OBVIOUS
  <1>2. /\ m9' = m9 + n /\ m8' = Pc!Left(rs, n)
        /\ m11' = (m11 \/ (m8' = << >> /\ shutdown))
    BY <1>1 DEF Pc!write
  <1>3. BufSize \in Nat
    BY Starts
  <1>4. Pc!Sum(rs) \in Nat
    <2>1. Len(rs) \in Nat /\ Len(rs) \in 0 .. Len(rs) /\ \A k \in 1 .. Len(rs) : rs[k] \in Nat
      BY DEF Positive
    <2>2. Pc!SumTo(rs, Len(rs)) \in Nat
      BY <2>1, Sums
    <2> QED
      BY <2>2 DEF Pc!Sum
  <1>5. n \in 0 .. BufSize - m9
    BY <1>1, <1>3, <1>4 DEF Pc!Accepted, Pc!Lesser
  <1>6. m9' \in 0 .. BufSize
    BY <1>2, <1>3, <1>5
  <1>7. m8' \in Seq(Positive)
    BY <1>2, <1>5, LeftPositive
  <1>8. m11' \in BOOLEAN /\ (m11 => m11') /\ (m11' => m11 \/ shutdown)
    BY <1>2
  <1> QED
    BY <1>6, <1>7, <1>8

\* What a step leaves that neither reads nor handles.
BytesStay ==
    /\ m1' = m1 /\ m2' = m2 /\ m3' = m3 /\ m4' = m4 /\ m5' = m5 /\ m6' = m6 /\ m7' = m7
    /\ m10' = m10 /\ m12' = m12 /\ m14' \in Places \ {"closed"} /\ m14 # "closed"

\* Such a step keeps the invariant if it keeps the queue and the socket's buffer.
LEMMA BytesStayKeep ==
  ASSUME PeerInv, BytesStay, m8' \in Seq(Positive), m9' \in 0 .. BufSize, m11' \in BOOLEAN, m11 => m11'
  PROVE  PeerInv'
  <1>1. \A j : InMessage(j)' <=> InMessage(j)
    BY DEF BytesStay, InMessage
  <1>2. Pc!HandledInOrder' <=> Pc!HandledInOrder
    BY DEF BytesStay, Pc!HandledInOrder
  <1> QED
    BY <1>1, <1>2 DEF PeerInv, BytesStay

\* Bytes read into `buffer' and `body' come out of the socket's.
LEMMA TakeKeeps ==
  ASSUME NEW b \in 0 .. BufSize, NEW i \in 0 .. BufSize, NEW have \in Nat, NEW length \in Nat,
         have <= length, NEW from \in Nat, Pc!take_body(b, i, have, length, from)
  PROVE  /\ m2' \in 0 .. BufSize /\ m3' \in 0 .. BufSize /\ m4' \in Nat /\ m7' \in have .. length
         /\ (m4' + m3') + m2' = (from + b) + i /\ m4' = (from - have) + m7'
  <1>1. PICK need : need = length - have
    OBVIOUS
  <1>2. PICK r : r = Pc!BodyRead(b, i, need, BufSize)
    OBVIOUS
  <1>3. m7' = have + r.body /\ m3' = r.buffer /\ m2' = r.incoming /\ m4' = from + r.body
    BY <1>1, <1>2 DEF Pc!take_body
  <1>4. need \in Nat
    BY <1>1
  <1>5. /\ r.body \in 0 .. need /\ r.buffer \in 0 .. BufSize /\ r.incoming \in 0 .. BufSize
        /\ (r.body + r.buffer) + r.incoming = b + i
    BY <1>2, <1>4, BodyReadIs, SMTT(60)
  <1>6. BufSize \in Nat
    BY Starts
  <1>7. PICK u \in Nat, v \in Nat, x \in Nat : u = r.body /\ v = r.buffer /\ x = r.incoming
    BY <1>4, <1>5, <1>6
  <1>8. u <= need /\ (u + v) + x = b + i
    BY <1>4, <1>5, <1>7
  <1>9. m2' \in 0 .. BufSize /\ m3' \in 0 .. BufSize
    BY <1>3, <1>5
  <1>10. m4' = from + u /\ m7' = have + u /\ m3' = v /\ m2' = x
    BY <1>3, <1>7
  <1>11. m4' \in Nat /\ m7' \in have .. length
    BY <1>1, <1>8, <1>10
  <1>12. ((from + u) + v) + x = (from + b) + i
    BY <1>6, <1>8
  <1>13. from + u = (from - have) + (have + u)
    OBVIOUS
  <1> QED
    BY <1>9, <1>10, <1>11, <1>12, <1>13

\* No more messages begin where a header can still be read.
LEMMA HeaderBegins ==
  ASSUME PeerInv, m14 # "closed", ~m5, NEW i \in 0 .. BufSize, i <= m2,
         Pc!Filled(m3, i, BufSize) >= HeaderSize
  PROVE  \E j \in 1 .. Len(Body) : InMessage(j)
  <1>1. PICK j \in 1 .. Len(Body) + 1 : InMessage(j)
    BY DEF PeerInv
  <1>2. j # Len(Body) + 1
    <2> SUFFICES ASSUME j = Len(Body) + 1 PROVE FALSE
      OBVIOUS
    <2>1. m4 = Pc!Total
      BY <1>1 DEF InMessage, Pc!Total
    <2>2. m1 \in Nat /\ m2 \in 0 .. BufSize /\ m3 \in 0 .. BufSize /\ m4 \in Nat /\ BufSize \in Nat
          /\ ((m4 + m3) + m2) + m1 <= Pc!Total /\ HeaderSize \in Nat \ {0}
      BY Starts DEF PeerInv
    <2>3. m3 = 0 /\ i = 0
      BY <2>1, <2>2
    <2>4. Pc!Filled(m3, i, BufSize) = 0
      BY <2>2, <2>3 DEF Pc!Filled, Pc!Lesser
    <2> QED
      BY <2>2, <2>4
  <1>3. j \in 1 .. Len(Body)
    BY <1>1, <1>2, Starts
  <1> QED
    BY <1>1, <1>3

\* A message begins at one place only.
LEMMA OneAtPlace ==
  ASSUME NEW j \in 1 .. Len(Body), NEW k \in Pc!MessageAt(Pc!Start(j))
  PROVE  k = j
  <1>1. k \in 1 .. Len(Body) /\ Pc!Start(k) = Pc!Start(j)
    BY DEF Pc!MessageAt
  <1>2. Len(Body) \in Nat /\ j \in 1 .. Len(Body) + 1 /\ k \in 1 .. Len(Body) + 1
    BY <1>1, Starts
  <1>3. Pc!Start(k) \in Nat /\ Pc!Start(j) \in Nat
    BY <1>2, Starts
  <1>4. ~(j < k) /\ ~(k < j)
    BY <1>1, <1>2, <1>3, Starts
  <1> QED
    BY <1>1, <1>2, <1>4

\* advance_state keeps the invariant.
LEMMA AdvanceKeeps ==
  ASSUME PeerInv, NEW after \in Places \ {"closed"}, NEW stop \in Places \ {"closed"},
         m14 # "closed", Pc!advance_state(after, stop)
  PROVE  PeerInv'
  <1>1. Pc!write(m8, m10) /\ m10' = m10 /\ m1' = m1 /\ m12' = m12 /\ m13' = m13
    BY DEF Pc!advance_state, Pc!net
  <1>2. /\ m1 \in Nat /\ m2 \in 0 .. BufSize /\ m3 \in 0 .. BufSize /\ m4 \in Nat
        /\ m5 \in BOOLEAN /\ m6 \in Nat /\ m7 \in 0 .. m6
        /\ m8 \in Seq(Positive) /\ m9 \in 0 .. BufSize /\ m10 \in BOOLEAN /\ m11 \in BOOLEAN
        /\ ((m4 + m3) + m2) + m1 <= Pc!Total
        /\ ~m11 => ((m4 + m3) + m2) + m1 = Pc!Total
    BY DEF PeerInv
  <1>3. m9' \in 0 .. BufSize /\ m8' \in Seq(Positive) /\ m11' \in BOOLEAN /\ (m11 => m11')
    BY <1>1, <1>2, WriteKeeps
  <1>4. PICK i : i = IF m11' THEN 0 ELSE m2
    OBVIOUS
  <1>5. BufSize \in Nat /\ HeaderSize \in Nat \ {0} /\ Pc!Total \in Nat /\ Len(Body) \in Nat
    BY Starts DEF Pc!Total
  <1>6. i \in 0 .. BufSize /\ i <= m2 /\ (~m11' => i = m2)
    BY <1>2, <1>4, <1>5
  <1>7. Pc!HandledInOrder' <=> Pc!HandledInOrder
    BY <1>1 DEF Pc!HandledInOrder
  \* what is left to show when bytes have been read
  <1>8. ASSUME /\ m2' \in 0 .. BufSize /\ m3' \in 0 .. BufSize /\ m4' \in Nat
               /\ m5' \in BOOLEAN /\ m6' \in Nat /\ m7' \in 0 .. m6'
               /\ (m4' + m3') + m2' = (m4 + m3) + i
               /\ m14' \in {after, stop}
               /\ \E j \in 1 .. Len(Body) + 1 : InMessage(j)'
        PROVE  PeerInv'
    <2>1. m14' \in Places /\ m14' # "closed"
      BY <1>8
    <2>2. PICK taken \in Nat : taken = m4 + m3
      BY <1>2, <1>5
    <2>3. ((m4' + m3') + m2') + m1' = (taken + i) + m1
      BY <1>1, <1>8, <2>2
    <2>4. /\ (taken + m2) + m1 <= Pc!Total
          /\ ~m11 => (taken + m2) + m1 = Pc!Total
      BY <1>2, <2>2
    <2>5. (taken + i) + m1 <= Pc!Total
      BY <1>2, <1>5, <1>6, <2>4
    <2>6. ~m11' => (taken + i) + m1 = Pc!Total
      BY <1>3, <1>6, <2>4
    <2> QED
      BY <1>1, <1>2, <1>3, <1>7, <1>8, <2>1, <2>3, <2>5, <2>6 DEF PeerInv
  <1>9. CASE Pc!Backed(m8')
    <2>1. m14' = stop /\ UNCHANGED <<m2, m3, m4, m5, m6, m7>>
      BY <1>9 DEF Pc!advance_state, Pc!reading
    <2>2. BytesStay
      BY <1>1, <2>1 DEF BytesStay
    <2> QED
      BY <1>3, <2>2, BytesStayKeep
  <1>10. CASE ~Pc!Backed(m8') /\ m5
    <2>1. /\ Pc!take_body(m3, i, m7, m6, m4) /\ m14' \in {after, stop} /\ m5' = m5 /\ m6' = m6
      BY <1>4, <1>10 DEF Pc!advance_state, Pc!reading
    <2>2. /\ m2' \in 0 .. BufSize /\ m3' \in 0 .. BufSize /\ m4' \in Nat /\ m7' \in m7 .. m6
          /\ (m4' + m3') + m2' = (m4 + m3) + i /\ m4' = (m4 - m7) + m7'
      BY <1>2, <1>6, <2>1, TakeKeeps
    <2>3. PICK j \in 1 .. Len(Body) + 1 : InMessage(j)
      BY DEF PeerInv
    <2>4. InMessage(j)'
      <3>1. /\ m4 = (Pc!Start(j) + HeaderSize) + m7 /\ j <= Len(Body) /\ m6 = Body[j]
            /\ Pc!Start(j) \in Nat
        BY <1>10, <2>3, Starts DEF InMessage
      <3>2. m4' = (Pc!Start(j) + HeaderSize) + m7'
        <4>1. PICK start \in Nat : start = Pc!Start(j) + HeaderSize
          BY <1>5, <3>1
        <4>2. m4 = start + m7 /\ m4' = (m4 - m7) + m7' /\ m7 \in Nat /\ m7' \in Nat
          BY <1>2, <2>2, <3>1, <4>1
        <4>3. m4' = start + m7'
          BY <4>2
        <4> QED
          BY <4>1, <4>3
      <3> QED
        BY <1>1, <1>10, <2>1, <2>3, <3>1, <3>2 DEF InMessage
    <2>5. m7' \in 0 .. m6' /\ m6' \in Nat
      BY <1>2, <2>1, <2>2
    <2>6. \E k \in 1 .. Len(Body) + 1 : InMessage(k)'
      BY <2>4
    <2> QED
      BY <1>2, <1>8, <1>10, <2>1, <2>2, <2>5, <2>6
  <1>11. CASE ~Pc!Backed(m8') /\ ~m5
    <2>1. PICK b : b = Pc!Filled(m3, i, BufSize)
      OBVIOUS
    <2>2. b \in m3 .. BufSize /\ b - m3 \in 0 .. i
      BY <1>2, <1>6, <2>1, FilledIs
    <2>3. CASE b < HeaderSize
      <3>1. m3' = b /\ m2' = i - (b - m3) /\ m14' = stop /\ UNCHANGED <<m4, m5, m6, m7>>
        BY <1>4, <1>11, <2>1, <2>3 DEF Pc!advance_state, Pc!reading
      <3>2. PICK j \in 1 .. Len(Body) + 1 : InMessage(j)
        BY DEF PeerInv
      <3>3. InMessage(j)'
        BY <1>1, <3>1, <3>2 DEF InMessage
      <3>4. m2' \in 0 .. BufSize /\ m3' \in 0 .. BufSize /\ (m4' + m3') + m2' = (m4 + m3) + i
        BY <1>2, <1>5, <1>6, <2>2, <3>1
      <3> QED
        BY <1>2, <1>8, <3>1, <3>2, <3>3, <3>4
    <2>4. CASE ~(b < HeaderSize)
      <3>1. /\ m6' \in Pc!LengthAt(m4) /\ m5' = TRUE /\ m14' \in {after, stop}
            /\ Pc!take_body(b - HeaderSize, i - (b - m3), 0, m6', m4 + HeaderSize)
        BY <1>4, <1>11, <2>1, <2>4 DEF Pc!advance_state, Pc!reading
      <3>2. PICK j \in 1 .. Len(Body) : InMessage(j)
        BY <1>5, <1>6, <1>11, <2>1, <2>2, <2>4, HeaderBegins
      <3>3. m4 = Pc!Start(j) /\ j \in 1 .. Len(Body) + 1 /\ Pc!Start(j) \in Nat /\ Body[j] \in Nat
        BY <1>5, <1>11, <3>2, Starts DEF InMessage
      <3>4. m6' = Body[j]
        <4>1. j \in Pc!MessageAt(m4)
          BY <3>3 DEF Pc!MessageAt
        <4>2. PICK k \in Pc!MessageAt(m4) : m6' = Body[k]
          BY <3>1, <4>1 DEF Pc!LengthAt
        <4> QED
          BY <3>3, <4>2, OneAtPlace
      <3>5. /\ b - HeaderSize \in 0 .. BufSize /\ i - (b - m3) \in 0 .. BufSize
            /\ 0 \in Nat /\ 0 <= m6' /\ m6' \in Nat /\ m4 + HeaderSize \in Nat
        <4>1. b \in Nat /\ b <= BufSize /\ HeaderSize \in Nat /\ HeaderSize <= b /\ BufSize \in Nat
          BY <1>2, <1>5, <2>2, <2>4
        <4>2. b - HeaderSize \in 0 .. BufSize
          BY <4>1
        <4>3. PICK d \in 0 .. i : d = b - m3
          BY <2>2
        <4>4. i - (b - m3) \in 0 .. BufSize
          BY <1>5, <1>6, <4>3
        <4>5. 0 \in Nat /\ 0 <= m6' /\ m6' \in Nat
          BY <3>3, <3>4
        <4>6. m4 + HeaderSize \in Nat
          BY <1>2, <4>1
        <4> QED
          BY <4>2, <4>4, <4>5, <4>6
      <3>6. /\ m2' \in 0 .. BufSize /\ m3' \in 0 .. BufSize /\ m4' \in Nat /\ m7' \in 0 .. m6'
            /\ (m4' + m3') + m2' = ((m4 + HeaderSize) + (b - HeaderSize)) + (i - (b - m3))
            /\ m4' = ((m4 + HeaderSize) - 0) + m7'
        BY <3>1, <3>5, TakeKeeps
      <3>7. (m4' + m3') + m2' = (m4 + m3) + i /\ m4' = (m4 + HeaderSize) + m7'
        <4>1. ((m4 + HeaderSize) + (b - HeaderSize)) + (i - (b - m3)) = (m4 + m3) + i
          <5>1. PICK d \in Nat, g \in Nat, p \in Nat, h \in Nat, x \in Nat :
                   d = m3 /\ g = b /\ p = m4 /\ h = HeaderSize /\ x = i
            BY <1>2, <1>5, <1>6, <2>2
          <5>2. ((p + h) + (g - h)) + (x - (g - d)) = (p + d) + x
            OBVIOUS
          <5> QED
            BY <5>1, <5>2
        <4>2. (m4 + HeaderSize) - 0 = m4 + HeaderSize
          BY <3>5
        <4> QED
          BY <3>6, <4>1, <4>2
      <3>8. InMessage(j)'
        BY <1>1, <3>1, <3>2, <3>3, <3>4, <3>7 DEF InMessage
      <3> QED
        BY <1>8, <3>1, <3>3, <3>5, <3>6, <3>7, <3>8
    <2> QED
      BY <2>3, <2>4
  <1> QED
    BY <1>9, <1>10, <1>11

\* A disconnect keeps the invariant, with nothing under way.
LEMMA DisconnectKeeps ==
  ASSUME PeerInv, Pc!disconnect
  PROVE  PeerInv'
  <1>1. /\ m3' = 0 /\ m5' = FALSE /\ m7' = 0 /\ m8' = << >> /\ m2' = 0 /\ m9' = 0
        /\ m14' = "closed" /\ m4' = m4 /\ m6' = m6 /\ m10' = m10 /\ m11' = m11
        /\ m1' = m1 /\ m12' = m12
    BY DEF Pc!disconnect, Pc!net
  <1>2. BufSize \in Nat
    BY Starts
  <1>3. ((m4' + m3') + m2') + m1' <= Pc!Total
    <2>1. /\ m4 \in Nat /\ m3 \in Nat /\ m2 \in Nat /\ m1 \in Nat
          /\ ((m4 + m3) + m2) + m1 <= Pc!Total
      BY <1>2 DEF PeerInv
    <2>2. Pc!Total \in Nat
      BY Starts DEF Pc!Total
    <2>3. ((m4 + 0) + 0) + m1 <= Pc!Total
      BY <2>1, <2>2
    <2> QED
      BY <1>1, <2>3
  <1>4. m8' \in Seq(Positive)
    BY <1>1
  <1>5. Pc!HandledInOrder' <=> Pc!HandledInOrder
    BY <1>1 DEF Pc!HandledInOrder
  <1>6. 0 \in 0 .. BufSize /\ (m6 \in Nat => 0 \in 0 .. m6) /\ "closed" \in Places
    BY <1>2 DEF Places
  <1> QED
    BY <1>1, <1>3, <1>4, <1>5, <1>6 DEF PeerInv

\* The end of a message: the next one begins here.
LEMMA MessageEnds ==
  ASSUME PeerInv, m14 # "closed", m5, m7 = m6, NEW j \in 1 .. Len(Body) + 1, InMessage(j)
  PROVE  /\ j \in 1 .. Len(Body) /\ j + 1 \in 1 .. Len(Body) + 1
         /\ m4 = Pc!Start(j + 1) /\ (m4 - m7) - HeaderSize = Pc!Start(j)
         /\ Pc!Start(j) \in Nat /\ m4 \in Nat
  <1>1. j <= Len(Body) /\ m6 = Body[j] /\ m4 = (Pc!Start(j) + HeaderSize) + m7
    BY DEF InMessage
  <1>2. j \in 1 .. Len(Body) /\ j + 1 \in 1 .. Len(Body) + 1
    BY <1>1, Starts
  <1>3. /\ Pc!Start(j) \in Nat /\ HeaderSize \in Nat /\ Body[j] \in Nat
        /\ Pc!Start(j + 1) = Pc!Start(j) + HeaderSize + Body[j]
    BY <1>2, Starts
  <1>4. m4 = Pc!Start(j + 1)
    BY <1>1, <1>3
  <1>5. (m4 - m7) - HeaderSize = Pc!Start(j)
    <2>1. PICK s \in Nat : s = Pc!Start(j)
      BY <1>3
    <2>2. PICK b \in Nat : b = m7
      BY <1>1, <1>3
    <2>3. (((s + HeaderSize) + b) - b) - HeaderSize = s
      BY <1>3
    <2> QED
      BY <1>1, <2>1, <2>2, <2>3
  <1> QED
    BY <1>2, <1>3, <1>4, <1>5 DEF PeerInv

\* A message more, handled in order.
LEMMA HandledOneMore ==
  ASSUME m12 \in Seq(Handling), Pc!HandledInOrder, NEW j \in 1 .. Len(Body), Len(m12) = j - 1,
         m12' = Append(m12, [from |-> Pc!Start(j), to |-> Pc!Start(j + 1)])
  PROVE  m12' \in Seq(Handling) /\ Len(m12') = j /\ Pc!HandledInOrder'
  <1>1. PICK h : h = [from |-> Pc!Start(j), to |-> Pc!Start(j + 1)]
    OBVIOUS
  <1>2. j \in 1 .. Len(Body) + 1 /\ j + 1 \in 1 .. Len(Body) + 1 /\ j \in Nat
    BY Starts
  <1>3. h \in Handling
    BY <1>1, <1>2, Starts DEF Handling
  <1>4. m12' \in Seq(Handling) /\ Len(m12') = j
    BY <1>1, <1>2, <1>3
  <1>5. ASSUME NEW k \in 1 .. j
        PROVE  m12'[k] = [from |-> Pc!Start(k), to |-> Pc!Start(k + 1)]
    <2>1. CASE k = j
      BY <1>1, <1>2, <2>1
    <2>2. CASE k # j
      <3>1. k \in 1 .. Len(m12)
        BY <1>2, <2>2
      <3>2. m12'[k] = m12[k]
        BY <3>1
      <3> QED
        BY <3>1, <3>2 DEF Pc!HandledInOrder
    <2> QED
      BY <2>1, <2>2
  <1> QED
    BY <1>4, <1>5 DEF Pc!HandledInOrder

\* read_next_request keeps the invariant.
LEMMA NextKeeps ==
  ASSUME PeerInv, Pc!read_next_request
  PROVE  PeerInv'
  <1>1. m14 = "next" /\ m14 # "closed"
    BY DEF Pc!read_next_request
  <1>2. CASE ~Pc!Complete
    <2>1. /\ m14' = "idle" /\ UNCHANGED <<m1, m2, m3, m4, m5, m6, m7, m8, m9, m10, m11, m12>>
      BY <1>2 DEF Pc!read_next_request, Pc!reading, Pc!writing, Pc!net
    <2>2. BytesStay
      BY <1>1, <2>1 DEF BytesStay, Places
    <2>3. m8 \in Seq(Positive) /\ m9 \in 0 .. BufSize /\ m11 \in BOOLEAN
      BY DEF PeerInv
    <2> QED
      BY <2>1, <2>2, <2>3, BytesStayKeep
  <1>3. CASE Pc!Complete
    <2>1. /\ m5' = FALSE /\ m7' = 0 /\ m6' = 0 /\ m2' = m2 /\ m3' = m3 /\ m4' = m4 /\ m1' = m1
          /\ m10' = m10
      BY <1>3 DEF Pc!read_next_request
    <2>2. PICK k \in Pc!MessageAt((m4 - m7) - HeaderSize) : Pc!handle(k)
      BY <1>3 DEF Pc!read_next_request
    <2>3. m5 /\ m7 = m6
      BY <1>3 DEF Pc!Complete
    <2>4. PICK j \in 1 .. Len(Body) + 1 : InMessage(j)
      BY <1>1 DEF PeerInv
    <2>5. /\ j \in 1 .. Len(Body) /\ j + 1 \in 1 .. Len(Body) + 1
          /\ m4 = Pc!Start(j + 1) /\ (m4 - m7) - HeaderSize = Pc!Start(j)
      BY <1>1, <2>3, <2>4, MessageEnds
    <2>6. k = j
      BY <2>2, <2>5, OneAtPlace
    <2>7. m8 \in Seq(Positive) /\ m9 \in 0 .. BufSize /\ m10 \in BOOLEAN /\ m11 \in BOOLEAN
      BY DEF PeerInv
    <2>8. m14' \in Places /\ m14' # "closed"
      BY <2>2 DEF Pc!handle, Places
    <2>9. /\ m8' \in Seq(Positive) /\ m9' \in 0 .. BufSize /\ m11' \in BOOLEAN /\ (m11 => m11')
      <3>1. CASE m8' = m8 /\ m9' = m9 /\ m11' = m11
        BY <2>7, <3>1
      <3>2. CASE Answer[k] > 0 /\ Pc!write(Append(m8, Answer[k]), FALSE)
        <4>1. Answer[k] \in Positive
          <5>1. Answer \in Seq(Nat) /\ Len(Body) = Len(Answer)
            BY NetAssumption DEF Pc!ClientAssumption
          <5>2. Answer[k] \in Nat
            BY <2>5, <2>6, <5>1
          <5> QED
            BY <3>2, <5>2 DEF Positive
        <4>2. Append(m8, Answer[k]) \in Seq(Positive) /\ FALSE \in BOOLEAN
          BY <2>7, <4>1
        <4> QED
          BY <2>7, <3>2, <4>2, WriteKeeps
      <3> QED
        BY <2>2, <3>1, <3>2 DEF Pc!handle, Pc!writing
    <2>10. m12' \in Seq(Handling) /\ Pc!HandledInOrder' /\ (~m10 => Len(m12') = j)
      <3>1. CASE m10
        <4>1. m12' = m12
          BY <2>2, <3>1 DEF Pc!handle
        <4> QED
          BY <3>1, <4>1 DEF PeerInv, Pc!HandledInOrder
      <3>2. CASE ~m10
        <4>1. m12' = Append(m12, [from |-> (m4 - m7) - HeaderSize, to |-> m4])
          BY <2>2, <3>2 DEF Pc!handle
        <4>2. m12' = Append(m12, [from |-> Pc!Start(j), to |-> Pc!Start(j + 1)])
          BY <2>5, <4>1
        <4>3. Len(m12) = j - 1 /\ m12 \in Seq(Handling) /\ Pc!HandledInOrder
          BY <2>4, <3>2 DEF InMessage, PeerInv
        <4> QED
          BY <2>5, <4>2, <4>3, HandledOneMore
      <3> QED
        BY <3>1, <3>2
    <2>11. InMessage(j + 1)'
      <3>1. PICK l : l = j + 1
        OBVIOUS
      <3>2. l - 1 = j /\ l \in Nat
        BY <2>5, <3>1
      <3>3. ~m5' /\ m4' = Pc!Start(l) /\ m7' = 0
        BY <2>1, <2>5, <3>1
      <3>4. ~m10' => Len(m12') = l - 1
        BY <2>1, <2>10, <3>2
      <3>5. InMessage(l)'
        BY <3>3, <3>4 DEF InMessage
      <3> QED
        BY <3>1, <3>5
    <2>12. \E i \in 1 .. Len(Body) + 1 : InMessage(i)'
      BY <2>5, <2>11
    <2>13. /\ m1 \in Nat /\ m2 \in 0 .. BufSize /\ m3 \in 0 .. BufSize /\ m4 \in Nat
           /\ ((m4 + m3) + m2) + m1 <= Pc!Total
           /\ ~m11 => ((m4 + m3) + m2) + m1 = Pc!Total
      BY <1>1 DEF PeerInv
    <2>14. FALSE \in BOOLEAN /\ 0 \in Nat /\ 0 \in 0 .. 0
      OBVIOUS
    <2>15. /\ m1' \in Nat /\ m2' \in 0 .. BufSize /\ m3' \in 0 .. BufSize /\ m4' \in Nat
           /\ m5' \in BOOLEAN /\ m6' \in Nat /\ m7' \in 0 .. m6' /\ m10' \in BOOLEAN
           /\ ((m4' + m3') + m2') + m1' <= Pc!Total
      BY <2>1, <2>7, <2>13, <2>14
    <2>16. ~m11' => ((m4' + m3') + m2') + m1' = Pc!Total
      BY <2>1, <2>7, <2>9, <2>13
    <2>17. m14' = "closed" => ~m5'
      BY <2>1
    <2> QED
      BY <2>8, <2>9, <2>10, <2>12, <2>15, <2>16, <2>17 DEF PeerInv
  <1> QED
    BY <1>2, <1>3

\* Bytes that arrive are still to be taken.
LEMMA ReadsKeeps ==
  ASSUME PeerInv, NEW n \in Nat, Pc!SocketReads(n)
  PROVE  PeerInv'
  <1>1. /\ m14 = "idle" /\ m14' = "advance" /\ n \in 1 .. Pc!Lesser(m1, BufSize - m2)
        /\ m1' = m1 - n /\ m2' = IF m11 THEN 0 ELSE m2 + n
        /\ UNCHANGED <<m3, m4, m5, m6, m7, m8, m9, m10, m11, m12>>
    BY DEF Pc!SocketReads, Pc!writing
  <1>2. /\ m1 \in Nat /\ m2 \in 0 .. BufSize /\ m3 \in Nat /\ m4 \in Nat /\ m11 \in BOOLEAN
        /\ BufSize \in Nat /\ Pc!Total \in Nat
        /\ ((m4 + m3) + m2) + m1 <= Pc!Total
        /\ ~m11 => ((m4 + m3) + m2) + m1 = Pc!Total
    BY <1>1, Starts DEF PeerInv, Pc!Total
  <1>3. n <= m1 /\ n <= BufSize - m2 /\ n \in Nat
    BY <1>1, <1>2 DEF Pc!Lesser
  <1>4. m1 - n \in Nat /\ m2 + n \in 0 .. BufSize /\ 0 \in 0 .. BufSize
    BY <1>2, <1>3
  <1>5. PICK a \in Nat : a = m4 + m3
    BY <1>2
  <1>6. m1' \in Nat /\ m2' \in 0 .. BufSize
    BY <1>1, <1>4
  <1>7. /\ (a + m2') + m1' <= Pc!Total
        /\ ~m11 => (a + m2') + m1' = Pc!Total
    <2>1. /\ (a + m2) + m1 <= Pc!Total
          /\ ~m11 => (a + m2) + m1 = Pc!Total
      BY <1>2, <1>5
    <2>2. CASE m11
      <3>1. m2' = 0 /\ m1' = m1 - n
        BY <1>1, <2>2
      <3>2. (a + 0) + (m1 - n) <= Pc!Total
          <4>1. PICK t \in Nat, h \in Nat, s \in Nat : t = Pc!Total /\ h = m2 /\ s = m1
            BY <1>2
          <4>2. (a + h) + s <= t
            BY <2>1, <4>1
          <4>3. n <= s
            BY <1>3, <4>1
          <4>4. (a + 0) + (s - n) <= t
            BY <4>2, <4>3
          <4> QED
            BY <4>1, <4>4
      <3> QED
        BY <2>2, <3>1, <3>2
    <2>3. CASE ~m11
      <3>1. m2' = m2 + n /\ m1' = m1 - n
        BY <1>1, <2>3
      <3>2. (a + (m2 + n)) + (m1 - n) = (a + m2) + m1
          <4>1. PICK h \in Nat, s \in Nat : h = m2 /\ s = m1
            BY <1>2
          <4>2. (a + (h + n)) + (s - n) = (a + h) + s
            BY <1>3, <4>1
          <4> QED
            BY <4>1, <4>2
      <3>3. (a + m2') + m1' = (a + m2) + m1
        BY <3>1, <3>2
      <3>4. (a + m2') + m1' = Pc!Total
        BY <2>1, <2>3, <3>3
      <3>5. Pc!Total <= Pc!Total
        BY <1>2
      <3> QED
        BY <3>4, <3>5
    <2> QED
      BY <2>2, <2>3
  <1>8. /\ ((m4' + m3') + m2') + m1' <= Pc!Total
        /\ ~m11' => ((m4' + m3') + m2') + m1' = Pc!Total
    BY <1>1, <1>5, <1>7
  <1>9. \A j : InMessage(j)' <=> InMessage(j)
    BY <1>1 DEF InMessage
  <1>10. Pc!HandledInOrder' <=> Pc!HandledInOrder
    BY <1>1 DEF Pc!HandledInOrder
  <1>11. m14' \in Places /\ m14' # "closed" /\ m14 # "closed"
    BY <1>1 DEF Places
  <1> QED
    BY <1>1, <1>6, <1>8, <1>9, <1>10, <1>11 DEF PeerInv

\* The invariant of the peer's bytes holds after every step.
LEMMA PeerNext ==
  ASSUME PeerInv, [Pc!Next]_ms
  PROVE  PeerInv'
  <1>0. m8 \in Seq(Positive) /\ m9 \in 0 .. BufSize /\ m10 \in BOOLEAN /\ m11 \in BOOLEAN
    BY DEF PeerInv
  <1>1. CASE UNCHANGED ms
    BY <1>1 DEF ms, PeerInv, InMessage, Pc!HandledInOrder
  <1>2. ASSUME Pc!advance_refused
        PROVE  PeerInv'
    BY <1>2, DisconnectKeeps DEF Pc!advance_refused
  <1>3. CASE Pc!Advance
    <2>1. m14 = "advance"
      BY <1>3 DEF Pc!Advance
    <2>2. CASE Pc!advance_state("ready", "idle")
      <3>1. "ready" \in Places \ {"closed"} /\ "idle" \in Places \ {"closed"} /\ m14 # "closed"
        BY <2>1 DEF Places
      <3> QED
        BY <2>2, <3>1, AdvanceKeeps
    <2> QED
      BY <1>2, <1>3, <2>2 DEF Pc!Advance
  <1>4. CASE Pc!NextRequest
    <2>1. m14 = "ready"
      BY <1>4 DEF Pc!NextRequest
    <2>2. CASE Pc!advance_state("next", "next")
      <3>1. "next" \in Places \ {"closed"} /\ m14 # "closed"
        BY <2>1 DEF Places
      <3> QED
        BY <2>2, <3>1, AdvanceKeeps
    <2> QED
      BY <1>2, <1>4, <2>2 DEF Pc!NextRequest
  <1>5. CASE Pc!read_next_request
    BY <1>5, NextKeeps
  <1>6. CASE Pc!Reads
    <2>1. PICK n \in 1 .. BufSize : Pc!SocketReads(n)
      BY <1>6 DEF Pc!Reads
    <2>2. n \in Nat
      BY Starts
    <2> QED
      BY <2>1, <2>2, ReadsKeeps
  <1>7. CASE Pc!Writes
    <2>1. PICK n \in 1 .. BufSize : Pc!SocketWrites(n)
      BY <1>7 DEF Pc!Writes
    <2>2. /\ m14 = "idle" /\ n \in 1 .. m9 /\ m9' = m9 - n /\ m14' = "advance"
          /\ UNCHANGED <<m1, m2, m3, m4, m5, m6, m7, m8, m10, m11, m12>>
      BY <2>1 DEF Pc!SocketWrites, Pc!reading, Pc!net
    <2>3. BytesStay
      BY <2>2 DEF BytesStay, Places
    <2>4. m9' \in 0 .. BufSize
      BY <1>0, <2>2, Starts
    <2>5. m8' \in Seq(Positive) /\ m11' \in BOOLEAN /\ (m11 => m11')
      BY <1>0, <2>2
    <2> QED
      BY <2>3, <2>4, <2>5, BytesStayKeep
  <1>8. CASE Pc!Broadcast
    <2>1. /\ m14 = "idle" /\ m14' = m14 /\ Pc!write(Append(m8, 1), FALSE)
          /\ UNCHANGED <<m1, m2, m3, m4, m5, m6, m7, m10, m12>>
      BY <1>8 DEF Pc!Broadcast, Pc!reading
    <2>2. BytesStay
      BY <2>1 DEF BytesStay, Places
    <2>3. Append(m8, 1) \in Seq(Positive) /\ FALSE \in BOOLEAN
      BY <1>0 DEF Positive
    <2>4. m9' \in 0 .. BufSize /\ m8' \in Seq(Positive) /\ m11' \in BOOLEAN /\ (m11 => m11')
      BY <1>0, <2>1, <2>3, WriteKeeps
    <2> QED
      BY <2>2, <2>4, BytesStayKeep
  <1>9. CASE Pc!send_shutdown
    <2>1. /\ m14 = "idle" /\ m14' = m14 /\ m10' = TRUE /\ Pc!write(m8, TRUE)
          /\ UNCHANGED <<m1, m2, m3, m4, m5, m6, m7, m12>>
      BY <1>9 DEF Pc!send_shutdown, Pc!reading, Pc!net
    <2>2. m9' \in 0 .. BufSize /\ m8' \in Seq(Positive) /\ m11' \in BOOLEAN /\ (m11 => m11')
      <3>1. TRUE \in BOOLEAN
        OBVIOUS
      <3> QED
        BY <1>0, <2>1, <3>1, WriteKeeps
    <2>3. PICK j \in 1 .. Len(Body) + 1 : InMessage(j)
      BY <2>1 DEF PeerInv
    <2>4. InMessage(j)'
      BY <2>1, <2>3 DEF InMessage
    <2>5. \E i \in 1 .. Len(Body) + 1 : InMessage(i)'
      BY <2>4
    <2>6. Pc!HandledInOrder'
      BY <2>1 DEF Pc!HandledInOrder, PeerInv
    <2> QED
      BY <2>1, <2>2, <2>5, <2>6 DEF PeerInv
  <1>10. CASE Pc!SocketEnds
    BY <1>10, DisconnectKeeps DEF Pc!SocketEnds
  <1>11. CASE Pc!Over
    BY <1>1, <1>11 DEF Pc!Over, Pc!vars, PeerInv, InMessage, Pc!HandledInOrder
  <1> QED
    BY <1>1, <1>3, <1>4, <1>5, <1>6, <1>7, <1>8, <1>9, <1>10, <1>11 DEF Pc!Next, Pc!Runs

\* With it headers are looked for where messages begin, and messages are handled
\* whole, in order, once each.
LEMMA PeerSound == PeerInv => Pc!TypeOK /\ Pc!InStep /\ Pc!HandledInOrder
  <1> SUFFICES ASSUME PeerInv PROVE Pc!TypeOK /\ Pc!InStep /\ Pc!HandledInOrder
    OBVIOUS
  <1>1. /\ m1 \in Nat /\ m2 \in 0 .. BufSize /\ m3 \in 0 .. BufSize /\ m4 \in Nat
        /\ m7 \in 0 .. m6 /\ m8 \in Seq(Positive) /\ m9 \in 0 .. BufSize
        /\ ((m4 + m3) + m2) + m1 <= Pc!Total
        /\ BufSize \in Nat /\ Pc!Total \in Nat /\ HeaderSize \in Nat /\ Len(Body) \in Nat
    BY Starts DEF PeerInv, Pc!Total
  <1>2. Pc!TypeOK
    <2>1. m4 \in 0 .. Pc!Total
      BY <1>1
    <2>2. \A k \in 1 .. Len(m8) : m8[k] > 0
      <3> SUFFICES ASSUME NEW k \in 1 .. Len(m8) PROVE m8[k] > 0
        OBVIOUS
      <3>1. m8[k] \in Nat \ {0}
        BY <1>1 DEF Positive
      <3> QED
        BY <3>1
    <2> QED
      BY <1>1, <2>1, <2>2 DEF Pc!TypeOK
  <1>3. ASSUME m14 # "closed", ~m5
        PROVE  Pc!MessageAt(m4) # {} \/ m4 = Pc!Total
    <2>1. PICK j \in 1 .. Len(Body) + 1 : InMessage(j)
      BY <1>3 DEF PeerInv
    <2>2. m4 = Pc!Start(j)
      BY <1>3, <2>1 DEF InMessage
    <2>3. CASE j = Len(Body) + 1
      BY <2>2, <2>3 DEF Pc!Total
    <2>4. CASE j \in 1 .. Len(Body)
      BY <2>2, <2>4 DEF Pc!MessageAt
    <2> QED
      BY <1>1, <2>3, <2>4
  <1>4. ASSUME m5
        PROVE  Pc!MessageAt((m4 - m7) - HeaderSize) # {}
    <2>1. m14 # "closed"
      BY <1>4 DEF PeerInv
    <2>2. PICK j \in 1 .. Len(Body) + 1 : InMessage(j)
      BY <2>1 DEF PeerInv
    <2>3. j <= Len(Body) /\ m4 = (Pc!Start(j) + HeaderSize) + m7 /\ Pc!Start(j) \in Nat
      BY <1>4, <2>2, Starts DEF InMessage
    <2>4. PICK s \in Nat, h \in Nat, b \in Nat : s = Pc!Start(j) /\ h = HeaderSize /\ b = m7
      <3>1. m6 \in Nat
        BY DEF PeerInv
      <3>2. m7 \in Nat
        BY <1>1, <3>1
      <3> QED
        BY <1>1, <2>3, <3>2
    <2>5. (((s + h) + b) - b) - h = s
      OBVIOUS
    <2>6. (m4 - m7) - HeaderSize = Pc!Start(j)
      BY <2>3, <2>4, <2>5
    <2>7. j \in 1 .. Len(Body)
      BY <1>1, <2>3
    <2> QED
      BY <2>6, <2>7 DEF Pc!MessageAt
  <1>5. m14 # "closed" /\ ~m11 => ((m4 + m3) + m2) + m1 = Pc!Total
    BY DEF PeerInv
  <1>6. Pc!InStep
    BY <1>3, <1>4, <1>5 DEF Pc!InStep
  <1> QED
    BY <1>2, <1>6 DEF PeerInv

(***************************************************************************)
(* The messages of each part in a behaviour of the run                     *)
(***************************************************************************)
\* The state in which a behaviour about a message part begins
LEMMA InitOfMessages ==
  NetInit => /\ part = "server" => Hs!Init
             /\ part = "agent" => Ha!Init
             /\ part = "peer" => Pc!Init
  <1>1. NetInit /\ part = "agent" => Ha!Init
    BY Zenon DEF NetInit
  <1>2. NetInit /\ part = "peer" => Pc!Init
    <2>1. part = "peer" => part # "agent"
      OBVIOUS
    <2> QED
      BY <2>1, Zenon DEF NetInit
  <1>3. NetInit /\ part = "server" => Hs!Init
    <2>1. part = "server" => part # "agent" /\ part # "peer"
      OBVIOUS
    <2> QED
      BY <2>1, Zenon DEF NetInit
  <1> QED
    BY <1>1, <1>2, <1>3

\* In a behaviour about the agent the steps are those of the agent,
LEMMA AgentMoves == [NetNext]_net => (part = "agent" => [Ha!Next]_ms)
  <1>1. UNCHANGED net => UNCHANGED ms
    BY DEF net
  <1>2. ASSUME NetNext, part = "agent"
        PROVE  Ha!Next
    <2>1. /\ part # "buffer" /\ part # "stream" /\ part # "socket" /\ part # "acceptor"
          /\ part # "timer" /\ part # "server" /\ part # "peer"
      BY <1>2
    <2> QED
      BY <1>2, <2>1, Zenon DEF NetNext, In
  <1> QED
    BY <1>1, <1>2

\* and in one about a peer those of the peer.
LEMMA PeerMoves == [NetNext]_net => (part = "peer" => [Pc!Next]_ms)
  <1>1. UNCHANGED net => UNCHANGED ms
    BY DEF net
  <1>2. ASSUME NetNext, part = "peer"
        PROVE  Pc!Next
    <2>1. /\ part # "buffer" /\ part # "stream" /\ part # "socket" /\ part # "acceptor"
          /\ part # "timer" /\ part # "server" /\ part # "agent"
      BY <1>2
    <2> QED
      BY <1>2, <2>1, Zenon DEF NetNext, In
  <1> QED
    BY <1>1, <1>2

MessagesInv ==
    /\ part = "server" => ServerInv
    /\ part = "agent" => AgentInv
    /\ part = "peer" => QueueInv /\ PeerInv

\* The invariants of the server, the agent and the peer hold in every behaviour.
LEMMA MessagesAlwaysSound == NetSpec => []MessagesInv
  <1>1. NetInit => MessagesInv
    BY InitOfMessages, ServerInit, AgentInit, QueueInit, PeerInit DEF MessagesInv
  <1>2. MessagesInv /\ [NetNext]_net => MessagesInv'
    <2> SUFFICES ASSUME MessagesInv, [NetNext]_net
                 PROVE  MessagesInv'
      OBVIOUS
    <2>1. part' = part
      BY ServerMoves
    <2>2. part = "server" => ServerInv'
      BY ServerMoves, ServerNext DEF MessagesInv
    <2>3. part = "agent" => AgentInv'
      BY AgentMoves, AgentNext DEF MessagesInv
    <2>4. part = "peer" => QueueInv' /\ PeerInv'
      BY PeerMoves, QueueNext, PeerNext DEF MessagesInv
    <2> QED
      BY <2>1, <2>2, <2>3, <2>4 DEF MessagesInv
  <1> QED
    BY <1>1, <1>2, PTL DEF NetSpec

\* Whatever the requests and messages and however their bytes are cut: the server
\* gives a request to the node only after the answer to the one before, writes one
\* answer to each, and expects every write; the owner of a request of the agent is
\* told at most once, the answer to this request, a timeout or the cancellation,
\* and always has something to wait for, through lost connections, retries and
\* cancellations; and a peer's stream stays in step: no byte of it is lost, its
\* messages are handled whole, in order and once each, and the queue of answers
\* is no longer than two and the messages the node sends by itself
\* (http/Server.cpp, http/Agent.cpp, P2PClient in p2p/P2P.cpp).
THEOREM MessagesAlwaysInOrder == NetSpec => []MessagesInOrder
  <1>1. MessagesInv => ServerInOrder /\ AgentInOrder
    BY ServerSound, AgentSound DEF MessagesInv, ServerInOrder, AgentInOrder
  <1>2. MessagesInv => PeerInOrder
    BY PeerSound DEF MessagesInv, PeerInOrder, QueueInv, Pc!QueueBounded
  <1>3. MessagesInv => MessagesInOrder
    BY <1>1, <1>2 DEF MessagesInOrder
  <1> QED
    BY <1>3, MessagesAlwaysSound, PTL
=============================================================================
