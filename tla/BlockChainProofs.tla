--------------------------- MODULE BlockChainProofs ---------------------------
(***************************************************************************)
(* Proofs about BlockChain for every block tree, every arrival order and   *)
(* every window and commit period.  IndInv is the inductive invariant; the *)
(* safety properties of BlockChain follow from it.                         *)
(***************************************************************************)
EXTENDS BlockChain, SequenceTheorems, FiniteSetTheorems, TLAPS

USE DEF fixed

\* What a database state satisfies at every step, in memory and on disk.
DbOK(d) ==
  /\ d.blocks = d.headers
  /\ \A b \in d.headers \ {Genesis} : Parent[b] \in d.headers
  /\ \A b \in Block \ d.headers : d.children[b] = 1 /\ b \notin d.tips
  /\ d.chain = <<>> => d.headers = {}
  /\ ChainStored(d)
  /\ \A i \in 1..Len(d.chain) : Height[d.chain[i]] = i - 1
  /\ \A i \in 1..Len(d.chain) : d.chain[i] \notin invalid

\* What holds of the database between handlers.
Heavy(d) ==
  d.headers \cap invalid = {} /\ d.chain # <<>> =>
    \A b \in d.headers : CumDiff[b] <= CumDiff[LastOf(d.chain)]

InReorg == pc \in {"common", "undo", "redo"}

\* chain2 is the path from the new block down to (and without) hid2, while
\* hid1 goes down the best chain.
WalkOK ==
  InReorg =>
    LET r == reorg.recent
        h1 == reorg.hid1
        h2 == reorg.hid2
        c2 == reorg.chain2
    IN  /\ r \in db.headers
        /\ CumDiff[r] > CumDiff[entry]
        /\ \A i \in 1..Len(c2) : c2[i] \in db.headers \ {Genesis}
        /\ \A i \in 2..Len(c2) : Parent[c2[i-1]] = c2[i]
        /\ Len(c2) > 0 => c2[1] = r
        /\ db.headers \cap invalid = {} =>
             \A b \in db.headers : CumDiff[b] <= CumDiff[r]
        /\ pc # "redo" =>
             /\ h1 \in db.headers /\ h2 \in db.headers
             /\ Height[h1] < Len(db.chain)
             /\ db.chain[Height[h1] + 1] = h1
             /\ Len(c2) = 0 => h2 = r
             /\ Len(c2) > 0 => Parent[c2[Len(c2)]] = h2
             /\ \A i \in 1..Len(c2), j \in 1..Len(db.chain) :
                  c2[i] # db.chain[j]
        /\ pc = "common" /\ Height[h2] > Height[h1] =>
             Height[h1] = Len(db.chain) - 1
        /\ pc = "undo" => h1 = h2
        /\ pc = "redo" =>
             /\ Len(c2) = 0 => m_tip_bid = r
             /\ Len(c2) > 0 => Parent[c2[Len(c2)]] = m_tip_bid

DownOK ==
  pc = "down" => /\ db = disk
                 /\ m_tip_height = -1
                 /\ m_header_tip_window = <<>>

IdleOK ==
  /\ pc \notin {"down", "exited"} => entry \in Block
  /\ pc = "idle" => Heavy(db)
  /\ ReplyTellsTip

IndInv ==
  /\ TypeOK
  /\ OnlyLedgerThrows
  /\ DbOK(db)
  /\ DbOK(disk)
  /\ Heavy(disk)
  /\ TipMatchesChain
  /\ DownOK
  /\ WalkOK
  /\ IdleOK

-------------------------------------------------------------------------------
\* FrontOf drops the last element and keeps the others.
LEMMA FrontFacts ==
  ASSUME NEW S, NEW s \in Seq(S), s # <<>>
  PROVE  /\ FrontOf(s) \in Seq(S)
         /\ Len(FrontOf(s)) = Len(s) - 1
         /\ \A i \in 1..(Len(s) - 1) : FrontOf(s)[i] = s[i]
         /\ Len(s) > 0
         /\ LastOf(s) \in S
<1>1. Len(s) \in Nat /\ Len(s) # 0
  BY EmptySeq
<1>2. LastOf(s) \in S
  BY <1>1, ElementOfSeq DEF LastOf
<1>3. /\ FrontOf(s) \in Seq(S)
      /\ Len(FrontOf(s)) = Len(s) - 1
      /\ \A i \in 1..(Len(s) - 1) : FrontOf(s)[i] = s[i]
  <2> DEFINE n == Len(s) - 1
  <2>1. n \in Int /\ 1 \in Int /\ \A i \in 1..n : s[i] \in S
    BY <1>1
  <2>2. /\ SubSeq(s, 1, n) \in Seq(S)
        /\ Len(SubSeq(s, 1, n)) = IF 1 <= n THEN n - 1 + 1 ELSE 0
        /\ \A i \in 1..(n - 1 + 1) : SubSeq(s, 1, n)[i] = s[1 + i - 1]
    <3> HIDE DEF n
    <3> QED BY <2>1, SubSeqProperties
  <2>3. FrontOf(s) = SubSeq(s, 1, n)
    BY DEF FrontOf
  <2>4. n \in Nat
    BY <1>1
  <2> HIDE DEF n
  <2>5. Len(FrontOf(s)) = n
    BY <2>2, <2>3, <2>4
  <2>6. ASSUME NEW i \in 1..n  PROVE FrontOf(s)[i] = s[i]
    <3>1. i \in 1..(n - 1 + 1) /\ 1 + i - 1 = i
      BY <2>4
    <3>2. SubSeq(s, 1, n)[i] = s[1 + i - 1]
      BY <2>2, <3>1
    <3> QED BY <2>3, <3>1, <3>2
  <2> QED BY <2>2, <2>3, <2>5, <2>6 DEF n
<1> QED BY <1>1, <1>2, <1>3

\* Append adds one element at the end and keeps the others.
LEMMA AppendFacts ==
  ASSUME NEW S, NEW s \in Seq(S), NEW e \in S
  PROVE  /\ Append(s, e) \in Seq(S)
         /\ Len(Append(s, e)) = Len(s) + 1
         /\ \A i \in 1..Len(s) : Append(s, e)[i] = s[i]
         /\ Append(s, e)[Len(s) + 1] = e
         /\ Append(s, e) # <<>>
         /\ LastOf(Append(s, e)) = e
BY DEF LastOf

\* The trimmed window of push_chain is a non-empty end of the window, of at
\* most Window headers.
LEMMA TrimmedFacts ==
  ASSUME NEW S, NEW w \in Seq(S), Len(w) > 0
  PROVE  /\ Trimmed(w) \in Seq(S)
         /\ Len(Trimmed(w)) \in 1..Len(w)
         /\ Len(Trimmed(w)) <= Window
         /\ \A i \in 1..Len(Trimmed(w)) :
              Trimmed(w)[i] = w[Len(w) - Len(Trimmed(w)) + i]
<1>1. CASE Len(w) > Window
  BY <1>1, BoundAssumption DEF Trimmed
<1>2. CASE ~(Len(w) > Window)
  BY <1>2, BoundAssumption DEF Trimmed
<1> QED BY <1>1, <1>2

\* What modify_children_counter writes, field by field.
LEMMA ModifyFacts ==
  ASSUME NEW d \in DB, NEW b \in Block, NEW delta \in Int
  PROVE  /\ modify_children_counter(d, b, delta) \in DB
         /\ modify_children_counter(d, b, delta).blocks = d.blocks
         /\ modify_children_counter(d, b, delta).headers = d.headers
         /\ modify_children_counter(d, b, delta).chain = d.chain
         /\ modify_children_counter(d, b, delta).children[b] =
              d.children[b] + delta
         /\ b \in modify_children_counter(d, b, delta).tips <=>
              d.children[b] + delta = 0
         /\ \A c \in Block \ {b} :
              /\ modify_children_counter(d, b, delta).children[c] = d.children[c]
              /\ c \in modify_children_counter(d, b, delta).tips <=> c \in d.tips
<1> DEFINE counter == d.children[b] + delta
           ch == [d.children EXCEPT ![b] = counter]
           t == IF counter = 0 THEN d.tips \cup {b} ELSE d.tips \ {b}
<1>1. ch \in [Block -> Int] /\ t \in SUBSET Block
  BY DEF DB
<1>2. modify_children_counter(d, b, delta) =
        [d EXCEPT !.children = ch, !.tips = t]
  BY DEF modify_children_counter, DB
<1> HIDE DEF ch, t
<1>3. [d EXCEPT !.children = ch, !.tips = t] \in DB
  BY <1>1 DEF DB
<1> QED BY <1>2, <1>3, <1>1 DEF DB, ch, t

\* A block other than b keeps its counter and its place in the tips index.
LEMMA ModifyOther ==
  ASSUME NEW d \in DB, NEW b \in Block, NEW delta \in Int,
         NEW c \in Block, c # b
  PROVE  /\ modify_children_counter(d, b, delta).children[c] = d.children[c]
         /\ c \in modify_children_counter(d, b, delta).tips <=> c \in d.tips
BY ModifyFacts

\* What the prefix of add_block writes, field by field.
LEMMA StoredFacts ==
  ASSUME NEW d \in DB, NEW b \in Block
  PROVE  /\ StoredBlock(d, b) \in DB
         /\ StoredBlock(d, b).blocks = d.blocks \cup {b}
         /\ StoredBlock(d, b).headers = d.headers \cup {b}
         /\ StoredBlock(d, b).chain = d.chain
<1> DEFINE s == store_header(IF has_block(d, b) THEN d ELSE store_block(d, b), b)
<1>1. /\ s \in DB
      /\ s.blocks = d.blocks \cup {b}
      /\ s.headers = d.headers \cup {b}
      /\ s.chain = d.chain
  BY DEF DB, store_header, store_block, has_block
<1>2. /\ Counted(d, b) \in DB
      /\ Counted(d, b).blocks = d.blocks \cup {b}
      /\ Counted(d, b).headers = d.headers \cup {b}
      /\ Counted(d, b).chain = d.chain
  <2> HIDE DEF s
  <2>1. Counted(d, b) =
          IF b = Genesis THEN s ELSE modify_children_counter(s, Parent[b], 1)
    BY DEF Counted, s
  <2>2. CASE b = Genesis
    BY <2>1, <2>2, <1>1
  <2>3. CASE b # Genesis
    <3>1. Parent[b] \in Block
      BY <2>3, TreeAssumption
    <3>2. /\ modify_children_counter(s, Parent[b], 1) \in DB
          /\ modify_children_counter(s, Parent[b], 1).blocks = s.blocks
          /\ modify_children_counter(s, Parent[b], 1).headers = s.headers
          /\ modify_children_counter(s, Parent[b], 1).chain = s.chain
      <4>1. s \in DB /\ 1 \in Int
        BY <1>1
      <4> QED BY <4>1, <3>1, ModifyFacts
    <3>3. Counted(d, b) = modify_children_counter(s, Parent[b], 1)
      BY <2>1, <2>3
    <3> QED BY <3>2, <3>3, <1>1
  <2> QED BY <2>2, <2>3
<1>3. -1 \in Int
  OBVIOUS
<1> HIDE DEF s
<1> QED BY <1>2, <1>3, ModifyFacts DEF StoredBlock

-------------------------------------------------------------------------------
\* check_children_counter(b, 1) and the nooverwrite puts of add_block never
\* fail for a block whose header is not stored.
LEMMA StoreOkHolds ==
  ASSUME NEW d \in DB, DbOK(d), NEW b \in Block \ d.headers
  PROVE  StoreOk(d, b)
<1> DEFINE s == store_header(IF has_block(d, b) THEN d ELSE store_block(d, b), b)
<1>1. s \in DB /\ s.children = d.children /\ s.tips = d.tips
  BY DEF DB, store_header, store_block, has_block
<1>2. d.children[b] = 1 /\ b \notin d.tips
  BY DEF DbOK
<1>3. Counted(d, b).children[b] = 1 /\ b \notin Counted(d, b).tips
  <2> HIDE DEF s
  <2>1. Counted(d, b) =
          IF b = Genesis THEN s ELSE modify_children_counter(s, Parent[b], 1)
    BY DEF Counted, s
  <2>2. CASE b = Genesis
    BY <2>1, <2>2, <1>1, <1>2
  <2>3. CASE b # Genesis
    <3>1. Parent[b] \in Block /\ Parent[b] # b
      BY <2>3, TreeAssumption
    <3>2. 1 \in Int /\ b \in Block
      OBVIOUS
    <3>3. /\ modify_children_counter(s, Parent[b], 1).children[b] = s.children[b]
          /\ b \in modify_children_counter(s, Parent[b], 1).tips <=> b \in s.tips
      BY <1>1, <3>1, <3>2, ModifyOther
    <3> QED BY <2>1, <2>3, <1>1, <1>2, <3>3
  <2> QED BY <2>2, <2>3
<1> QED BY <1>3 DEF StoreOk, read_header, check_children_counter

\* Only the stored block and its parent change counters: a block that is still
\* absent keeps the default counter and stays out of the tips index.
LEMMA StoredAbsent ==
  ASSUME NEW d \in DB, DbOK(d), NEW b \in Block \ d.headers,
         b # Genesis => Parent[b] \in d.headers,
         NEW c \in Block, c \notin d.headers, c # b
  PROVE  StoredBlock(d, b).children[c] = 1 /\ c \notin StoredBlock(d, b).tips
<1> DEFINE s == store_header(IF has_block(d, b) THEN d ELSE store_block(d, b), b)
<1>1. s \in DB /\ s.children = d.children /\ s.tips = d.tips
  BY DEF DB, store_header, store_block, has_block
<1>2. d.children[c] = 1 /\ c \notin d.tips
  BY DEF DbOK
<1>3. /\ Counted(d, b) \in DB
      /\ Counted(d, b).children[c] = 1 /\ c \notin Counted(d, b).tips
  <2> HIDE DEF s
  <2>1. Counted(d, b) =
          IF b = Genesis THEN s ELSE modify_children_counter(s, Parent[b], 1)
    BY DEF Counted, s
  <2>2. CASE b = Genesis
    BY <2>1, <2>2, <1>1, <1>2
  <2>3. CASE b # Genesis
    <3>1. Parent[b] \in Block /\ 1 \in Int /\ c # Parent[b]
      BY <2>3, TreeAssumption
    <3>2. modify_children_counter(s, Parent[b], 1) \in DB
      <4>1. s \in DB /\ 1 \in Int
        BY <1>1
      <4> QED BY <4>1, <3>1, ModifyFacts
    <3>3. /\ modify_children_counter(s, Parent[b], 1).children[c] = s.children[c]
          /\ c \in modify_children_counter(s, Parent[b], 1).tips <=> c \in s.tips
      BY <1>1, <3>1, ModifyOther
    <3> QED BY <2>1, <2>3, <1>1, <1>2, <3>2, <3>3
  <2> QED BY <2>2, <2>3
<1> HIDE DEF s
<1>4. -1 \in Int /\ b \in Block
  OBVIOUS
<1>5. /\ StoredBlock(d, b).children[c] = Counted(d, b).children[c]
      /\ c \in StoredBlock(d, b).tips <=> c \in Counted(d, b).tips
  BY <1>3, <1>4, ModifyOther DEF StoredBlock
<1> QED BY <1>3, <1>5

\* Storing a block above a stored parent keeps the database well formed.
LEMMA StoredDbOK ==
  ASSUME NEW d \in DB, DbOK(d), d.chain # <<>>,
         NEW b \in Block \ d.headers, b # Genesis, Parent[b] \in d.headers
  PROVE  DbOK(StoredBlock(d, b))
<1> DEFINE s == StoredBlock(d, b)
<1>1. /\ s \in DB
      /\ s.blocks = d.blocks \cup {b}
      /\ s.headers = d.headers \cup {b}
      /\ s.chain = d.chain
  BY StoredFacts
<1>2. \A c \in Block \ s.headers : s.children[c] = 1 /\ c \notin s.tips
  BY <1>1, StoredAbsent
<1> HIDE DEF s
<1>3. ChainStored(s)
  BY <1>1 DEF DbOK, ChainStored
<1>4. s.blocks = s.headers
  BY <1>1 DEF DbOK
<1>5. \A c \in s.headers \ {Genesis} : Parent[c] \in s.headers
  BY <1>1 DEF DbOK
<1>6. /\ \A i \in 1..Len(s.chain) : Height[s.chain[i]] = i - 1
      /\ \A i \in 1..Len(s.chain) : s.chain[i] \notin invalid
  BY <1>1 DEF DbOK
<1>7. DbOK(s)
  BY <1>1, <1>2, <1>3, <1>4, <1>5, <1>6 DEF DbOK
<1> QED BY <1>7 DEF s

\* Appending a stored valid child of the last block keeps it well formed.
LEMMA PushDbOK ==
  ASSUME NEW d \in DB, DbOK(d), d.chain # <<>>,
         NEW b \in d.headers, b # Genesis, Parent[b] = LastOf(d.chain),
         b \notin invalid
  PROVE  /\ [d EXCEPT !.chain = Append(@, b)] \in DB
         /\ DbOK([d EXCEPT !.chain = Append(@, b)])
<1> DEFINE c == Append(d.chain, b)
           e == [d EXCEPT !.chain = c]
           n == Len(d.chain)
<1>1. d.chain \in Seq(Block) /\ b \in Block /\ n \in Nat \ {0}
  BY EmptySeq DEF DB
<1>2. /\ c \in Seq(Block) /\ Len(c) = n + 1
      /\ \A i \in 1..n : c[i] = d.chain[i]
      /\ c[n + 1] = b /\ c # <<>>
  BY <1>1, AppendFacts
<1> HIDE DEF c, n
<1>3. /\ e \in DB
      /\ e.blocks = d.blocks /\ e.headers = d.headers /\ e.chain = c
      /\ e.children = d.children /\ e.tips = d.tips
  BY <1>2 DEF DB
<1> HIDE DEF e
<1>4. Parent[b] = d.chain[n]
  BY DEF LastOf, n
<1>5. Height[b] = n
  <2>1. Height[d.chain[n]] = n - 1
    BY <1>1 DEF DbOK, n
  <2> QED BY <1>1, <1>4, <2>1, TreeAssumption
<1>6. Linked(c)
  <2>1. d.chain[1] = Genesis
    BY DEF DbOK, ChainStored, Linked
  <2>2. \A i \in 2..n : d.chain[i] # Genesis /\ Parent[d.chain[i]] = d.chain[i-1]
    BY DEF DbOK, ChainStored, Linked, n
  <2>3. ASSUME NEW i \in 2..Len(c)
        PROVE  c[i] # Genesis /\ Parent[c[i]] = c[i-1]
    <3>1. CASE i = n + 1
      BY <3>1, <1>1, <1>2, <1>4
    <3>2. CASE i # n + 1
      <4>1. i \in 2..n /\ i \in 1..n /\ i - 1 \in 1..n
        BY <3>2, <1>1, <1>2
      <4> QED BY <4>1, <1>2, <2>2
    <3> QED BY <3>1, <3>2
  <2>4. c[1] = Genesis
    BY <2>1, <1>1, <1>2
  <2> QED BY <2>3, <2>4 DEF Linked
<1>7. ASSUME NEW i \in 1..Len(c)
      PROVE  /\ c[i] \in d.blocks \cap d.headers
             /\ Height[c[i]] = i - 1
             /\ c[i] \notin invalid
  <2>1. CASE i = n + 1
    BY <2>1, <1>1, <1>2, <1>5 DEF DbOK
  <2>2. CASE i # n + 1
    <3>1. i \in 1..n
      BY <2>2, <1>1, <1>2
    <3> QED BY <3>1, <1>2 DEF DbOK, ChainStored, n
  <2> QED BY <2>1, <2>2
<1>8. DbOK(e)
  <2>1. ChainStored(e)
    BY <1>3, <1>6, <1>7 DEF ChainStored
  <2>2. /\ e.blocks = e.headers
        /\ \A x \in e.headers \ {Genesis} : Parent[x] \in e.headers
        /\ \A x \in Block \ e.headers : e.children[x] = 1 /\ x \notin e.tips
    BY <1>3 DEF DbOK
  <2> QED BY <1>2, <1>3, <1>7, <2>1, <2>2 DEF DbOK
<1> QED BY <1>3, <1>8 DEF e, c

\* Dropping the last block of a chain longer than genesis keeps it well formed.
LEMMA PopDbOK ==
  ASSUME NEW d \in DB, DbOK(d), Len(d.chain) > 1
  PROVE  /\ [d EXCEPT !.chain = FrontOf(@)] \in DB
         /\ DbOK([d EXCEPT !.chain = FrontOf(@)])
<1> DEFINE c == FrontOf(d.chain)
           e == [d EXCEPT !.chain = c]
           n == Len(d.chain)
<1>1. d.chain \in Seq(Block) /\ d.chain # <<>> /\ n \in Nat /\ n > 1
  BY EmptySeq DEF DB
<1>2. /\ c \in Seq(Block) /\ Len(c) = n - 1
      /\ \A i \in 1..(n - 1) : c[i] = d.chain[i]
  BY <1>1, FrontFacts
<1>3. c # <<>>
  BY <1>1, <1>2, EmptySeq
<1> HIDE DEF c
<1>4. /\ e \in DB
      /\ e.blocks = d.blocks /\ e.headers = d.headers /\ e.chain = c
      /\ e.children = d.children /\ e.tips = d.tips
  BY <1>2 DEF DB
<1> HIDE DEF e
<1>5. Linked(d.chain)
  BY DEF DbOK, ChainStored
<1>6. Linked(c)
  <2>1. ASSUME NEW i \in 2..Len(c)
        PROVE  c[i] # Genesis /\ Parent[c[i]] = c[i-1]
    <3>1. i \in 2..n /\ i \in 1..(n - 1) /\ i - 1 \in 1..(n - 1)
      BY <1>1, <1>2
    <3> QED BY <3>1, <1>2, <1>5 DEF Linked
  <2>2. c[1] = Genesis
    BY <1>1, <1>2, <1>5 DEF Linked
  <2> QED BY <2>1, <2>2 DEF Linked
<1>7. \A i \in 1..Len(c) : /\ c[i] \in d.blocks \cap d.headers
                           /\ Height[c[i]] = i - 1
                           /\ c[i] \notin invalid
  <2>1. \A i \in 1..Len(c) : i \in 1..n /\ c[i] = d.chain[i]
    BY <1>1, <1>2
  <2> QED BY <2>1 DEF DbOK, ChainStored
<1>8. DbOK(e)
  <2>1. ChainStored(e)
    BY <1>4, <1>6, <1>7 DEF ChainStored
  <2>2. /\ e.blocks = e.headers
        /\ \A x \in e.headers \ {Genesis} : Parent[x] \in e.headers
        /\ \A x \in Block \ e.headers : e.children[x] = 1 /\ x \notin e.tips
    BY <1>4 DEF DbOK
  <2> QED BY <1>3, <1>4, <1>7, <2>1, <2>2 DEF DbOK
<1> QED BY <1>4, <1>8 DEF e, c

-------------------------------------------------------------------------------
MemType ==
  /\ m_tip_bid \in Block \cup {NoBlock}
  /\ m_tip_height \in Nat \cup {-1}
  /\ m_tip_cumulative_difficulty \in Nat
  /\ m_header_tip_window \in Seq(Block)

\* push_chain of a valid stored child of the tip.
LEMMA PushStep ==
  ASSUME MemType, TipOK, NEW d \in DB, DbOK(d), d.chain = db.chain,
         NEW b \in d.headers, b # Genesis, Parent[b] = m_tip_bid,
         b \notin invalid, push_chain(d, b), invalid' = invalid /\ fatal' = fatal
  PROVE  /\ db' \in DB
         /\ DbOK(db)'
         /\ db'.headers = d.headers
         /\ LastOf(db'.chain) = b
         /\ MemType'
         /\ TipOK'
<1> DEFINE n == Len(db.chain)
           w == Len(m_header_tip_window)
           win == Append(m_header_tip_window, b)
<1>1. /\ d.chain \in Seq(Block) /\ b \in Block /\ n \in Nat /\ n > 0
      /\ d.chain # <<>> /\ LastOf(d.chain) = m_tip_bid
  BY EmptySeq DEF DB, TipOK, LastOf
<1>2. db' = [d EXCEPT !.chain = Append(@, b)]
  BY DEF push_chain
<1>3. db' \in DB /\ DbOK(db')
  BY <1>1, <1>2, PushDbOK
<1>4. DbOK(db)'
  BY <1>3 DEF DbOK, ChainStored
<1>5. db'.headers = d.headers /\ db'.chain = Append(db.chain, b)
  BY <1>2 DEF DB
<1>6. /\ Len(db'.chain) = n + 1 /\ LastOf(db'.chain) = b
      /\ \A i \in 1..n : db'.chain[i] = db.chain[i]
      /\ db'.chain[n + 1] = b
  BY <1>1, <1>5, AppendFacts
<1>7. /\ w \in 1..n /\ m_header_tip_window \in Seq(Block)
      /\ \A i \in 1..w : m_header_tip_window[i] = db.chain[n - w + i]
  BY DEF TipOK, MemType
<1>8. /\ win \in Seq(Block) /\ Len(win) = w + 1
      /\ \A i \in 1..w : win[i] = m_header_tip_window[i]
      /\ win[w + 1] = b
  BY <1>1, <1>7, AppendFacts
<1> HIDE DEF n, w
<1>9. \A i \in 1..(w + 1) : win[i] = db'.chain[(n + 1) - (w + 1) + i]
  <2> SUFFICES ASSUME NEW i \in 1..(w + 1)
               PROVE  win[i] = db'.chain[(n + 1) - (w + 1) + i]
    OBVIOUS
  <2>1. CASE i = w + 1
    <3>1. (n + 1) - (w + 1) + i = n + 1
      BY <2>1, <1>1, <1>7
    <3> QED BY <2>1, <3>1, <1>6, <1>8
  <2>2. CASE i # w + 1
    <3>1. i \in 1..w /\ (n + 1) - (w + 1) + i = n - w + i /\ n - w + i \in 1..n
      BY <2>2, <1>1, <1>7
    <3> QED BY <3>1, <1>6, <1>7, <1>8
  <2> QED BY <2>1, <2>2
<1>10. m_header_tip_window' = Trimmed(win)
  BY DEF push_chain
<1> HIDE DEF win
<1>11. /\ Trimmed(win) \in Seq(Block)
       /\ Len(Trimmed(win)) \in 1..Len(win)
       /\ Len(Trimmed(win)) <= Window
       /\ \A i \in 1..Len(Trimmed(win)) :
            Trimmed(win)[i] = win[Len(win) - Len(Trimmed(win)) + i]
  <2>1. Len(win) > 0
    BY <1>7, <1>8
  <2> QED BY <2>1, <1>8, TrimmedFacts
<1>12. /\ m_tip_bid' = b /\ m_tip_height' = m_tip_height + 1
       /\ m_tip_cumulative_difficulty' = CumDiff[b]
  BY DEF push_chain
<1>13. m_tip_height = n - 1
  BY DEF TipOK, n
<1>14. MemType'
  BY <1>1, <1>10, <1>11, <1>12, <1>13, TreeAssumption DEF MemType
<1>15. TipOK'
  <2> DEFINE v == Len(m_header_tip_window')
  <2>1. v \in 1..(w + 1) /\ v <= Window /\ v \in 1..(n + 1)
    BY <1>1, <1>7, <1>8, <1>10, <1>11
  <2>2. ASSUME NEW i \in 1..v
        PROVE  m_header_tip_window'[i] = db'.chain[(n + 1) - v + i]
    <3> DEFINE j == (w + 1) - v + i
    <3>1. j \in 1..(w + 1) /\ (n + 1) - (w + 1) + j = (n + 1) - v + i
      BY <1>1, <1>7, <2>1
    <3>2. m_header_tip_window'[i] = win[j]
      BY <1>8, <1>10, <1>11
    <3> HIDE DEF j
    <3> QED BY <3>1, <3>2, <1>9
  <2>3. /\ Len(db'.chain) > 0 /\ m_tip_height' = Len(db'.chain) - 1
        /\ m_tip_bid' = db'.chain[Len(db'.chain)]
        /\ m_tip_cumulative_difficulty' = CumDiff[db'.chain[Len(db'.chain)]]
    BY <1>1, <1>6, <1>12, <1>13
  <2> QED BY <2>1, <2>2, <2>3, <1>6 DEF TipOK
<1> QED BY <1>3, <1>4, <1>5, <1>6, <1>14, <1>15

\* pop_chain of a tip above genesis: PopOk holds and the result is consistent,
\* also when the window runs empty and is refilled.
LEMMA PopStep ==
  ASSUME MemType, TipOK, db \in DB, DbOK(db), Len(db.chain) > 1
  PROVE  /\ has_block(db, m_tip_bid)
         /\ PopOk(Parent[m_tip_bid])
         /\ pop_chain(Parent[m_tip_bid]) /\ invalid' = invalid /\ fatal' = fatal =>
              /\ db' \in DB
              /\ DbOK(db)'
              /\ db'.headers = db.headers
              /\ Len(db'.chain) = Len(db.chain) - 1
              /\ \A i \in 1..Len(db'.chain) : db'.chain[i] = db.chain[i]
              /\ MemType'
              /\ TipOK'
<1> DEFINE n == Len(db.chain)
           w == Len(m_header_tip_window)
           p == Parent[m_tip_bid]
<1>1. /\ db.chain \in Seq(Block) /\ n \in Nat /\ n > 1 /\ db.chain # <<>>
  BY EmptySeq DEF DB
<1>2. /\ m_tip_height = n - 1 /\ m_tip_bid = db.chain[n]
      /\ w \in 1..n /\ w <= Window /\ m_header_tip_window \in Seq(Block)
      /\ \A i \in 1..w : m_header_tip_window[i] = db.chain[n - w + i]
  BY DEF TipOK, MemType
<1>3. /\ Linked(db.chain)
      /\ \A i \in 1..n : db.chain[i] \in db.blocks \cap db.headers
  BY DEF DbOK, ChainStored
<1>4. p = db.chain[n - 1] /\ p \in db.headers /\ p \in Block
  <2>1. n \in 2..n /\ n - 1 \in 1..n
    BY <1>1
  <2>2. db.chain[n - 1] = Parent[db.chain[n]]
    BY <2>1, <1>3 DEF Linked
  <2>3. db.chain[n - 1] \in Block
    BY <2>1, <1>1
  <2> QED BY <2>1, <2>2, <2>3, <1>2, <1>3
<1>5. has_block(db, m_tip_bid)
  BY <1>1, <1>2, <1>3 DEF has_block
<1>6. m_header_tip_window # <<>>
  BY <1>2, EmptySeq
<1> HIDE DEF n, w, p
<1>7. /\ PoppedWindow(p) \in Seq(Block)
      /\ Len(PoppedWindow(p)) \in 1..(n - 1)
      /\ Len(PoppedWindow(p)) <= Window
      /\ \A i \in 1..Len(PoppedWindow(p)) : PoppedWindow(p)[i] =
           db.chain[(n - 1) - Len(PoppedWindow(p)) + i]
  <2>1. CASE w = 1
    <3>1. PoppedWindow(p) = <<p>>
      BY <2>1 DEF PoppedWindow, w
    <3> QED BY <3>1, <1>1, <1>4, BoundAssumption
  <2>2. CASE w # 1
    <3>1. PoppedWindow(p) = FrontOf(m_header_tip_window)
      BY <2>2 DEF PoppedWindow, w
    <3>2. /\ PoppedWindow(p) \in Seq(Block)
          /\ Len(PoppedWindow(p)) = w - 1
          /\ \A i \in 1..(w - 1) : PoppedWindow(p)[i] = m_header_tip_window[i]
      BY <3>1, <1>2, <1>6, FrontFacts DEF w
    <3>3. ASSUME NEW i \in 1..(w - 1)
          PROVE  PoppedWindow(p)[i] = db.chain[(n - 1) - (w - 1) + i]
      <4>1. i \in 1..w /\ n - w + i = (n - 1) - (w - 1) + i
        BY <1>1, <1>2
      <4> QED BY <4>1, <3>2, <1>2
    <3> QED BY <2>2, <3>2, <3>3, <1>1, <1>2, BoundAssumption
  <2> QED BY <2>1, <2>2
<1>8. LastOf(PoppedWindow(p)) = p
  <2> DEFINE v == Len(PoppedWindow(p))
  <2>1. v \in 1..v /\ (n - 1) - v + v = n - 1
    BY <1>1, <1>7
  <2> QED BY <2>1, <1>4, <1>7 DEF LastOf
<1>9. PopOk(p)
  BY <1>1, <1>2, <1>4, <1>6, <1>8 DEF PopOk, read_header, n
<1>10. ASSUME pop_chain(p), invalid' = invalid /\ fatal' = fatal
       PROVE  /\ db' \in DB
              /\ DbOK(db)'
              /\ db'.headers = db.headers
              /\ Len(db'.chain) = n - 1
              /\ \A i \in 1..Len(db'.chain) : db'.chain[i] = db.chain[i]
              /\ MemType'
              /\ TipOK'
  <2>1. db' = [db EXCEPT !.chain = FrontOf(@)]
    BY <1>10 DEF pop_chain
  <2>2. db' \in DB /\ DbOK(db')
    BY <2>1, PopDbOK
  <2>3. DbOK(db)'
    BY <2>2, <1>10 DEF DbOK, ChainStored
  <2>4. db'.headers = db.headers /\ db'.chain = FrontOf(db.chain)
    BY <2>1 DEF DB
  <2>5. /\ Len(db'.chain) = n - 1
        /\ \A i \in 1..(n - 1) : db'.chain[i] = db.chain[i]
    BY <2>4, <1>1, FrontFacts DEF n
  <2>6. /\ m_tip_bid' = p /\ m_tip_height' = m_tip_height - 1
        /\ m_header_tip_window' = PoppedWindow(p)
        /\ m_tip_cumulative_difficulty' = CumDiff[p]
    BY <1>8, <1>10 DEF pop_chain
  <2>7. MemType'
    <3>1. m_tip_bid' \in Block
      BY <2>6, <1>4
    <3>2. m_tip_height' \in Nat
      BY <2>6, <1>1, <1>2
    <3>3. m_tip_cumulative_difficulty' \in Nat
      BY <2>6, <1>4, TreeAssumption
    <3>4. m_header_tip_window' \in Seq(Block)
      BY <2>6, <1>7
    <3> QED BY <3>1, <3>2, <3>3, <3>4 DEF MemType
  <2>8. TipOK'
    <3> DEFINE v == Len(PoppedWindow(p))
    <3>1. v \in 1..(n - 1) /\ v <= Window
      BY <1>7
    <3>2. ASSUME NEW i \in 1..v
          PROVE  m_header_tip_window'[i] = db'.chain[(n - 1) - v + i]
      <4>1. (n - 1) - v + i \in 1..(n - 1)
        BY <3>1, <1>1
      <4> QED BY <4>1, <2>5, <2>6, <1>7
    <3>3. Len(db'.chain) = n - 1 /\ n - 1 > 0 /\ Len(m_header_tip_window') = v
      BY <2>5, <2>6, <1>1
    <3>4. db'.chain[n - 1] = p
      BY <2>5, <1>1, <1>4
    <3>5. m_tip_height' = (n - 1) - 1
      BY <2>6, <1>2
    <3> HIDE DEF v
    <3> QED BY <3>1, <3>2, <3>3, <3>4, <3>5, <2>6 DEF TipOK
  <2> QED BY <2>2, <2>3, <2>4, <2>5, <2>7, <2>8
<1> QED BY <1>5, <1>9, <1>10 DEF p, n

-------------------------------------------------------------------------------
\* The tail of add_block, from any consistent state, ends in IndInv.
LEMMA ReturnStep ==
  ASSUME IndInv, NEW b \in Block, db' \in DB, DbOK(db)', Heavy(db)', MemType',
         TipOK', add_block_returns(b), entry' \in Block, invalid' = invalid /\ fatal' = fatal,
         ReplyTellsTip'
  PROVE  IndInv'
<1>1. pc' = "idle" /\ reorg' = NoReorg
  BY DEF add_block_returns
<1>2. disk' = db' \/ disk' = disk
  BY DEF add_block_returns
<1>3. disk' \in DB /\ DbOK(disk)' /\ Heavy(disk)'
  <2>1. CASE disk' = db'
    BY <2>1 DEF DbOK, Heavy, ChainStored
  <2>2. CASE disk' = disk
    BY <2>2 DEF IndInv, TypeOK, DbOK, Heavy, ChainStored
  <2> QED BY <1>2, <2>1, <2>2
<1>4. reply' \in {"NOTHING", "BAN", "BROADCAST_ALL"}
  BY DEF add_block_returns
<1>5. TypeOK'
  BY <1>1, <1>3, <1>4 DEF TypeOK, MemType, NoReorg, Pcs, IndInv
<1> QED BY <1>1, <1>3, <1>5
        DEF IndInv, OnlyLedgerThrows, TipMatchesChain, DownOK, WalkOK, InReorg, IdleOK

\* The constructors start from a state that satisfies IndInv.
LEMMA InitIndInv == Init => IndInv
<1> SUFFICES ASSUME Init PROVE IndInv
  OBVIOUS
<1>1. EmptyDB \in DB
  BY DEF EmptyDB, DB
<1>2. Len(EmptyDB.chain) = 0 /\ EmptyDB.headers = {} /\ EmptyDB.blocks = {}
      /\ EmptyDB.chain = <<>> /\ EmptyDB.tips = {}
      /\ EmptyDB.children = [b \in Block |-> 1]
  BY DEF EmptyDB
<1>3. DbOK(EmptyDB) /\ Heavy(EmptyDB)
  BY <1>2 DEF DbOK, Heavy, ChainStored, Linked
<1>4. TypeOK
  BY <1>1 DEF Init, TypeOK, NoReorg, Pcs
<1> QED BY <1>3, <1>4 DEF Init, IndInv, OnlyLedgerThrows, TipMatchesChain, DownOK,
                          WalkOK, InReorg, IdleOK, ReplyTellsTip

\* read_tip restores a consistent tip and window from the database.
LEMMA OpenExistingStep == IndInv /\ OpenExisting => IndInv'
<1> SUFFICES ASSUME IndInv, OpenExisting PROVE IndInv'
  OBVIOUS
<1> DEFINE l == LastOf(db.chain)
<1>1. db \in DB /\ DbOK(db) /\ Heavy(db) /\ db = disk
  BY DEF OpenExisting, IndInv, TypeOK, DownOK
<1>2. /\ db.chain # <<>> /\ db.chain \in Seq(Block)
      /\ Len(db.chain) \in Nat /\ Len(db.chain) > 0
  BY <1>1, EmptySeq DEF OpenExisting, DB
<1>3. db.chain[1] = Genesis /\ l \in db.headers /\ l \in Block
  BY <1>1, <1>2 DEF DbOK, ChainStored, Linked, LastOf, DB
<1>4. /\ m_tip_bid' = l /\ m_tip_height' = Len(db.chain) - 1
      /\ m_tip_cumulative_difficulty' = CumDiff[l]
      /\ m_header_tip_window' = <<l>> /\ pc' = "idle" /\ entry' = l
      /\ db' = db /\ disk' = disk /\ reorg' = reorg /\ reply' = reply
      /\ invalid' = invalid /\ fatal' = fatal
  BY <1>3 DEF OpenExisting, read_header
<1> HIDE DEF l
<1>5. TypeOK'
  <2>1. m_tip_bid' \in Block /\ entry' \in Block /\ m_header_tip_window' \in Seq(Block)
    BY <1>3, <1>4
  <2>2. m_tip_height' \in Nat /\ m_tip_cumulative_difficulty' \in Nat
    BY <1>2, <1>3, <1>4, TreeAssumption
  <2>3. TypeOK
    BY DEF IndInv
  <2>4. pc' \in Pcs
    BY <1>4 DEF Pcs
  <2> QED BY <2>1, <2>2, <2>3, <2>4, <1>4 DEF TypeOK
<1>6. TipOK'
  BY <1>2, <1>4, BoundAssumption DEF TipOK, l, LastOf
<1>7. DbOK(db)' /\ DbOK(disk)' /\ Heavy(db)' /\ Heavy(disk)'
  BY <1>1, <1>4 DEF DbOK, Heavy, ChainStored
<1> QED BY <1>3, <1>4, <1>5, <1>6, <1>7 DEF IndInv, OnlyLedgerThrows, TipMatchesChain,
          DownOK, WalkOK, InReorg, IdleOK, ReplyTellsTip

\* Adding the genesis block to an empty database cannot fail.
LEMMA OpenEmptyStep == IndInv /\ OpenEmpty => IndInv'
<1> SUFFICES ASSUME IndInv, OpenEmpty PROVE IndInv'
  OBVIOUS
<1> DEFINE s == StoredBlock(db, Genesis)
<1>1. /\ db \in DB /\ DbOK(db) /\ db.chain = <<>> /\ m_tip_height = -1
      /\ m_header_tip_window = <<>> /\ Genesis \notin invalid
  BY DEF OpenEmpty, IndInv, TypeOK, DownOK
<1>2. db.headers = {} /\ db.blocks = {} /\ Genesis \in Block \ db.headers
  BY <1>1, TreeAssumption DEF DbOK
<1>3. StoreOk(db, Genesis)
  BY <1>1, <1>2, StoreOkHolds
<1>4. PushOk(db)
  BY <1>1 DEF PushOk
<1>5. /\ push_chain(s, Genesis) /\ add_block_returns(Genesis)
      /\ entry' = Genesis /\ invalid' = invalid /\ fatal' = fatal
  BY <1>1, <1>3, <1>4 DEF OpenEmpty, redo_block
<1>6. /\ s \in DB /\ s.blocks = {Genesis} /\ s.headers = {Genesis}
      /\ s.chain = <<>>
  BY <1>1, <1>2, StoredFacts
<1>7. \A c \in Block \ {Genesis} : s.children[c] = 1 /\ c \notin s.tips
  BY <1>1, <1>2, StoredAbsent
<1> HIDE DEF s
<1>8. db' = [s EXCEPT !.chain = Append(@, Genesis)]
  BY <1>5 DEF push_chain
<1>9. Append(<<>>, Genesis) = <<Genesis>> /\ <<Genesis>> \in Seq(Block)
  BY TreeAssumption
<1>10. /\ db' \in DB /\ db'.blocks = {Genesis} /\ db'.headers = {Genesis}
       /\ db'.chain = <<Genesis>> /\ db'.children = s.children
       /\ db'.tips = s.tips
  BY <1>6, <1>8, <1>9 DEF DB
<1>11. DbOK(db)'
  BY <1>1, <1>5, <1>7, <1>10, TreeAssumption DEF DbOK, ChainStored, Linked
<1>12. Heavy(db)'
  BY <1>10, TreeAssumption DEF Heavy, LastOf
<1>13. m_header_tip_window' = <<Genesis>>
  BY <1>1, <1>5, <1>9, BoundAssumption DEF push_chain, Trimmed
<1>14. /\ m_tip_bid' = Genesis /\ m_tip_height' = 0
       /\ m_tip_cumulative_difficulty' = CumDiff[Genesis]
  BY <1>1, <1>5 DEF push_chain
<1>15. MemType'
  BY <1>9, <1>13, <1>14, TreeAssumption DEF MemType
<1>16. TipOK'
  BY <1>10, <1>13, <1>14, BoundAssumption DEF TipOK
<1>17. ReplyTellsTip'
  BY <1>5, <1>14 DEF ReplyTellsTip
<1> QED BY <1>5, <1>10, <1>11, <1>12, <1>15, <1>16, <1>17, TreeAssumption,
           ReturnStep

\* A handler that leaves the database, the memory and the phase alone.
LEMMA RefuseStep ==
  ASSUME IndInv, pc = "idle", db' = db, NEW action \in {"NOTHING", "BAN"},
         add_block_refuses(action), entry' = m_tip_bid, invalid' = invalid /\ fatal' = fatal
  PROVE  IndInv'
<1>1. /\ disk' = disk /\ m_tip_bid' = m_tip_bid /\ m_tip_height' = m_tip_height
      /\ m_tip_cumulative_difficulty' = m_tip_cumulative_difficulty
      /\ m_header_tip_window' = m_header_tip_window
      /\ pc' = "idle" /\ reorg' = reorg /\ reply' = action
  BY DEF add_block_refuses, mem
<1>2. m_tip_bid \in Block
  <2>1. TipOK /\ db \in DB
    BY DEF IndInv, TypeOK, TipMatchesChain
  <2>2. db.chain \in Seq(Block)
    BY <2>1 DEF DB
  <2>3. Len(db.chain) \in 1..Len(db.chain) /\ m_tip_bid = db.chain[Len(db.chain)]
    BY <2>1, <2>2 DEF TipOK
  <2> QED BY <2>2, <2>3
<1>3. TypeOK'
  BY <1>1, <1>2 DEF IndInv, TypeOK
<1>4. TipOK'
  BY <1>1 DEF IndInv, TipMatchesChain, TipOK
<1>5. DbOK(db)' /\ DbOK(disk)' /\ Heavy(db)' /\ Heavy(disk)'
  BY <1>1 DEF IndInv, IdleOK, DbOK, Heavy, ChainStored
<1> QED BY <1>1, <1>2, <1>3, <1>4, <1>5 DEF IndInv, OnlyLedgerThrows,
          TipMatchesChain, DownOK, WalkOK, InReorg, IdleOK, ReplyTellsTip

\* What an accepted block meets: its checks hold and storing it is safe.
LEMMA OfferedFacts ==
  ASSUME IndInv, NEW b \in Block, Offered(b)
  PROVE  /\ b \notin db.headers /\ b # Genesis /\ Parent[b] \in db.headers
         /\ StoreOk(db, b)
         /\ StoredBlock(db, b) \in DB /\ DbOK(StoredBlock(db, b))
         /\ StoredBlock(db, b).headers = db.headers \cup {b}
         /\ StoredBlock(db, b).chain = db.chain
         /\ db \in DB /\ db.chain # <<>> /\ MemType /\ TipOK /\ Heavy(db)
         /\ m_tip_bid = LastOf(db.chain) /\ m_tip_bid \in Block
         /\ m_tip_bid \in db.headers
         /\ m_tip_cumulative_difficulty = CumDiff[m_tip_bid]
<1>1. db \in DB /\ DbOK(db) /\ MemType /\ TipOK /\ Heavy(db)
  BY DEF IndInv, TypeOK, MemType, TipMatchesChain, IdleOK, Offered
<1>2. /\ db.chain # <<>> /\ db.chain \in Seq(Block) /\ Len(db.chain) \in Nat
      /\ m_tip_bid = LastOf(db.chain) /\ Len(db.chain) > 0
      /\ m_tip_cumulative_difficulty = CumDiff[m_tip_bid]
  BY <1>1, EmptySeq DEF TipOK, DB, LastOf
<1>3. /\ db.chain[1] = Genesis /\ Genesis \in db.headers
      /\ m_tip_bid \in Block /\ m_tip_bid \in db.headers
  <2>1. ChainStored(db)
    BY <1>1 DEF DbOK
  <2>2. /\ db.chain[1] = Genesis
        /\ \A i \in 1..Len(db.chain) : db.chain[i] \in db.headers
    BY <2>1, <1>2 DEF ChainStored, Linked
  <2>3. 1 \in 1..Len(db.chain) /\ Len(db.chain) \in 1..Len(db.chain)
    BY <1>2
  <2>4. m_tip_bid = db.chain[Len(db.chain)]
    BY <1>2 DEF LastOf
  <2>5. m_tip_bid \in db.headers /\ Genesis \in db.headers
    BY <2>2, <2>3, <2>4
  <2>6. db.headers \subseteq Block
    BY <1>1 DEF DB
  <2> QED BY <2>2, <2>5, <2>6
<1>4. b \notin db.headers
  BY <1>1 DEF Offered, read_header, has_block, DbOK
<1>5. b # Genesis /\ Parent[b] \in db.headers
  BY <1>3, <1>4 DEF Offered, read_header
<1>6. StoreOk(db, b)
  BY <1>1, <1>4, StoreOkHolds
<1>7. /\ StoredBlock(db, b) \in DB
      /\ StoredBlock(db, b).headers = db.headers \cup {b}
      /\ StoredBlock(db, b).chain = db.chain
  BY <1>1, StoredFacts
<1>8. DbOK(StoredBlock(db, b))
  BY <1>1, <1>2, <1>4, <1>5, StoredDbOK
<1> QED BY <1>1, <1>2, <1>3, <1>4, <1>5, <1>6, <1>7, <1>8

\* add_block of a side block.
LEMMA AddSideStep ==
  ASSUME IndInv, NEW b \in Block, Offered(b), AddSide(b), invalid' = invalid /\ fatal' = fatal
  PROVE  IndInv'
<1>1. /\ db' = StoredBlock(db, b) /\ UNCHANGED mem /\ add_block_returns(b)
      /\ entry' = m_tip_bid /\ CumDiff[b] <= m_tip_cumulative_difficulty
  BY DEF AddSide
<1>2. db' \in DB /\ db'.headers = db.headers \cup {b} /\ db'.chain = db.chain
  BY <1>1, OfferedFacts
<1>3. DbOK(db')
  BY <1>1, OfferedFacts
<1>4. DbOK(db)'
  BY <1>3 DEF DbOK, ChainStored
<1>5. /\ Heavy(db) /\ m_tip_bid = LastOf(db.chain) /\ m_tip_bid \in Block
      /\ m_tip_cumulative_difficulty = CumDiff[m_tip_bid] /\ MemType /\ TipOK
  BY OfferedFacts
<1>6. Heavy(db)'
  BY <1>1, <1>2, <1>5 DEF Heavy
<1>7. MemType' /\ TipOK'
  BY <1>1, <1>2, <1>5 DEF MemType, TipOK, mem
<1>8. ReplyTellsTip'
  BY <1>1 DEF ReplyTellsTip, mem
<1>9. entry' \in Block
  BY <1>1, <1>5
<1> QED BY <1>1, <1>2, <1>4, <1>6, <1>7, <1>8, <1>9, ReturnStep

\* An exception of redo_block keeps the tip where it was.
LEMMA AbortStep ==
  ASSUME IndInv, pc \notin {"down", "exited"}, Abort,
         NEW b \in fatal, Parent[b] = m_tip_bid, invalid' = invalid /\ fatal' = fatal
  PROVE  IndInv'
<1>1. /\ db' = db /\ disk' = disk /\ m_tip_bid' = m_tip_bid
      /\ m_tip_height' = m_tip_height
      /\ m_tip_cumulative_difficulty' = m_tip_cumulative_difficulty
      /\ m_header_tip_window' = m_header_tip_window
      /\ pc' = "aborted" /\ reorg' = reorg /\ reply' = reply /\ entry' = entry
  BY DEF Abort, mem
<1>2. TypeOK'
  BY <1>1 DEF IndInv, TypeOK, Pcs
<1>3. TipOK' /\ entry' \in Block
  BY <1>1 DEF IndInv, TipMatchesChain, TipOK, IdleOK
<1>4. DbOK(db)' /\ DbOK(disk)' /\ Heavy(disk)'
  BY <1>1 DEF IndInv, DbOK, Heavy, ChainStored
<1>5. OnlyLedgerThrows'
  BY <1>1 DEF OnlyLedgerThrows
<1> QED BY <1>1, <1>2, <1>3, <1>4, <1>5 DEF IndInv, TipMatchesChain, DownOK,
          WalkOK, InReorg, IdleOK, ReplyTellsTip

\* add_block of a child of the tip, accepted, rejected or not applied.
LEMMA AddExtendingStep ==
  ASSUME IndInv, NEW b \in Block, Offered(b), AddExtending(b),
         invalid' = invalid /\ fatal' = fatal
  PROVE  IndInv'
<1> DEFINE s == StoredBlock(db, b)
<1>1. /\ CumDiff[b] > m_tip_cumulative_difficulty /\ Parent[b] = m_tip_bid
  BY DEF AddExtending
<1>2. /\ s \in DB /\ DbOK(s) /\ s.headers = db.headers \cup {b}
      /\ s.chain = db.chain /\ b # Genesis /\ MemType /\ TipOK /\ Heavy(db)
      /\ m_tip_bid = LastOf(db.chain) /\ m_tip_bid \in Block
      /\ m_tip_cumulative_difficulty = CumDiff[m_tip_bid]
      /\ db.headers \subseteq Block
  BY OfferedFacts DEF DB
<1>3. PushOk(db)
  BY <1>2 DEF PushOk, TipOK
<1> HIDE DEF s
<1>4. CASE redo_block(b) = "refuses"
  <2>0. b \in invalid
    BY <1>4 DEF redo_block
  <2>1. db' = s /\ add_block_refuses("BAN") /\ entry' = m_tip_bid
    BY <1>4 DEF AddExtending, s
  <2>2. /\ disk' = disk /\ m_tip_bid' = m_tip_bid
        /\ m_tip_height' = m_tip_height
        /\ m_tip_cumulative_difficulty' = m_tip_cumulative_difficulty
        /\ m_header_tip_window' = m_header_tip_window
        /\ pc' = "idle" /\ reorg' = reorg /\ reply' = "BAN"
    BY <2>1 DEF add_block_refuses, mem, Offered
  <2>3. TypeOK'
    BY <1>2, <2>1, <2>2 DEF IndInv, TypeOK, Pcs
  <2>4. TipOK'
    BY <1>2, <2>1, <2>2 DEF TipOK
  <2>5. DbOK(db)' /\ DbOK(disk)' /\ Heavy(disk)'
    BY <1>2, <2>1, <2>2 DEF IndInv, DbOK, Heavy, ChainStored
  <2>6. Heavy(db)'
    BY <1>2, <2>0, <2>1 DEF Heavy
  <2> QED BY <1>2, <2>1, <2>2, <2>3, <2>4, <2>5, <2>6 DEF IndInv, OnlyLedgerThrows,
            TipMatchesChain, DownOK, WalkOK, InReorg, IdleOK, ReplyTellsTip
<1>5. CASE b \notin invalid
  <2>1. push_chain(s, b) /\ add_block_returns(b) /\ entry' = m_tip_bid
    BY <1>3, <1>5 DEF AddExtending, redo_block, s
  <2>2. /\ db' \in DB /\ DbOK(db)' /\ db'.headers = s.headers
        /\ LastOf(db'.chain) = b /\ MemType' /\ TipOK'
    <3>1. b \in s.headers
      BY <1>2
    <3> QED BY <1>1, <1>2, <1>5, <2>1, <3>1, PushStep
  <2>3. m_tip_bid' = b /\ m_tip_cumulative_difficulty' = CumDiff[b]
    BY <2>1 DEF push_chain
  <2>4. Heavy(db)'
    <3> SUFFICES ASSUME db'.headers \cap invalid' = {}, NEW c \in db'.headers
                 PROVE  CumDiff[c] <= CumDiff[b]
      BY <2>2 DEF Heavy
    <3>1. CASE c = b
      BY <3>1, TreeAssumption
    <3>2. CASE c # b
      <4>1. c \in db.headers /\ c \in Block /\ db.headers \cap invalid = {}
        BY <3>2, <1>2, <2>2
      <4>2. db.chain # <<>>
        BY OfferedFacts
      <4>3. CumDiff[c] <= CumDiff[m_tip_bid]
        BY <4>1, <4>2, <1>2 DEF Heavy
      <4> QED BY <4>1, <4>3, <1>1, <1>2, TreeAssumption
    <3> QED BY <3>1, <3>2
  <2>5. ReplyTellsTip'
    <3>1. reply' = "BROADCAST_ALL"
      BY <2>1, <2>3 DEF add_block_returns
    <3>2. CumDiff[entry'] < m_tip_cumulative_difficulty'
      BY <1>1, <1>2, <2>1, <2>3, TreeAssumption
    <3> QED BY <3>1, <3>2 DEF ReplyTellsTip
  <2>6. entry' \in Block
    BY <2>1, <1>2
  <2> QED BY <2>1, <2>2, <2>4, <2>5, <2>6, ReturnStep
<1>6. CASE redo_block(b) = "throws"
  <2>1. Abort /\ b \in fatal
    BY <1>6 DEF AddExtending, redo_block
  <2>2. pc = "idle"
    BY DEF Offered
  <2> QED BY <1>1, <2>1, <2>2, AbortStep
<1> QED BY <1>4, <1>5, <1>6 DEF redo_block

\* add_block that enters reorganize_blocks.
LEMMA AddForkingStep ==
  ASSUME IndInv, NEW b \in Block, Offered(b), AddForking(b), invalid' = invalid /\ fatal' = fatal
  PROVE  IndInv'
<1> DEFINE s == StoredBlock(db, b)
           n == Len(db.chain)
<1>1. /\ CumDiff[b] > m_tip_cumulative_difficulty
      /\ db' = s /\ pc' = "common" /\ entry' = m_tip_bid
      /\ reorg' = [recent |-> b, hid1 |-> m_tip_bid, hid2 |-> b,
                   chain2 |-> <<>>]
      /\ disk' = disk /\ m_tip_bid' = m_tip_bid /\ m_tip_height' = m_tip_height
      /\ m_tip_cumulative_difficulty' = m_tip_cumulative_difficulty
      /\ m_header_tip_window' = m_header_tip_window /\ reply' = reply
  BY DEF AddForking, mem
<1>2. /\ s \in DB /\ DbOK(s) /\ s.headers = db.headers \cup {b}
      /\ s.chain = db.chain /\ b # Genesis /\ MemType /\ TipOK /\ Heavy(db)
      /\ m_tip_bid = LastOf(db.chain) /\ m_tip_bid \in Block
      /\ m_tip_bid \in db.headers /\ db.chain # <<>>
      /\ m_tip_cumulative_difficulty = CumDiff[m_tip_bid]
      /\ db.headers \subseteq Block
  BY OfferedFacts DEF DB
<1> HIDE DEF s
<1>3. /\ n \in Nat /\ n > 0 /\ m_tip_bid = db.chain[n]
      /\ Height[m_tip_bid] = n - 1
  <2>1. DbOK(db) /\ n \in Nat /\ n > 0 /\ m_tip_bid = db.chain[n]
    BY <1>2 DEF TipOK, IndInv, TypeOK, DB
  <2> HIDE DEF n
  <2>2. n \in 1..n
    BY <2>1
  <2> QED BY <2>1, <2>2 DEF DbOK, n
<1> HIDE DEF n
<1>4. /\ reorg'.recent = b /\ reorg'.hid1 = m_tip_bid /\ reorg'.hid2 = b
      /\ reorg'.chain2 = <<>> /\ Len(reorg'.chain2) = 0
  BY <1>1
<1>5. TypeOK'
  BY <1>1, <1>2 DEF IndInv, TypeOK, Pcs
<1>6. TipOK'
  BY <1>1, <1>2 DEF TipOK
<1>7. DbOK(db)' /\ DbOK(disk)' /\ Heavy(disk)'
  BY <1>1, <1>2 DEF IndInv, DbOK, Heavy, ChainStored
<1>8. \A c \in db'.headers :
        db'.headers \cap invalid' = {} => CumDiff[c] <= CumDiff[b]
  <2> SUFFICES ASSUME NEW c \in db'.headers, db'.headers \cap invalid' = {}
               PROVE  CumDiff[c] <= CumDiff[b]
    OBVIOUS
  <2>1. CASE c = b
    BY <2>1, TreeAssumption
  <2>2. CASE c # b
    <3>1. c \in db.headers /\ c \in Block /\ db.headers \cap invalid = {}
      BY <2>2, <1>1, <1>2
    <3>2. CumDiff[c] <= CumDiff[m_tip_bid]
      BY <3>1, <1>2 DEF Heavy
    <3> QED BY <3>1, <3>2, <1>1, <1>2, TreeAssumption
  <2> QED BY <2>1, <2>2
<1>9. WalkOK'
  <2>1. /\ b \in db'.headers /\ CumDiff[b] > CumDiff[entry']
        /\ m_tip_bid \in db'.headers
    BY <1>1, <1>2
  <2>2. /\ Len(db'.chain) = n /\ db'.chain = db.chain
        /\ Height[m_tip_bid] < n /\ Height[m_tip_bid] + 1 = n
        /\ Height[m_tip_bid] = n - 1
    BY <1>1, <1>2, <1>3 DEF n
  <2> QED BY <1>1, <1>3, <1>4, <1>8, <2>1, <2>2 DEF WalkOK, InReorg
<1> QED BY <1>1, <1>2, <1>5, <1>6, <1>7, <1>9 DEF IndInv, OnlyLedgerThrows,
          TipMatchesChain, DownOK, IdleOK, ReplyTellsTip

\* Every way through add_block up to its return or to reorganize_blocks.
LEMMA AddBlockStep ==
  ASSUME IndInv, NEW b \in Block, add_block(b)
  PROVE  IndInv'
<1>1. CASE AddIgnored(b)
  BY <1>1, RefuseStep DEF AddIgnored
<1>2. CASE AddRefused(b)
  BY <1>2, RefuseStep DEF AddRefused, Offered
<1>3. CASE AddAccepted(b)
  <2>1. Offered(b) /\ StoreOk(db, b) /\ invalid' = invalid /\ fatal' = fatal
    BY <1>3, OfferedFacts DEF AddAccepted
  <2>2. AddSide(b) \/ AddExtending(b) \/ AddForking(b)
    BY <1>3, <2>1 DEF AddAccepted
  <2> QED BY <2>1, <2>2, AddSideStep, AddExtendingStep, AddForkingStep
<1> QED BY <1>1, <1>2, <1>3 DEF add_block

-------------------------------------------------------------------------------
\* WalkOK and the context of a reorganization, unfolded once.
LEMMA WalkFacts ==
  ASSUME IndInv, InReorg
  PROVE  /\ db \in DB /\ DbOK(db) /\ MemType /\ TipOK /\ entry \in Block
         /\ db.headers \subseteq Block /\ db.blocks = db.headers
         /\ db.chain \in Seq(Block) /\ Len(db.chain) \in Nat
         /\ Len(db.chain) > 0 /\ m_tip_bid = db.chain[Len(db.chain)]
         /\ m_tip_bid \in Block
         /\ m_tip_height = Len(db.chain) - 1
         /\ m_tip_cumulative_difficulty = CumDiff[m_tip_bid]
         /\ reorg.recent \in db.headers /\ reorg.recent \in Block
         /\ CumDiff[reorg.recent] > CumDiff[entry]
         /\ reorg.chain2 \in Seq(Block) /\ Len(reorg.chain2) \in Nat
         /\ \A i \in 1..Len(reorg.chain2) :
              reorg.chain2[i] \in db.headers \ {Genesis}
         /\ \A i \in 2..Len(reorg.chain2) :
              Parent[reorg.chain2[i-1]] = reorg.chain2[i]
         /\ Len(reorg.chain2) > 0 => reorg.chain2[1] = reorg.recent
         /\ db.headers \cap invalid = {} =>
              \A b \in db.headers : CumDiff[b] <= CumDiff[reorg.recent]
<1>1. /\ db \in DB /\ DbOK(db) /\ MemType /\ TipOK /\ entry \in Block
      /\ reorg.chain2 \in Seq(Block)
  BY DEF IndInv, TypeOK, MemType, TipMatchesChain, IdleOK, InReorg
<1>2. /\ db.headers \subseteq Block /\ db.blocks = db.headers
      /\ db.chain \in Seq(Block) /\ Len(db.chain) \in Nat
      /\ Len(db.chain) > 0 /\ m_tip_bid = db.chain[Len(db.chain)]
      /\ m_tip_height = Len(db.chain) - 1
      /\ m_tip_cumulative_difficulty = CumDiff[m_tip_bid]
  <2>1. db.headers \subseteq Block /\ db.chain \in Seq(Block)
    BY <1>1 DEF DB
  <2>2. db.blocks = db.headers
    BY <1>1 DEF DbOK
  <2> QED BY <2>1, <2>2, <1>1 DEF TipOK
<1>3. m_tip_bid \in Block
  BY <1>2
<1>4. Len(reorg.chain2) \in Nat
  BY <1>1
<1> QED BY <1>1, <1>2, <1>3, <1>4 DEF IndInv, WalkOK

\* One turn of the loops of get_common_block.
LEMMA CommonStep == IndInv /\ get_common_block => IndInv'
<1> SUFFICES ASSUME IndInv, get_common_block PROVE IndInv'
  OBVIOUS
<1> DEFINE h1 == reorg.hid1
           h2 == reorg.hid2
           c2 == reorg.chain2
           n == Len(db.chain)
           g1 == IF Step1 THEN Parent[h1] ELSE h1
           g2 == IF Step2 THEN Parent[h2] ELSE h2
           e2 == IF Step2 THEN Append(c2, h2) ELSE c2
<1>1. pc = "common" /\ h1 # h2 /\ InReorg /\ invalid' = invalid /\ fatal' = fatal
  BY DEF get_common_block, InReorg
<1>2. /\ db \in DB /\ DbOK(db) /\ MemType /\ TipOK
      /\ db.headers \subseteq Block /\ n \in Nat /\ db.chain \in Seq(Block)
      /\ c2 \in Seq(Block) /\ Len(c2) \in Nat
      /\ \A i \in 1..Len(c2) : c2[i] \in db.headers \ {Genesis}
      /\ \A i \in 2..Len(c2) : Parent[c2[i-1]] = c2[i]
      /\ Len(c2) > 0 => c2[1] = reorg.recent
  BY <1>1, WalkFacts
<1>3. /\ h1 \in db.headers /\ h2 \in db.headers
      /\ Height[h1] < n /\ db.chain[Height[h1] + 1] = h1
      /\ Len(c2) = 0 => h2 = reorg.recent
      /\ Len(c2) > 0 => Parent[c2[Len(c2)]] = h2
      /\ \A i \in 1..Len(c2), j \in 1..n : c2[i] # db.chain[j]
      /\ Height[h2] > Height[h1] => Height[h1] = n - 1
  BY <1>1 DEF IndInv, WalkOK
<1>4. h1 \in Block /\ h2 \in Block /\ Height[h1] \in Nat /\ Height[h2] \in Nat
  BY <1>2, <1>3, TreeAssumption
<1>5. /\ \A b \in db.headers \ {Genesis} : Parent[b] \in db.headers
      /\ \A i \in 1..n : Height[db.chain[i]] = i - 1
      /\ \A i \in 2..n : db.chain[i] # Genesis /\ Parent[db.chain[i]] = db.chain[i-1]
  BY <1>2 DEF DbOK, ChainStored, Linked
<1> HIDE DEF n
<1>6. Step1 => h1 # Genesis
  BY <1>1, <1>4, TreeAssumption DEF Step1
<1>7. Step2 => h2 # Genesis
  <2>1. h1 # Genesis => Height[h1] > 0
    BY <1>4, TreeAssumption
  <2> QED BY <2>1, <1>1, <1>4, TreeAssumption DEF Step2
<1>8. g1 \in db.headers /\ g2 \in db.headers
  BY <1>3, <1>5, <1>6, <1>7
<1>9. /\ reorg' = [reorg EXCEPT !.hid1 = g1, !.hid2 = g2, !.chain2 = e2]
      /\ UNCHANGED <<db, disk, mem, pc, reply, entry>>
  BY <1>8 DEF get_common_block, read_header
<1> HIDE DEF g1, g2, e2
<1>10. /\ e2 \in Seq(Block) /\ g1 \in Block /\ g2 \in Block
  BY <1>2, <1>4, <1>8, AppendFacts DEF e2
<1>11. /\ reorg'.recent = reorg.recent /\ reorg'.hid1 = g1
       /\ reorg'.hid2 = g2 /\ reorg'.chain2 = e2
  BY <1>9 DEF IndInv, TypeOK
<1>12. TypeOK'
  BY <1>1, <1>9, <1>10 DEF IndInv, TypeOK, mem
<1>13. TipOK' /\ DbOK(db)' /\ DbOK(disk)' /\ Heavy(disk)'
  BY <1>1, <1>2, <1>9 DEF IndInv, TipOK, DbOK, Heavy, ChainStored, mem
<1>14. Height[g1] < n /\ db.chain[Height[g1] + 1] = g1
  <2>1. CASE Step1
    <3>1. g1 = Parent[h1] /\ Height[h1] = Height[g1] + 1 /\ Height[g1] \in Nat
      BY <2>1, <1>4, <1>6, <1>10, TreeAssumption DEF g1
    <3>2. Height[h1] + 1 \in 2..n
      BY <3>1, <1>2, <1>3, <1>4
    <3>3. Parent[db.chain[Height[h1] + 1]] = db.chain[(Height[h1] + 1) - 1]
      BY <3>2, <1>5
    <3>4. (Height[h1] + 1) - 1 = Height[g1] + 1
      BY <3>1
    <3> QED BY <3>1, <3>2, <3>3, <3>4, <1>2, <1>3
  <2>2. CASE ~Step1
    BY <2>2, <1>3 DEF g1
  <2> QED BY <2>1, <2>2
<1>15. Height[g2] > Height[g1] => Height[g1] = n - 1
  <2>1. /\ Step1 => Height[h1] = Height[g1] + 1
        /\ Step2 => Height[h2] = Height[g2] + 1
        /\ ~Step1 => g1 = h1
        /\ ~Step2 => g2 = h2
        /\ Height[g1] \in Nat /\ Height[g2] \in Nat
    BY <1>4, <1>6, <1>7, <1>10, TreeAssumption DEF g1, g2
  <2>2. Height[h2] > Height[h1] => Height[h1] = n - 1
    BY <1>3
  <2> QED BY <2>1, <2>2, <1>4 DEF Step1, Step2
<1>16. CASE Step2
  <2>1. /\ g2 = Parent[h2] /\ e2 = Append(c2, h2) /\ h2 # Genesis
    BY <1>7, <1>16 DEF g2, e2
  <2>2. /\ Len(e2) = Len(c2) + 1 /\ e2[Len(c2) + 1] = h2
        /\ \A i \in 1..Len(c2) : e2[i] = c2[i]
    BY <2>1, <1>2, <1>4, AppendFacts
  <2>3. \A i \in 1..Len(e2) : i \in 1..Len(c2) \/ i = Len(c2) + 1
    BY <2>2, <1>2
  <2>4. \A i \in 1..Len(e2) : e2[i] \in db.headers \ {Genesis}
    BY <2>1, <2>2, <2>3, <1>2, <1>3
  <2>5. ASSUME NEW i \in 2..Len(e2)  PROVE Parent[e2[i-1]] = e2[i]
    <3>1. CASE i = Len(c2) + 1
      <4>1. Len(c2) > 0 /\ i - 1 = Len(c2) /\ Len(c2) \in 1..Len(c2)
        BY <3>1, <1>2, <2>2
      <4> QED BY <4>1, <3>1, <2>2, <1>3
    <3>2. CASE i # Len(c2) + 1
      <4>1. i \in 2..Len(c2) /\ i \in 1..Len(c2) /\ i - 1 \in 1..Len(c2)
        BY <3>2, <1>2, <2>2
      <4> QED BY <4>1, <2>2, <1>2
    <3> QED BY <3>1, <3>2
  <2>6. e2[1] = reorg.recent
    <3>1. CASE Len(c2) = 0
      BY <3>1, <2>2, <1>3
    <3>2. CASE Len(c2) # 0
      <4>1. Len(c2) > 0 /\ 1 \in 1..Len(c2)
        BY <3>2, <1>2
      <4> QED BY <4>1, <2>2, <1>2
    <3> QED BY <3>1, <3>2
  <2>7. \A j \in 1..n : h2 # db.chain[j]
    <3> SUFFICES ASSUME NEW j \in 1..n, h2 = db.chain[j] PROVE FALSE
      OBVIOUS
    <3>1. Height[h2] = j - 1
      BY <1>5
    <3>2. CASE Height[h2] > Height[h1]
      BY <3>1, <3>2, <1>2, <1>3, <1>4
    <3>3. CASE ~(Height[h2] > Height[h1])
      <4>1. Height[h2] = Height[h1]
        BY <3>3, <1>4, <1>16 DEF Step2
      <4>2. j = Height[h1] + 1
        BY <4>1, <3>1, <1>2, <1>4
      <4> QED BY <4>2, <1>1, <1>3
    <3> QED BY <3>2, <3>3
  <2>8. \A i \in 1..Len(e2), j \in 1..n : e2[i] # db.chain[j]
    BY <2>2, <2>3, <2>7, <1>3
  <2>9. Parent[e2[Len(e2)]] = g2 /\ Len(e2) > 0
    BY <2>1, <2>2, <1>2
  <2>10. WalkOK'
    BY <1>1, <1>8, <1>9, <1>11, <1>14, <1>15, <2>4, <2>5, <2>6, <2>8, <2>9
       DEF IndInv, WalkOK, InReorg, n
  <2> QED BY <2>10, <1>1, <1>9, <1>12, <1>13 DEF IndInv, OnlyLedgerThrows,
        TipMatchesChain, DownOK, IdleOK, ReplyTellsTip, InReorg
<1>17. CASE ~Step2
  <2>1. g2 = h2 /\ e2 = c2
    BY <1>17 DEF g2, e2
  <2>2. WalkOK'
    BY <1>1, <1>2, <1>3, <1>8, <1>9, <1>11, <1>14, <1>15, <2>1
       DEF IndInv, WalkOK, InReorg, n
  <2> QED BY <2>2, <1>1, <1>9, <1>12, <1>13 DEF IndInv, OnlyLedgerThrows,
        TipMatchesChain, DownOK, IdleOK, ReplyTellsTip, InReorg
<1> QED BY <1>16, <1>17

\* Every block of the new branch is stored: the undo loop begins.
LEMMA CommonFoundStep == IndInv /\ CommonFound => IndInv'
<1> SUFFICES ASSUME IndInv, CommonFound PROVE IndInv'
  OBVIOUS
<1>1. /\ pc = "common" /\ InReorg /\ reorg.hid1 = reorg.hid2
      /\ UNCHANGED <<db, mem, entry, invalid, fatal>>
  BY DEF CommonFound, InReorg
<1>2. \A i \in 1..Len(reorg.chain2) : has_block(db, reorg.chain2[i])
  BY <1>1, WalkFacts DEF has_block
<1>3. pc' = "undo" /\ UNCHANGED <<disk, reorg, reply>>
  BY <1>2 DEF CommonFound
<1>4. TypeOK'
  BY <1>1, <1>3 DEF IndInv, TypeOK, mem, Pcs
<1>5. TipOK' /\ DbOK(db)' /\ DbOK(disk)' /\ Heavy(disk)'
  BY <1>1, <1>3, WalkFacts DEF IndInv, TipOK, DbOK, Heavy, ChainStored, mem
<1>6. WalkOK'
  BY <1>1, <1>3 DEF IndInv, WalkOK, InReorg, mem
<1>7. entry' \in Block
  BY <1>1, WalkFacts
<1> QED BY <1>3, <1>4, <1>5, <1>6, <1>7 DEF IndInv, OnlyLedgerThrows,
          TipMatchesChain, DownOK, IdleOK, ReplyTellsTip

\* One turn of the undo loop: there is always a block to pop.
LEMMA UndoStep == IndInv /\ Undo => IndInv'
<1> SUFFICES ASSUME IndInv, Undo PROVE IndInv'
  OBVIOUS
<1> DEFINE h1 == reorg.hid1
           c2 == reorg.chain2
           n == Len(db.chain)
<1>1. pc = "undo" /\ InReorg /\ m_tip_bid # h1 /\ invalid' = invalid /\ fatal' = fatal
  BY DEF Undo, InReorg
<1>2. /\ db \in DB /\ DbOK(db) /\ MemType /\ TipOK /\ entry \in Block
      /\ n \in Nat /\ n > 0 /\ m_tip_bid = db.chain[n]
      /\ db.headers \subseteq Block
  BY <1>1, WalkFacts
<1>3. /\ h1 \in db.headers /\ h1 = reorg.hid2
      /\ Height[h1] < n /\ db.chain[Height[h1] + 1] = h1
      /\ \A i \in 1..Len(c2), j \in 1..n : c2[i] # db.chain[j]
  BY <1>1 DEF IndInv, WalkOK
<1>4. Height[h1] \in Nat /\ Height[h1] + 1 # n
  BY <1>1, <1>2, <1>3, TreeAssumption
<1>5. n > 1
  BY <1>2, <1>3, <1>4
<1>6. has_block(db, m_tip_bid) /\ PopOk(Parent[m_tip_bid])
  BY <1>2, <1>5, PopStep
<1>7. /\ pop_chain(Parent[m_tip_bid])
      /\ UNCHANGED <<disk, pc, reorg, reply, entry>>
  BY <1>6 DEF Undo
<1>8. /\ db' \in DB /\ DbOK(db)' /\ db'.headers = db.headers
      /\ Len(db'.chain) = n - 1
      /\ \A i \in 1..Len(db'.chain) : db'.chain[i] = db.chain[i]
      /\ MemType' /\ TipOK'
  BY <1>1, <1>2, <1>5, <1>7, PopStep
<1> HIDE DEF n
<1>9. TypeOK'
  BY <1>1, <1>7, <1>8 DEF IndInv, TypeOK, MemType
<1>10. DbOK(disk)' /\ Heavy(disk)'
  BY <1>1, <1>7 DEF IndInv, DbOK, Heavy, ChainStored
<1>11. WalkOK'
  <2>1. /\ Height[h1] < Len(db'.chain)
        /\ db'.chain[Height[h1] + 1] = h1
        /\ \A i \in 1..Len(c2), j \in 1..Len(db'.chain) : c2[i] # db'.chain[j]
    <3>1. Height[h1] < Len(db'.chain) /\ Height[h1] + 1 \in 1..Len(db'.chain)
      BY <1>2, <1>3, <1>4, <1>8
    <3>2. db'.chain[Height[h1] + 1] = h1
      BY <3>1, <1>3, <1>8
    <3>3. ASSUME NEW i \in 1..Len(c2), NEW j \in 1..Len(db'.chain)
          PROVE  c2[i] # db'.chain[j]
      <4>1. j \in 1..n
        BY <1>2, <1>8
      <4> QED BY <4>1, <1>3, <1>8
    <3> QED BY <3>1, <3>2, <3>3
  <2> QED BY <2>1, <1>1, <1>7, <1>8 DEF IndInv, WalkOK, InReorg
<1> QED BY <1>1, <1>2, <1>7, <1>8, <1>9, <1>10, <1>11 DEF IndInv, OnlyLedgerThrows,
          TipMatchesChain, DownOK, IdleOK, ReplyTellsTip

\* The undo loop ends on the common block, below the last of chain2.
LEMMA UndoDoneStep == IndInv /\ UndoDone => IndInv'
<1> SUFFICES ASSUME IndInv, UndoDone PROVE IndInv'
  OBVIOUS
<1>1. /\ pc = "undo" /\ InReorg /\ m_tip_bid = reorg.hid1 /\ pc' = "redo"
      /\ UNCHANGED <<db, disk, mem, reorg, reply, entry, invalid, fatal>>
  BY DEF UndoDone, InReorg
<1>2. TypeOK'
  BY <1>1 DEF IndInv, TypeOK, mem, Pcs
<1>3. TipOK' /\ DbOK(db)' /\ DbOK(disk)' /\ Heavy(disk)'
  BY <1>1, WalkFacts DEF IndInv, TipOK, DbOK, Heavy, ChainStored, mem
<1>4. WalkOK'
  BY <1>1 DEF IndInv, WalkOK, InReorg, mem
<1>5. entry' \in Block
  BY <1>1, WalkFacts
<1> QED BY <1>1, <1>2, <1>3, <1>4, <1>5 DEF IndInv, OnlyLedgerThrows,
          TipMatchesChain, DownOK, IdleOK, ReplyTellsTip

\* One turn of the redo loop, with and without a rejected block.
LEMMA RedoStep == IndInv /\ Redo => IndInv'
<1> SUFFICES ASSUME IndInv, Redo PROVE IndInv'
  OBVIOUS
<1> DEFINE c2 == reorg.chain2
           b == LastOf(c2)
           m == Len(c2)
           r == reorg.recent
<1>1. pc = "redo" /\ InReorg /\ c2 # <<>> /\ invalid' = invalid /\ fatal' = fatal
  BY DEF Redo, InReorg
<1>2. /\ db \in DB /\ DbOK(db) /\ MemType /\ TipOK /\ entry \in Block
      /\ db.headers \subseteq Block /\ db.blocks = db.headers
      /\ Len(db.chain) = m_tip_height + 1
      /\ m_tip_bid = db.chain[Len(db.chain)]
      /\ m_tip_cumulative_difficulty = CumDiff[m_tip_bid]
      /\ r \in db.headers /\ r \in Block /\ CumDiff[r] > CumDiff[entry]
      /\ c2 \in Seq(Block) /\ m \in Nat
      /\ \A i \in 1..m : c2[i] \in db.headers \ {Genesis}
      /\ \A i \in 2..m : Parent[c2[i-1]] = c2[i]
      /\ m > 0 => c2[1] = r
  BY <1>1, WalkFacts
<1>3. m > 0
  BY <1>1, <1>2, EmptySeq
<1>4. b \in db.headers /\ b # Genesis /\ Parent[b] = m_tip_bid /\ b = c2[m]
  BY <1>1, <1>2, <1>3 DEF IndInv, WalkOK, LastOf
<1>5. /\ ~(b # r /\ ~has_block(db, b))
      /\ ~(Parent[b] # m_tip_bid \/ ~read_header(db, b))
      /\ PushOk(db)
  BY <1>2, <1>4 DEF has_block, read_header, PushOk
<1>6. CASE redo_block(b) = "refuses"
  <2>0. b \in invalid
    BY <1>6 DEF redo_block
  <2>1. UNCHANGED <<db, mem, entry>> /\ add_block_returns(r)
    BY <1>5, <1>6 DEF Redo
  <2>2. Heavy(db)'
    BY <2>1, <1>1, <1>4, <2>0 DEF Heavy
  <2>3. DbOK(db)' /\ MemType' /\ TipOK'
    BY <2>1, <1>1, <1>2 DEF DbOK, ChainStored, MemType, TipOK, mem
  <2>4. ReplyTellsTip'
    <3>1. CASE m_tip_bid = r
      BY <3>1, <2>1, <1>2, TreeAssumption
         DEF ReplyTellsTip, add_block_returns, mem
    <3>2. CASE m_tip_bid # r
      <4>1. reply' = "NOTHING" /\ m_tip_bid' = m_tip_bid /\ db' = db
        BY <3>2, <2>1 DEF add_block_returns, mem
      <4>2. b \in db'.headers \cap invalid' /\ Parent[b] = m_tip_bid'
        BY <4>1, <1>1, <1>4, <2>0
      <4> HIDE DEF b
      <4> QED BY <4>1, <4>2 DEF ReplyTellsTip
    <3> QED BY <3>1, <3>2
  <2> QED BY <2>1, <2>2, <2>3, <2>4, <1>1, <1>2, ReturnStep
<1>7. CASE b \notin invalid
  <2>1. /\ push_chain(db, b)
        /\ reorg' = [reorg EXCEPT !.chain2 = FrontOf(@)]
        /\ UNCHANGED <<disk, pc, reply, entry>>
    BY <1>5, <1>7 DEF Redo, redo_block
  <2>2. /\ db' \in DB /\ DbOK(db)' /\ db'.headers = db.headers
        /\ MemType' /\ TipOK'
    BY <1>1, <1>2, <1>4, <1>7, <2>1, PushStep
  <2>3. m_tip_bid' = b
    BY <2>1 DEF push_chain
  <2>4. /\ reorg'.recent = r /\ reorg'.chain2 = FrontOf(c2)
        /\ reorg'.hid1 = reorg.hid1 /\ reorg'.hid2 = reorg.hid2
    BY <2>1 DEF IndInv, TypeOK
  <2>5. /\ FrontOf(c2) \in Seq(Block) /\ Len(FrontOf(c2)) = m - 1
        /\ \A i \in 1..(m - 1) : FrontOf(c2)[i] = c2[i]
    BY <1>1, <1>2, FrontFacts
  <2>6. TypeOK'
    BY <1>1, <2>1, <2>2, <2>5 DEF IndInv, TypeOK, MemType
  <2>7. DbOK(disk)' /\ Heavy(disk)'
    BY <1>1, <2>1 DEF IndInv, DbOK, Heavy, ChainStored
  <2> HIDE DEF m, b, c2
  <2>8. /\ \A i \in 1..(m - 1) : FrontOf(c2)[i] \in db.headers \ {Genesis}
        /\ \A i \in 2..(m - 1) : Parent[FrontOf(c2)[i-1]] = FrontOf(c2)[i]
        /\ m - 1 > 0 => FrontOf(c2)[1] = r
    <3>1. ASSUME NEW i \in 1..(m - 1)
          PROVE  FrontOf(c2)[i] \in db.headers \ {Genesis}
      <4>1. i \in 1..m
        BY <1>2
      <4> QED BY <4>1, <1>2, <2>5
    <3>2. ASSUME NEW i \in 2..(m - 1)
          PROVE  Parent[FrontOf(c2)[i-1]] = FrontOf(c2)[i]
      <4>1. i \in 2..m /\ i \in 1..(m - 1) /\ i - 1 \in 1..(m - 1)
        BY <1>2
      <4> QED BY <4>1, <1>2, <2>5
    <3>3. m - 1 > 0 => FrontOf(c2)[1] = r
      BY <1>2, <1>3, <2>5
    <3> QED BY <3>1, <3>2, <3>3
  <2>9. m - 1 = 0 => b = r
    BY <1>2, <1>3, <1>4
  <2>10. m - 1 > 0 => Parent[FrontOf(c2)[m - 1]] = b
    <3> SUFFICES ASSUME m - 1 > 0 PROVE Parent[FrontOf(c2)[m - 1]] = b
      OBVIOUS
    <3>1. m \in 2..m /\ m - 1 \in 1..(m - 1)
      BY <1>2
    <3>2. Parent[c2[m - 1]] = c2[m]
      BY <3>1, <1>2
    <3> QED BY <3>1, <3>2, <1>4, <2>5
  <2>11. WalkOK'
    <3>1. /\ pc' = "redo" /\ entry' = entry /\ invalid' = invalid /\ fatal' = fatal
          /\ db'.headers = db.headers /\ m_tip_bid' = b
      BY <1>1, <2>1, <2>2, <2>3
    <3>2. /\ r \in db.headers /\ CumDiff[r] > CumDiff[entry]
          /\ db.headers \cap invalid = {} =>
               \A x \in db.headers : CumDiff[x] <= CumDiff[r]
      BY <1>1, <1>2 DEF IndInv, WalkOK
    <3> QED BY <3>1, <3>2, <2>4, <2>5, <2>8, <2>9, <2>10 DEF WalkOK
  <2> QED BY <1>1, <1>2, <2>1, <2>2, <2>6, <2>7, <2>11 DEF IndInv, OnlyLedgerThrows,
            TipMatchesChain, DownOK, IdleOK, ReplyTellsTip
<1>8. CASE redo_block(b) = "throws"
  <2>1. Abort /\ b \in fatal
    BY <1>5, <1>8 DEF Redo, redo_block
  <2> QED BY <1>1, <1>4, <2>1, AbortStep
<1> QED BY <1>6, <1>7, <1>8 DEF redo_block

\* The redo loop ends on the new block.
LEMMA RedoDoneStep == IndInv /\ RedoDone => IndInv'
<1> SUFFICES ASSUME IndInv, RedoDone PROVE IndInv'
  OBVIOUS
<1> DEFINE r == reorg.recent
<1>1. /\ pc = "redo" /\ InReorg /\ reorg.chain2 = <<>>
      /\ UNCHANGED <<db, mem, entry, invalid, fatal>> /\ add_block_returns(r)
  BY DEF RedoDone, InReorg
<1>2. m_tip_bid = r
  BY <1>1 DEF IndInv, WalkOK
<1>3. /\ db \in DB /\ DbOK(db) /\ MemType /\ TipOK /\ entry \in Block
      /\ m_tip_bid = LastOf(db.chain) /\ r \in Block
      /\ m_tip_cumulative_difficulty = CumDiff[m_tip_bid]
      /\ CumDiff[r] > CumDiff[entry]
      /\ db.headers \cap invalid = {} =>
           \A b \in db.headers : CumDiff[b] <= CumDiff[r]
  BY <1>1, WalkFacts DEF LastOf
<1>4. Heavy(db)'
  BY <1>1, <1>2, <1>3 DEF Heavy
<1>5. DbOK(db)' /\ MemType' /\ TipOK'
  BY <1>1, <1>3 DEF DbOK, ChainStored, MemType, TipOK, mem
<1>6. ReplyTellsTip'
  BY <1>1, <1>2, <1>3, TreeAssumption DEF ReplyTellsTip, add_block_returns, mem
<1> QED BY <1>1, <1>3, <1>4, <1>5, <1>6, ReturnStep

-------------------------------------------------------------------------------
\* db_commit makes a state durable that a restart can begin from.
LEMMA CommitStep == IndInv /\ db_commit => IndInv'
<1> SUFFICES ASSUME IndInv, db_commit PROVE IndInv'
  OBVIOUS
<1>1. /\ pc = "idle" /\ disk' = db
      /\ UNCHANGED <<db, mem, pc, reorg, reply, entry, invalid, fatal>>
  BY DEF db_commit
<1>2. TypeOK'
  BY <1>1 DEF IndInv, TypeOK, mem
<1>3. /\ TipOK' /\ DbOK(db)' /\ DbOK(disk)' /\ Heavy(db)' /\ Heavy(disk)'
      /\ entry' \in Block
  BY <1>1 DEF IndInv, TipMatchesChain, TipOK, DbOK, Heavy, ChainStored, IdleOK,
              mem
<1> QED BY <1>1, <1>2, <1>3 DEF IndInv, OnlyLedgerThrows, TipMatchesChain, DownOK,
          WalkOK, InReorg, IdleOK, ReplyTellsTip, mem

\* A crash falls back to the last commit.
LEMMA CrashStep == IndInv /\ Crash => IndInv'
<1> SUFFICES ASSUME IndInv, Crash PROVE IndInv'
  OBVIOUS
<1>1. /\ db' = disk /\ disk' = disk /\ m_tip_height' = -1 /\ pc' = "down"
      /\ m_header_tip_window' = <<>> /\ invalid' = invalid /\ fatal' = fatal
  BY DEF Crash
<1>2. TypeOK'
  BY <1>1 DEF IndInv, TypeOK, Crash, NoReorg, Pcs
<1>3. DbOK(db)' /\ DbOK(disk)' /\ Heavy(disk)'
  BY <1>1 DEF IndInv, DbOK, Heavy, ChainStored
<1> QED BY <1>1, <1>2, <1>3 DEF IndInv, OnlyLedgerThrows, TipMatchesChain, DownOK,
          WalkOK, InReorg, IdleOK, ReplyTellsTip

\* A stuttering step.
LEMMA StutterStep == IndInv /\ UNCHANGED vars => IndInv'
<1> SUFFICES ASSUME IndInv, UNCHANGED vars PROVE IndInv'
  OBVIOUS
<1>1. TypeOK' /\ OnlyLedgerThrows'
  BY DEF IndInv, vars, mem, TypeOK, OnlyLedgerThrows
<1>2. DbOK(db)' /\ DbOK(disk)' /\ Heavy(disk)' /\ (Heavy(db) => Heavy(db)')
  BY DEF IndInv, vars, DbOK, ChainStored, Heavy
<1>3. TipMatchesChain' /\ DownOK'
  BY DEF IndInv, vars, mem, TipMatchesChain, TipOK, DownOK
<1>4. WalkOK'
  BY DEF IndInv, vars, mem, WalkOK, InReorg
<1>5. IdleOK'
  BY <1>2 DEF IndInv, vars, mem, IdleOK, ReplyTellsTip
<1> QED BY <1>1, <1>2, <1>3, <1>4, <1>5 DEF IndInv

\* IndInv is inductive.
LEMMA NextStep == IndInv /\ [Next]_vars => IndInv'
<1> SUFFICES ASSUME IndInv, [Next]_vars PROVE IndInv'
  OBVIOUS
<1>1. CASE \E b \in Block : add_block(b)
  BY <1>1, AddBlockStep
<1>2. CASE reorganize_blocks
  BY <1>2, CommonStep, CommonFoundStep, UndoStep, UndoDoneStep, RedoStep,
     RedoDoneStep DEF reorganize_blocks
<1> QED BY <1>1, <1>2, OpenExistingStep, OpenEmptyStep, CommitStep, CrashStep,
           StutterStep DEF Next

\* The inductive invariant holds in every reachable state.
THEOREM Invariance == Spec => []IndInv
BY InitIndInv, NextStep, PTL DEF Spec

\* Every variable keeps its type.
THEOREM TypeCorrect == Spec => []TypeOK
<1>1. IndInv => TypeOK
  BY DEF IndInv
<1> QED BY <1>1, Invariance, PTL

\* None of the assertions and key conditions of add_block, reorganize_blocks,
\* get_common_block, push_chain, pop_chain and read_tip can fail, for any
\* block tree, any order of arrival and any crash, restarts after an exception
\* of redo_block included; such an exception, of a block with two transactions
\* that share a key image, is the only thing that ends the process.
THEOREM NoAssertionFails == Spec => []OnlyLedgerThrows
<1>1. IndInv => OnlyLedgerThrows
  BY DEF IndInv
<1> QED BY <1>1, Invariance, PTL

\* The best chain is a linked path of stored blocks, in memory and on disk.
THEOREM ChainAlwaysLinked == Spec => []ChainLinked
<1>1. IndInv => ChainLinked
  BY DEF IndInv, DbOK, ChainLinked
<1> QED BY <1>1, Invariance, PTL

\* The tip in memory is the end of the chain in the database.
THEOREM TipAlwaysMatches == Spec => []TipMatchesChain
<1>1. IndInv => TipMatchesChain
  BY DEF IndInv
<1> QED BY <1>1, Invariance, PTL

\* No block rejected by redo_block is ever in the best chain.
THEOREM ChainAlwaysValid == Spec => []ChainValid
<1>1. IndInv => ChainValid
  BY DEF IndInv, DbOK, ChainValid
<1> QED BY <1>1, Invariance, PTL

\* Without invalid blocks the node is on a branch of the most work.
THEOREM TipIsHeaviest == Spec => []HeaviestTip
<1>1. IndInv => HeaviestTip
  <2> SUFFICES ASSUME IndInv, pc = "idle", db.headers \cap invalid = {},
                      NEW b \in db.headers
               PROVE  CumDiff[b] <= m_tip_cumulative_difficulty
    BY DEF HeaviestTip
  <2>1. Heavy(db) /\ TipOK /\ db \in DB
    BY DEF IndInv, IdleOK, TipMatchesChain, TypeOK
  <2>2. db.chain # <<>>
    BY <2>1, EmptySeq DEF TipOK, DB
  <2> QED BY <2>1, <2>2 DEF Heavy, TipOK, LastOf
<1> QED BY <1>1, Invariance, PTL

\* The reply of add_block tells what became of the tip.
THEOREM ReplyAlwaysTells == Spec => []ReplyTellsTip
<1>1. IndInv => ReplyTellsTip
  BY DEF IndInv, IdleOK
<1> QED BY <1>1, Invariance, PTL

\* get_common_block finds the highest common block of the two branches.
THEOREM ReorgIsMinimal == Spec => []MinimalReorg
<1>1. IndInv => MinimalReorg
  BY DEF IndInv, WalkOK, InReorg, MinimalReorg
<1> QED BY <1>1, Invariance, PTL

-------------------------------------------------------------------------------
\* The tables that the children counters concern.
SameTables(e, d) ==
  e.headers = d.headers /\ e.children = d.children /\ e.tips = d.tips

\* b is new and its parent is stored.
Storable(d, b) ==
  b \in Block \ d.headers /\ (b # Genesis => Parent[b] \in d.headers)

\* The counters are right, and there are finitely many headers to count.
CountInv ==
  /\ IsFiniteSet(db.headers) /\ ChildrenCounted(db)
  /\ IsFiniteSet(disk.headers) /\ ChildrenCounted(disk)

\* What the prefix of add_block writes into the counters: one more child for the
\* parent, and one less than the default for the block itself.
LEMMA StoredCounts ==
  ASSUME NEW d \in DB, NEW b \in Block
  PROVE  /\ b = Genesis \/ Parent[b] \in Block \ {b}
         /\ StoredBlock(d, b).children[b] = d.children[b] - 1
         /\ b \in StoredBlock(d, b).tips <=> d.children[b] - 1 = 0
         /\ b # Genesis =>
              /\ StoredBlock(d, b).children[Parent[b]] = d.children[Parent[b]] + 1
              /\ Parent[b] \in StoredBlock(d, b).tips <=> d.children[Parent[b]] + 1 = 0
         /\ \A c \in Block \ {b} : b = Genesis \/ c # Parent[b] =>
              /\ StoredBlock(d, b).children[c] = d.children[c]
              /\ c \in StoredBlock(d, b).tips <=> c \in d.tips
<1> DEFINE s == store_header(IF has_block(d, b) THEN d ELSE store_block(d, b), b)
           m == Counted(d, b)
<1>1. s \in DB /\ s.children = d.children /\ s.tips = d.tips
  BY DEF DB, store_header, store_block, has_block
<1>2. m = IF b = Genesis THEN s ELSE modify_children_counter(s, Parent[b], 1)
  BY DEF Counted, s
<1>3. b = Genesis \/ Parent[b] \in Block \ {b}
  BY TreeAssumption
<1>4. 1 \in Int /\ -1 \in Int /\ \A c \in Block : d.children[c] \in Int
  BY DEF DB
<1> HIDE DEF s, m
<1>5. /\ m \in DB
      /\ m.children[b] = d.children[b]
      /\ b # Genesis => /\ m.children[Parent[b]] = d.children[Parent[b]] + 1
                        /\ Parent[b] \in m.tips <=> d.children[Parent[b]] + 1 = 0
      /\ \A c \in Block \ {b} : b = Genesis \/ c # Parent[b] =>
           /\ m.children[c] = d.children[c]
           /\ c \in m.tips <=> c \in d.tips
  <2>1. CASE b = Genesis
    BY <2>1, <1>1, <1>2
  <2>2. CASE b # Genesis
    <3>1. m = modify_children_counter(s, Parent[b], 1) /\ Parent[b] \in Block /\ Parent[b] # b
      BY <2>2, <1>2, <1>3
    <3>2. /\ modify_children_counter(s, Parent[b], 1) \in DB
          /\ modify_children_counter(s, Parent[b], 1).children[Parent[b]] = s.children[Parent[b]] + 1
          /\ Parent[b] \in modify_children_counter(s, Parent[b], 1).tips <=> s.children[Parent[b]] + 1 = 0
          /\ \A c \in Block \ {Parent[b]} :
               /\ modify_children_counter(s, Parent[b], 1).children[c] = s.children[c]
               /\ c \in modify_children_counter(s, Parent[b], 1).tips <=> c \in s.tips
      BY <1>1, <1>4, <3>1, ModifyFacts
    <3> QED BY <2>2, <3>1, <3>2, <1>1
  <2> QED BY <2>1, <2>2
<1>6. StoredBlock(d, b) = modify_children_counter(m, b, -1)
  BY DEF StoredBlock, m
<1>7. /\ modify_children_counter(m, b, -1).children[b] = m.children[b] + -1
      /\ b \in modify_children_counter(m, b, -1).tips <=> m.children[b] + -1 = 0
      /\ \A c \in Block \ {b} :
           /\ modify_children_counter(m, b, -1).children[c] = m.children[c]
           /\ c \in modify_children_counter(m, b, -1).tips <=> c \in m.tips
  <2>1. \A k \in Int :
          /\ modify_children_counter(m, b, k).children[b] = m.children[b] + k
          /\ b \in modify_children_counter(m, b, k).tips <=> m.children[b] + k = 0
          /\ \A c \in Block \ {b} :
               /\ modify_children_counter(m, b, k).children[c] = m.children[c]
               /\ c \in modify_children_counter(m, b, k).tips <=> c \in m.tips
    BY <1>5, ModifyFacts
  <2> QED BY <2>1, <1>4
<1>8. m.children[b] + -1 = d.children[b] - 1
  BY <1>4, <1>5
<1> QED BY <1>3, <1>5, <1>6, <1>7, <1>8

\* Storing a block whose parent is stored keeps the counters right.
LEMMA StoredCounted ==
  ASSUME NEW d \in DB, DbOK(d), IsFiniteSet(d.headers), ChildrenCounted(d),
         NEW b, Storable(d, b)
  PROVE  /\ IsFiniteSet(StoredBlock(d, b).headers)
         /\ ChildrenCounted(StoredBlock(d, b))
<1> DEFINE e == StoredBlock(d, b)
<1>1. b \in Block /\ b \notin d.headers /\ (b # Genesis => Parent[b] \in d.headers)
  BY DEF Storable
<1>2. e \in DB /\ e.headers = d.headers \cup {b}
  BY <1>1, StoredFacts
<1>3. IsFiniteSet(e.headers)
  BY <1>2, FS_AddElement
<1>4. /\ b = Genesis \/ Parent[b] \in Block \ {b}
      /\ e.children[b] = d.children[b] - 1
      /\ b \in e.tips <=> d.children[b] - 1 = 0
      /\ b # Genesis =>
           /\ e.children[Parent[b]] = d.children[Parent[b]] + 1
           /\ Parent[b] \in e.tips <=> d.children[Parent[b]] + 1 = 0
      /\ \A c \in Block \ {b} : b = Genesis \/ c # Parent[b] =>
           /\ e.children[c] = d.children[c]
           /\ c \in e.tips <=> c \in d.tips
  BY <1>1, StoredCounts
<1> HIDE DEF e
<1>5. d.headers \subseteq Block /\ e.tips \subseteq Block
  BY <1>2 DEF DB
<1>6. \A c : IsFiniteSet(Children(d, c)) /\ Cardinality(Children(d, c)) \in Nat
  BY FS_Subset, FS_CardinalityType DEF Children
<1>7. Children(d, b) = {}
  BY <1>1, <1>5 DEF Children, DbOK
<1>8. Children(e, b) = {}
  BY <1>7, <1>2, <1>4 DEF Children
<1>9. \A c : b = Genesis \/ c # Parent[b] => Children(e, c) = Children(d, c)
  BY <1>2 DEF Children
<1>10. b # Genesis => /\ Children(e, Parent[b]) = Children(d, Parent[b]) \cup {b}
                      /\ b \notin Children(d, Parent[b])
  BY <1>1, <1>2 DEF Children
<1>11. b # Genesis =>
         Cardinality(Children(e, Parent[b])) = Cardinality(Children(d, Parent[b])) + 1
  BY <1>6, <1>10, FS_AddElement
<1>12. d.children[b] = 1
  BY <1>1 DEF ChildrenCounted
<1>13. ASSUME NEW c \in e.headers
       PROVE  e.children[c] = Cardinality(Children(e, c))
  <2>1. CASE c = b
    BY <2>1, <1>4, <1>8, <1>12, FS_EmptySet
  <2>2. CASE c # b /\ b # Genesis /\ c = Parent[b]
    BY <2>2, <1>1, <1>4, <1>11 DEF ChildrenCounted
  <2>3. CASE c # b /\ (b = Genesis \/ c # Parent[b])
    BY <2>3, <1>2, <1>4, <1>5, <1>9 DEF ChildrenCounted
  <2> QED BY <2>1, <2>2, <2>3
<1>14. \A c \in Block \ e.headers : e.children[c] = 1
  BY <1>1, <1>2, <1>4 DEF ChildrenCounted
<1>15. ASSUME NEW c \in Block
       PROVE  c \in e.tips <=> c \in e.headers /\ Children(e, c) = {}
  <2>1. CASE c = b
    BY <2>1, <1>2, <1>4, <1>8, <1>12
  <2>2. CASE c # b /\ b # Genesis /\ c = Parent[b]
    <3>1. d.children[c] + 1 # 0
      BY <2>2, <1>1, <1>6 DEF ChildrenCounted
    <3> QED BY <3>1, <2>2, <1>4, <1>10
  <2>3. CASE c # b /\ (b = Genesis \/ c # Parent[b])
    BY <2>3, <1>2, <1>4, <1>9 DEF ChildrenCounted
  <2> QED BY <2>1, <2>2, <2>3
<1>16. e.tips = {c \in e.headers : Children(e, c) = {}}
  BY <1>15, <1>5, <1>2, <1>1
<1>17. ChildrenCounted(e)
  BY <1>13, <1>14, <1>16 DEF ChildrenCounted
<1> QED BY <1>3, <1>17 DEF e

\* The counters depend on these tables alone.
LEMMA CountedByTables ==
  ASSUME NEW d, NEW e, SameTables(e, d), IsFiniteSet(d.headers), ChildrenCounted(d)
  PROVE  IsFiniteSet(e.headers) /\ ChildrenCounted(e)
<1>1. e.headers = d.headers /\ e.children = d.children /\ e.tips = d.tips
  BY DEF SameTables
<1>2. \A b : Children(e, b) = Children(d, b)
  BY <1>1 DEF Children
<1> QED BY <1>1, <1>2 DEF ChildrenCounted

\* push_chain and pop_chain leave the tables alone.
LEMMA ChainTables ==
  ASSUME NEW d \in DB, NEW c
  PROVE  SameTables([d EXCEPT !.chain = c], d)
BY DEF DB, SameTables

\* Every step leaves the tables alone, stores one block, or loses what was not
\* committed; and a commit copies them.
LEMMA TablesStep ==
  ASSUME IndInv, [Next]_vars
  PROVE  /\ \/ SameTables(db', db)
            \/ db' = disk
            \/ \E b \in Block : Storable(db, b) /\ SameTables(db', StoredBlock(db, b))
         /\ disk' \in {disk, db, db'}
<1>1. db \in DB /\ \A b \in Block : StoredBlock(db, b) \in DB
  BY StoredFacts DEF IndInv, TypeOK
<1>2. CASE OpenExisting
  BY <1>2 DEF OpenExisting, Exit, SameTables
<1>3. CASE OpenEmpty
  <2>1. CASE ~(StoreOk(db, Genesis) /\ PushOk(db) /\ redo_block(Genesis) = "applies")
    BY <1>3, <2>1 DEF OpenEmpty, Exit, SameTables
  <2>2. CASE StoreOk(db, Genesis) /\ PushOk(db) /\ redo_block(Genesis) = "applies"
    <3>1. Genesis \in Block
      BY TreeAssumption
    <3>2. /\ db' = [StoredBlock(db, Genesis) EXCEPT !.chain = Append(@, Genesis)]
          /\ disk' \in {disk, db'}
          /\ Storable(db, Genesis)
      BY <1>3, <2>2, <3>1 DEF OpenEmpty, push_chain, add_block_returns, Storable, StoreOk, read_header
    <3> QED BY <3>1, <3>2, <1>1, ChainTables
  <2> QED BY <2>1, <2>2
<1>4. ASSUME NEW b \in Block, add_block(b)
      PROVE  /\ \/ SameTables(db', db)
                \/ \E x \in Block : Storable(db, x) /\ SameTables(db', StoredBlock(db, x))
             /\ disk' \in {disk, db, db'}
  <2>1. CASE AddIgnored(b) \/ AddRefused(b)
    BY <2>1 DEF AddIgnored, AddRefused, add_block_refuses, SameTables
  <2>2. CASE AddAccepted(b) /\ ~StoreOk(db, b)
    BY <2>2 DEF AddAccepted, Exit, SameTables
  <2>3. CASE AddAccepted(b) /\ StoreOk(db, b)
    <3>1. Storable(db, b)
      BY <2>3 DEF AddAccepted, Offered, Storable, StoreOk, read_header
    <3>2. CASE AddSide(b) \/ AddForking(b)
      BY <3>1, <3>2 DEF AddSide, AddForking, add_block_returns, SameTables
    <3>3. CASE AddExtending(b)
      <4>1. CASE redo_block(b) = "applies" /\ PushOk(db)
        <5>1. /\ db' = [StoredBlock(db, b) EXCEPT !.chain = Append(@, b)]
              /\ disk' \in {disk, db'}
          BY <3>3, <4>1 DEF AddExtending, push_chain, add_block_returns
        <5> QED BY <3>1, <5>1, <1>1, ChainTables
      <4>2. CASE ~(redo_block(b) = "applies" /\ PushOk(db))
        BY <3>1, <3>3, <4>2 DEF AddExtending, add_block_refuses, Exit, Abort, SameTables
      <4> QED BY <4>1, <4>2
    <3> QED BY <2>3, <3>2, <3>3 DEF AddAccepted
  <2> QED BY <1>4, <2>1, <2>2, <2>3 DEF add_block
<1>5. CASE get_common_block \/ CommonFound \/ UndoDone \/ RedoDone
  BY <1>5 DEF get_common_block, CommonFound, UndoDone, RedoDone, add_block_returns, Exit, SameTables
<1>6. CASE Undo
  <2>1. disk' = disk /\ (db' = db \/ db' = [db EXCEPT !.chain = FrontOf(db.chain)])
    BY <1>6 DEF Undo, pop_chain, Exit
  <2>2. CASE db' = db
    BY <2>1, <2>2 DEF SameTables
  <2>3. CASE db' # db
    BY <2>1, <2>3, <1>1, ChainTables
  <2> QED BY <2>2, <2>3
<1>7. CASE Redo
  <2>1. /\ db' = db \/ db' = [db EXCEPT !.chain = Append(db.chain, LastOf(reorg.chain2))]
        /\ disk' \in {disk, db'}
    BY <1>7 DEF Redo, push_chain, add_block_returns, Exit, Abort
  <2>2. CASE db' = db
    BY <2>1, <2>2 DEF SameTables
  <2>3. CASE db' # db
    BY <2>1, <2>3, <1>1, ChainTables
  <2> QED BY <2>2, <2>3
<1>8. CASE db_commit \/ Crash
  BY <1>8 DEF db_commit, Crash, SameTables
<1>9. CASE UNCHANGED vars
  BY <1>9 DEF vars, SameTables
<1> QED BY <1>2, <1>3, <1>4, <1>5, <1>6, <1>7, <1>8, <1>9 DEF Next, reorganize_blocks

LEMMA CountStep == IndInv /\ CountInv /\ [Next]_vars => CountInv'
<1> SUFFICES ASSUME IndInv, CountInv, [Next]_vars PROVE CountInv'
  OBVIOUS
<1>1. IsFiniteSet(db'.headers) /\ ChildrenCounted(db')
  <2>1. CASE SameTables(db', db)
    BY <2>1, CountedByTables DEF CountInv
  <2>2. CASE db' = disk
    BY <2>2 DEF CountInv
  <2>3. ASSUME NEW b \in Block, Storable(db, b), SameTables(db', StoredBlock(db, b))
        PROVE  IsFiniteSet(db'.headers) /\ ChildrenCounted(db')
    <3>1. db \in DB /\ DbOK(db)
      BY DEF IndInv, TypeOK
    <3>2. IsFiniteSet(StoredBlock(db, b).headers) /\ ChildrenCounted(StoredBlock(db, b))
      BY <3>1, <2>3, StoredCounted DEF CountInv
    <3> QED BY <3>2, <2>3, CountedByTables
  <2> QED BY <2>1, <2>2, <2>3, TablesStep
<1>2. IsFiniteSet(disk'.headers) /\ ChildrenCounted(disk')
  BY <1>1, TablesStep DEF CountInv
<1> QED BY <1>1, <1>2 DEF CountInv, ChildrenCounted, Children

\* The children counters and the tips index count the stored tree exactly, in
\* memory and on disk, whatever was stored, reorganized, committed and lost.
THEOREM ChildrenAlwaysCounted == Spec => []ChildrenIndex
<1>1. Init => CountInv
  <2> SUFFICES ASSUME Init PROVE CountInv
    OBVIOUS
  <2>1. db = EmptyDB /\ disk = EmptyDB /\ EmptyDB.headers = {} /\ EmptyDB.tips = {}
        /\ \A b \in Block : EmptyDB.children[b] = 1
    BY DEF Init, EmptyDB
  <2> QED BY <2>1, FS_EmptySet DEF CountInv, ChildrenCounted, Children
<1>2. CountInv => ChildrenIndex
  BY DEF CountInv, ChildrenIndex
<1> QED BY <1>1, <1>2, CountStep, Invariance, PTL DEF Spec
================================================================================
