------------------------------ MODULE ChainSync ------------------------------
(***************************************************************************)
(* A node catches up with another one in rounds: it sends its sparse       *)
(* chain, the other answers with a part of its own chain, and the node     *)
(* stores the blocks of the answer that it does not have.  How the blocks  *)
(* are fetched is the subject of Downloader.tla.  The other node may have  *)
(* stored side branches, the node's own among them, and may move to a      *)
(* better branch at any time, also between an answer and its use.          *)
(***************************************************************************)
EXTENDS Locator

VARIABLES
  mine,           \* the node's tip
  my_blocks,      \* what it has stored
  theirs,         \* the tip of the other node
  their_blocks,
  locator,        \* the sparse chain under way, or empty
  answer          \* the set of the answers under way, at most one; `tip' is a
                  \* history field, the tip of the other node at the time

vars == <<mine, my_blocks, theirs, their_blocks, locator, answer>>

Stored(tips) == UNION {Range(Path[b]) : b \in tips}

\* A tip changes only to more work, which is more blocks here.
Better(old, b) == Height[b] > Height[old]

Init ==
  /\ mine \in Block
  /\ my_blocks = Stored({mine})
  /\ theirs \in Block
  /\ \E side \in {b \in Block : ~Better(theirs, b)} :
       their_blocks = Stored({theirs, side})
  /\ locator = <<>>
  /\ answer = {}

\* The request of advance_chain to a client whose top_id is not known.
Ask ==
  /\ locator = <<>>
  /\ answer = {}
  /\ theirs \notin my_blocks
  /\ locator' = get_sparse_chain(mine)
  /\ UNCHANGED <<mine, my_blocks, theirs, their_blocks, answer>>

\* The handler of NOTIFY_REQUEST_CHAIN.
Answer ==
  /\ locator # <<>>
  /\ LET a == get_sync_headers_chain(their_blocks, theirs, locator)
     IN  answer' = {[start |-> a.start, ids |-> a.ids, tip |-> theirs]}
  /\ locator' = <<>>
  /\ UNCHANGED <<mine, my_blocks, theirs, their_blocks>>

\* add_block for the blocks of the answer, one after the other.  After an empty
\* answer the node would disconnect and begin anew.
Store(a) ==
  LET top == IF a.ids = <<>> THEN mine ELSE Last(a.ids)
  IN  /\ my_blocks' = my_blocks \cup Range(a.ids)
      /\ mine' = IF Better(mine, top) THEN top ELSE mine
      /\ answer' = {}
      /\ UNCHANGED <<theirs, their_blocks, locator>>

\* The other node stores a better branch.
Move(b) ==
  /\ Better(theirs, b)
  /\ theirs' = b
  /\ their_blocks' = their_blocks \cup Stored({b})
  /\ UNCHANGED <<mine, my_blocks, locator, answer>>

Exchange == Ask \/ Answer \/ \E a \in answer : Store(a)

Next == Exchange \/ \E b \in Block : Move(b)

Spec == Init /\ [][Next]_vars /\ WF_vars(Exchange)

-------------------------------------------------------------------------------
\* The answer to a sparse chain always begins with a block that the asking node
\* has stored and goes on block by block, so that every block in it finds its
\* parent stored when it is added: whatever branches either node is on, and
\* however they moved since.
AnswerConnects ==
  \A a \in answer :
    /\ a.ids # <<>>
    /\ a.ids[1] \in my_blocks
    /\ a.start = Height[a.ids[1]]
    /\ \A i \in 2..Len(a.ids) : Parent[a.ids[i]] = a.ids[i - 1]

\* The blocks sent again are never more than those that the node is about to
\* leave: get_sparse_chain lists few blocks and yet none of it is far from the
\* fork, measured by the depth of the fork.
OverlapBounded ==
  \A a \in answer :
    LET fork == CommonHeight(mine, a.tip)
    IN  fork - a.start <= Height[mine] - fork

================================================================================
