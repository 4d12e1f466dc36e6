------------------------------- MODULE Locator -------------------------------
(***************************************************************************)
(* How two nodes find where their chains part: the sparse chain that a     *)
(* node sends (BlockChain::get_sparse_chain) and the answer that the other *)
(* one computes from it (BlockChain::get_sync_headers_chain).  A chain is  *)
(* given by its tip in a constant tree of blocks.                          *)
(***************************************************************************)
EXTENDS Integers, Sequences, FiniteSets, SequencesExt

CONSTANTS
  Block, Genesis, Parent, Height,
  Path,       \* the chain of a tip, genesis first
  Dense,      \* how many blocks the sparse chain lists one by one (10)
  MaxIds      \* p2p_block_ids_sync_default_count

TreeOfBlocks ==
  /\ Genesis \in Block
  /\ Parent \in [Block \ {Genesis} -> Block]
  /\ Height \in [Block -> Nat]
  /\ Height[Genesis] = 0
  /\ \A b \in Block \ {Genesis} : Height[b] = Height[Parent[b]] + 1
  /\ Path[Genesis] = <<Genesis>>
  /\ \A b \in Block \ {Genesis} : Path[b] = Append(Path[Parent[b]], b)
  /\ Dense \in Nat \ {0}
  /\ MaxIds \in Nat \ {0}
ASSUME LocatorAssumption == TreeOfBlocks

\* read_chain(Height[b]) of the chain of a tip is b.
On(b, tip) == Height[b] <= Height[tip] /\ Path[tip][Height[b] + 1] = b

\* 1 << k (heights are far below 2^31, and jump at most twice as much)
Shift[k \in Nat] == IF k = 0 THEN 1 ELSE 2 * Shift[k - 1]

\* How far below the tip the n-th entry of the sparse chain is: the entry before
\* it is 1 higher up to n = Dense + 1, then 2, 4, 8, ... higher.
Jump(n) == IF n <= Dense + 1 THEN n - 1 ELSE Dense + Shift[n - Dense] - 2

\* The entries that the loop of get_sparse_chain collects, the tip first.
Sparse(tip) ==
  LET h == Height[tip]
  IN  [n \in 1..Max({m \in 1..(h + 1) : Jump(m) <= h}) |->
         Path[tip][h - Jump(n) + 1]]

\* (The first variant leaves genesis to chance.)
get_sparse_chain_mut(tip) == Sparse(tip)

get_sparse_chain(tip) ==
  LET path == Sparse(tip)
  IN  IF path[Len(path)] # Genesis THEN Append(path, Genesis) ELSE path

\* Walking down from a stored block until the best chain is met.
CommonHeight(b, tip) ==
  CHOOSE h \in 0..Height[b] :
    /\ On(Path[b][h + 1], tip)
    /\ \A k \in (h + 1)..Height[b] : ~On(Path[b][k + 1], tip)

\* The answer of a node with these stored blocks and this tip: the first entry
\* it has is followed down to its best chain, which is listed from there on.
Answered(tip, h) ==
  [start |-> h,
   ids |-> [i \in 1..Min({MaxIds, Height[tip] + 1 - h}) |-> Path[tip][h + i]]]

get_sync_headers_chain(stored, tip, locator) ==
  LET found == {n \in DOMAIN locator : locator[n] \in stored}
  IN  IF found = {} THEN [start |-> Height[tip] + 1, ids |-> <<>>]
      ELSE Answered(tip, CommonHeight(locator[Min(found)], tip))
================================================================================
