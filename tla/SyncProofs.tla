----------------------------- MODULE SyncProofs -----------------------------
(***************************************************************************)
(* How a node catches up, in both grains of MCSync, for every tree, dense  *)
(* part of a sparse chain and limit on the length of an answer.            *)
(*                                                                         *)
(* Two nodes exchanging sparse chains and answers (ChainSync.tla): an      *)
(* answer connects to what the asking node has stored and repeats little   *)
(* of it.                                                                  *)
(*                                                                         *)
(* The tree is one by RoundsAssumption.  The heights at which two branches *)
(* have a block in common are those up to the fork; the entries of a       *)
(* sparse chain go back at most twice as far as the ones before, and two   *)
(* blocks; so the first entry that the other node has is below the fork by *)
(* no more than the tip is above it.                                       *)
(*                                                                         *)
(* Induction is over the elements of a set of naturals, which needs no     *)
(* operator as a parameter, and the recursive function Shift is shown to   *)
(* be one by the same means.                                               *)
(*                                                                         *)
(* The downloader (Downloader.tla), for any clients, threads and limits:   *)
(* Core holds after each operation on dl, also inside handlers;            *)
(* FrontServed after advance_download, with which every handler ends; both *)
(* and the types of the other variables are the invariant DownloadInv.     *)
(* From "The downloader's invariant" on there is a lemma per operation,    *)
(* then one per handler, then one per action.                              *)
(***************************************************************************)
EXTENDS MCSync, WellFoundedInduction, FiniteSetTheorems, TLAPS

(***************************************************************************)
(* Induction and recursion over the naturals                               *)
(***************************************************************************)
\* Induction over the naturals, for a set.
LEMMA Induction ==
  ASSUME NEW S, 0 \in S, \A n \in Nat : n \in S => n + 1 \in S
  PROVE  \A n \in Nat : n \in S
  <1>1. SUFFICES ASSUME NEW x \in Nat, x \notin S PROVE FALSE
    OBVIOUS
  <1>2. PICK T : T = {n \in Nat : n \notin S}
    OBVIOUS
  <1> DEFINE R == {ss \in Nat \X Nat : ss[1] < ss[2]}
  <1>3. IsWellFoundedOn(R, Nat)
    BY NatLessThanWellFounded DEF OpToRel
  <1>4. PICK m \in T : \A y \in T : ~(<<y, m>> \in R)
    <2>1. T \subseteq Nat /\ T # {}
      BY <1>1, <1>2
    <2> HIDE DEF R
    <2> QED
      BY <1>3, <2>1, WFMin
  <1>5. m \in Nat /\ m \notin S
    BY <1>2
  <1>6. ASSUME NEW y \in Nat, y < m
        PROVE  y \in S
    BY <1>2, <1>4, <1>5, <1>6
  <1>7. m # 0 /\ m - 1 \in Nat
    BY <1>5
  <1>8. m - 1 \in S
    BY <1>5, <1>6, <1>7
  <1>9. (m - 1) + 1 \in S
    BY <1>7, <1>8
  <1> QED
    BY <1>5, <1>7, <1>9

\* A sequence of values by its first one and the step from each to the next.
Steps(f, first, step) == f[0] = first /\ \A n \in Nat : f[n + 1] = step[f[n]]

\* There is a sequence with a given first value and a given step.
LEMMA Recursion ==
  ASSUME NEW V, NEW base \in V, NEW step \in [V -> V]
  PROVE  \E f \in [Nat -> V] : Steps(f, base, step)
  <1>1. PICK Upto : Upto = [n \in Nat |-> {g \in [0 .. n -> V] :
                         g[0] = base /\ \A i \in 0 .. n - 1 : g[i + 1] = step[g[i]]}]
    OBVIOUS
  <1>2. \A n \in Nat : Upto[n] # {}
    <2>1. PICK S : S = {n \in Nat : Upto[n] # {}}
      OBVIOUS
    <2>2. 0 \in S
      <3>1. [i \in 0 .. 0 |-> base] \in Upto[0]
        BY <1>1
      <3> QED
        BY <2>1, <3>1
    <2>3. \A n \in Nat : n \in S => n + 1 \in S
      <3> SUFFICES ASSUME NEW n \in Nat, n \in S PROVE n + 1 \in S
        OBVIOUS
      <3>1. PICK g : g \in Upto[n]
        BY <2>1
      <3>2. /\ g \in [0 .. n -> V] /\ g[0] = base
            /\ \A i \in 0 .. n - 1 : g[i + 1] = step[g[i]]
        BY <1>1, <3>1
      <3>3. PICK h : h = [i \in 0 .. n + 1 |-> IF i <= n THEN g[i] ELSE step[g[n]]]
        OBVIOUS
      <3>4. h \in [0 .. n + 1 -> V] /\ h[0] = base
        BY <3>2, <3>3
      <3>5. ASSUME NEW i \in 0 .. (n + 1) - 1
            PROVE  h[i + 1] = step[h[i]]
        <4>1. CASE i = n
          BY <3>3, <4>1
        <4>2. CASE i < n
          BY <3>2, <3>3, <4>2
        <4> QED
          BY <4>1, <4>2
      <3>6. h \in Upto[n + 1]
        BY <1>1, <3>4, <3>5
      <3> QED
        BY <2>1, <3>6
    <2> QED
      BY <2>1, <2>2, <2>3, Induction
  <1>3. \A n \in Nat : \A g \in Upto[n], h \in Upto[n + 1] : \A i \in 0 .. n : g[i] = h[i]
    <2> SUFFICES ASSUME NEW n \in Nat, NEW g \in Upto[n], NEW h \in Upto[n + 1]
                 PROVE  \A i \in 0 .. n : g[i] = h[i]
      OBVIOUS
    <2>1. /\ g[0] = base /\ \A i \in 0 .. n - 1 : g[i + 1] = step[g[i]]
          /\ h[0] = base /\ \A i \in 0 .. n : h[i + 1] = step[h[i]]
      BY <1>1
    <2>2. PICK S : S = {i \in Nat : i <= n => g[i] = h[i]}
      OBVIOUS
    <2>3. 0 \in S
      BY <2>1, <2>2
    <2>4. \A i \in Nat : i \in S => i + 1 \in S
      <3> SUFFICES ASSUME NEW i \in Nat, i \in S, i + 1 <= n PROVE g[i + 1] = h[i + 1]
        BY <2>2
      <3>1. g[i] = h[i] /\ i \in 0 .. n - 1 /\ i \in 0 .. n
        BY <2>2
      <3> QED
        BY <2>1, <3>1
    <2> QED
      BY <2>2, <2>3, <2>4, Induction
  <1>4. PICK G : G = [n \in Nat |-> CHOOSE g \in Upto[n] : TRUE]
    OBVIOUS
  <1>5. \A n \in Nat : G[n] \in Upto[n]
    BY <1>2, <1>4
  <1>6. PICK f : f = [n \in Nat |-> G[n][n]]
    OBVIOUS
  <1>7. f \in [Nat -> V] /\ f[0] = base
    <2>1. \A n \in Nat : G[n] \in [0 .. n -> V] /\ G[n][0] = base
      BY <1>1, <1>5
    <2> QED
      BY <1>6, <2>1
  <1>8. ASSUME NEW n \in Nat
        PROVE  f[n + 1] = step[f[n]]
    <2>1. G[n] \in Upto[n] /\ G[n + 1] \in Upto[n + 1]
      BY <1>5
    <2>2. G[n][n] = G[n + 1][n]
      BY <1>3, <2>1
    <2>3. G[n + 1][n + 1] = step[G[n + 1][n]]
      BY <1>1, <2>1
    <2> QED
      BY <1>6, <2>2, <2>3
  <1> QED
    BY <1>7, <1>8 DEF Steps

\* 1 << k doubles, and is greater than k.
LEMMA ShiftDoubles ==
  /\ Cs!Shift[0] = 1
  /\ \A k \in Nat : /\ Cs!Shift[k] \in Nat /\ Cs!Shift[k + 1] = 2 * Cs!Shift[k]
                    /\ Cs!Shift[k] >= k + 1
  <1>1. PICK step : step = [v \in Nat |-> 2 * v]
    OBVIOUS
  <1>2. step \in [Nat -> Nat] /\ 1 \in Nat
    BY <1>1
  <1>3. PICK f \in [Nat -> Nat] : Steps(f, 1, step)
    BY <1>2, Recursion, Zenon
  <1>4. f[0] = 1 /\ \A n \in Nat : f[n + 1] = 2 * f[n]
    BY <1>1, <1>3 DEF Steps
  <1>5. ASSUME NEW k \in Nat
        PROVE  f[k] = IF k = 0 THEN 1 ELSE 2 * f[k - 1]
    <2>1. CASE k = 0
      BY <1>4, <2>1
    <2>2. CASE k # 0
      <3>1. k - 1 \in Nat /\ (k - 1) + 1 = k
        BY <2>2
      <3> QED
        BY <1>4, <2>2, <3>1
    <2> QED
      BY <2>1, <2>2
  <1>6. f = [k \in Nat |-> IF k = 0 THEN 1 ELSE 2 * f[k - 1]]
    BY <1>3, <1>5
  <1>7. Cs!Shift = [k \in Nat |-> IF k = 0 THEN 1 ELSE 2 * Cs!Shift[k - 1]]
    BY <1>6, Zenon DEF Cs!Shift
  <1>8. Cs!Shift[0] = 1 /\ \A k \in Nat : Cs!Shift[k + 1] = 2 * Cs!Shift[k]
    <2> PICK s : s = Cs!Shift
      OBVIOUS
    <2>1. s = [k \in Nat |-> IF k = 0 THEN 1 ELSE 2 * s[k - 1]]
      BY <1>7
    <2>2. s[0] = 1
      BY <2>1
    <2>3. ASSUME NEW k \in Nat
          PROVE  s[k + 1] = 2 * s[k]
      <3>1. k + 1 \in Nat /\ k + 1 # 0 /\ (k + 1) - 1 = k
        OBVIOUS
      <3>2. s[k + 1] = IF k + 1 = 0 THEN 1 ELSE 2 * s[(k + 1) - 1]
        BY <2>1, <3>1
      <3> QED
        BY <3>1, <3>2
    <2> QED
      BY <2>2, <2>3
  <1>9. PICK S : S = {k \in Nat : Cs!Shift[k] \in Nat /\ Cs!Shift[k] >= k + 1}
    OBVIOUS
  <1>10. 0 \in S
    BY <1>8, <1>9
  <1>11. \A n \in Nat : n \in S => n + 1 \in S
    BY <1>8, <1>9
  <1>12. \A n \in Nat : n \in S
    BY <1>10, <1>11, Induction
  <1> QED
    BY <1>8, <1>9, <1>12

(***************************************************************************)
(* Branches of the tree                                                    *)
(***************************************************************************)
\* `path' lists the branches of a tree of the blocks B.
TreeOf(B, g, par, hgt, path) ==
  /\ g \in B /\ hgt[g] = 0 /\ path[g] = <<g>>
  /\ \A b \in B : hgt[b] \in Nat
  /\ \A b \in B : b # g =>
       par[b] \in B /\ hgt[b] = hgt[par[b]] + 1 /\ path[b] = Append(path[par[b]], b)

\* What a branch of such a tree is: p gives the branch of b.
BranchOf(B, g, par, hgt, path, b) ==
  /\ path[b] \in Seq(B) /\ Len(path[b]) = hgt[b] + 1
  /\ path[b][0 + 1] = g /\ path[b][hgt[b] + 1] = b
  /\ \A h \in 0 .. hgt[b] :
       /\ path[b][h + 1] \in B /\ hgt[path[b][h + 1]] = h
       /\ h > 0 => path[b][h + 1] # g /\ par[path[b][h + 1]] = path[b][(h - 1) + 1]
       /\ \A k \in 0 .. h : path[path[b][h + 1]][k + 1] = path[b][k + 1]

\* The branch of a block is that of its parent and the block.
LEMMA BranchGrows ==
  ASSUME NEW B, NEW g, NEW par, NEW hgt, NEW path, TreeOf(B, g, par, hgt, path),
         NEW b \in B, b # g, BranchOf(B, g, par, hgt, path, par[b])
  PROVE  BranchOf(B, g, par, hgt, path, b)
  <1> DEFINE at(x, h) == path[x][h + 1]
  <1>1. PICK p : p = par[b]
    OBVIOUS
  <1>2. PICK n : n = hgt[p]
    OBVIOUS
  <1>3. /\ p \in B /\ n \in Nat /\ hgt[b] = n + 1
        /\ path[b] = Append(path[p], b)
    BY <1>1, <1>2 DEF TreeOf
  <1>4. /\ path[p] \in Seq(B) /\ Len(path[p]) = n + 1
        /\ at(p, 0) = g /\ at(p, n) = p
        /\ \A h \in 0 .. n :
             /\ at(p, h) \in B /\ hgt[at(p, h)] = h
             /\ h > 0 => at(p, h) # g /\ par[at(p, h)] = at(p, h - 1)
             /\ \A k \in 0 .. h : at(at(p, h), k) = at(p, k)
    BY <1>1, <1>2, Zenon DEF BranchOf
  <1>6. path[b] \in Seq(B) /\ Len(path[b]) = n + 2
    BY <1>3, <1>4
  <1>7. ASSUME NEW h \in 0 .. n
        PROVE  at(b, h) = at(p, h)
    BY <1>3, <1>4
  <1>8. at(b, n + 1) = b
    BY <1>3, <1>4
  <1> HIDE DEF at
  <1>10. ASSUME NEW h \in 0 .. n + 1
         PROVE  /\ at(b, h) \in B /\ hgt[at(b, h)] = h
                /\ h > 0 => at(b, h) # g /\ par[at(b, h)] = at(b, h - 1)
                /\ \A k \in 0 .. h : at(at(b, h), k) = at(b, k)
    <2>1. CASE h = n + 1
      BY <1>1, <1>3, <1>4, <1>7, <1>8, <2>1
    <2>2. CASE h # n + 1
      <3>1. h \in 0 .. n /\ at(b, h) = at(p, h)
        BY <1>3, <1>7, <2>2
      <3>2. /\ at(p, h) \in B /\ hgt[at(p, h)] = h
            /\ h > 0 => at(p, h) # g /\ par[at(p, h)] = at(p, h - 1)
            /\ \A k \in 0 .. h : at(at(p, h), k) = at(p, k)
        BY <1>4, <3>1
      <3>3. h > 0 => at(b, h - 1) = at(p, h - 1)
        BY <1>7, <1>3, <3>1
      <3>4. \A k \in 0 .. h : at(b, k) = at(p, k)
        BY <1>7, <1>3, <3>1
      <3> QED
        BY <3>1, <3>2, <3>3, <3>4
    <2> QED
      BY <2>1, <2>2
  <1>11. at(b, 0) = g /\ at(b, hgt[b]) = b /\ Len(path[b]) = hgt[b] + 1
    BY <1>3, <1>4, <1>6, <1>7, <1>8
  <1>12. \A h \in 0 .. hgt[b] :
           /\ at(b, h) \in B /\ hgt[at(b, h)] = h
           /\ h > 0 => at(b, h) # g /\ par[at(b, h)] = at(b, h - 1)
           /\ \A k \in 0 .. h : at(at(b, h), k) = at(b, k)
    BY <1>3, <1>10
  <1> QED
    BY <1>6, <1>11, <1>12, Zenon DEF BranchOf, at

\* Every path of a tree is a branch.
LEMMA Branches ==
  ASSUME NEW B, NEW g, NEW par, NEW hgt, NEW path, TreeOf(B, g, par, hgt, path)
  PROVE  \A b \in B : BranchOf(B, g, par, hgt, path, b)
  <1> DEFINE OK(b) == BranchOf(B, g, par, hgt, path, b)
  <1>1. PICK S : S = {n \in Nat : \A b \in B : hgt[b] = n => OK(b)}
    OBVIOUS
  <1>2. /\ g \in B /\ hgt[g] = 0 /\ path[g] = <<g>>
        /\ \A b \in B : hgt[b] \in Nat
        /\ \A b \in B : b # g => par[b] \in B /\ hgt[b] = hgt[par[b]] + 1
    BY DEF TreeOf
  <1>3. OK(g)
    <2>1. path[g] \in Seq(B) /\ Len(path[g]) = 1 /\ path[g][0 + 1] = g
      BY <1>2
    <2> QED
      BY <1>2, <2>1 DEF BranchOf
  <1>4. \A b \in B : b # g /\ OK(par[b]) => OK(b)
    BY BranchGrows
  <1> HIDE DEF OK
  <1>5. 0 \in S
    <2> SUFFICES ASSUME NEW b \in B, hgt[b] = 0 PROVE OK(b)
      BY <1>1
    <2>1. ASSUME b # g
          PROVE  FALSE
      <3>1. par[b] \in B /\ hgt[b] = hgt[par[b]] + 1
        BY <1>2, <2>1
      <3>2. hgt[par[b]] \in Nat
        BY <1>2, <3>1
      <3> QED
        BY <3>1, <3>2
    <2> QED
      BY <1>3, <2>1
  <1>6. \A n \in Nat : n \in S => n + 1 \in S
    <2> SUFFICES ASSUME NEW n \in Nat, n \in S, NEW b \in B, hgt[b] = n + 1
                 PROVE  OK(b)
      BY <1>1
    <2>1. b # g /\ par[b] \in B /\ hgt[par[b]] = n
      BY <1>2
    <2>2. OK(par[b])
      BY <1>1, <2>1
    <2> QED
      BY <1>4, <2>1, <2>2
  <1>7. \A n \in Nat : n \in S
    BY <1>5, <1>6, Induction
  <1>8. \A b \in B : OK(b)
    BY <1>1, <1>2, <1>7
  <1> QED
    BY <1>8 DEF OK

\* Some blocks of a tree, with the parents of all of them.
ClosedIn(S, B, g, par) ==
  S \subseteq B /\ g \in S /\ \A b \in S : b # g => par[b] \in S

\* With a block, they have the whole branch of the block.
LEMMA BranchesInClosed ==
  ASSUME NEW B, NEW g, NEW par, NEW hgt, NEW path, TreeOf(B, g, par, hgt, path),
         NEW S, ClosedIn(S, B, g, par), NEW b \in S
  PROVE  \A h \in 0 .. hgt[b] : path[b][h + 1] \in S
  <1> DEFINE at(x, h) == path[x][h + 1]
  <1>1. /\ b \in B /\ hgt[b] \in Nat
        /\ at(b, hgt[b]) = b
        /\ \A h \in 0 .. hgt[b] :
             /\ at(b, h) \in B
             /\ h > 0 => at(b, h) # g /\ par[at(b, h)] = at(b, h - 1)
    <2>1. b \in B /\ hgt[b] \in Nat
      BY DEF ClosedIn, TreeOf
    <2>2. BranchOf(B, g, par, hgt, path, b)
      BY <2>1, Branches
    <2> QED
      BY <2>1, <2>2, Zenon DEF BranchOf
  <1> HIDE DEF at
  <1>2. PICK T : T = {n \in Nat : n <= hgt[b] => at(b, hgt[b] - n) \in S}
    OBVIOUS
  <1>3. 0 \in T
    BY <1>1, <1>2
  <1>4. \A n \in Nat : n \in T => n + 1 \in T
    <2> SUFFICES ASSUME NEW n \in Nat, n \in T, n + 1 <= hgt[b]
                 PROVE  at(b, hgt[b] - (n + 1)) \in S
      BY <1>2
    <2>1. PICK h : h = hgt[b] - n
      OBVIOUS
    <2>2. h \in 0 .. hgt[b] /\ h > 0 /\ h - 1 = hgt[b] - (n + 1)
      BY <1>1, <2>1
    <2>3. at(b, h) \in S
      BY <1>1, <1>2, <2>1
    <2>4. at(b, h) # g /\ par[at(b, h)] = at(b, h - 1)
      BY <1>1, <2>2
    <2> QED
      BY <2>2, <2>3, <2>4 DEF ClosedIn
  <1>5. \A n \in Nat : n \in T
    BY <1>3, <1>4, Induction
  <1>6. ASSUME NEW h \in 0 .. hgt[b]
        PROVE  at(b, h) \in S
    <2>1. hgt[b] - h \in Nat /\ hgt[b] - h <= hgt[b]
          /\ hgt[b] - (hgt[b] - h) = h
      BY <1>1
    <2> QED
      BY <1>2, <1>5, <2>1
  <1> QED
    BY <1>6 DEF at

\* The block of height h on the branch of b.
At(b, h) == CsPath[b][h + 1]

BranchOK(b) ==
  /\ CsPath[b] \in Seq(CsBlock) /\ Len(CsPath[b]) = CsHeight[b] + 1
  /\ At(b, 0) = CsGenesis /\ At(b, CsHeight[b]) = b
  /\ \A h \in 0 .. CsHeight[b] :
       /\ At(b, h) \in CsBlock /\ CsHeight[At(b, h)] = h
       /\ h > 0 => At(b, h) # CsGenesis /\ CsParent[At(b, h)] = At(b, h - 1)
       /\ \A k \in 0 .. h : At(At(b, h), k) = At(b, k)

\* What the tree is.
LEMMA Tree ==
  /\ CsGenesis \in CsBlock /\ CsHeight[CsGenesis] = 0 /\ CsPath[CsGenesis] = <<CsGenesis>>
  /\ CsHeight \in [CsBlock -> Nat]
  /\ \A b \in CsBlock : CsHeight[b] \in Nat
  /\ \A b \in CsBlock : b # CsGenesis =>
       /\ CsParent[b] \in CsBlock /\ CsHeight[b] = CsHeight[CsParent[b]] + 1
       /\ CsPath[b] = Append(CsPath[CsParent[b]], b)
  /\ Dense \in Nat /\ Dense > 0 /\ CsMaxIds \in Nat /\ CsMaxIds > 0
  BY RoundsAssumption DEF Cs!TreeOfBlocks

LEMMA IsTree == TreeOf(CsBlock, CsGenesis, CsParent, CsHeight, CsPath)
  BY Tree, Zenon DEF TreeOf

\* The path of a block is its branch.
LEMMA Branch == \A b \in CsBlock : BranchOK(b)
  <1> SUFFICES ASSUME NEW b \in CsBlock PROVE BranchOK(b)
    OBVIOUS
  <1>1. BranchOf(CsBlock, CsGenesis, CsParent, CsHeight, CsPath, b)
    BY IsTree, Branches, Zenon
  <1> QED
    BY <1>1 DEF BranchOK, BranchOf, At

\* A set of blocks with the parents of its blocks in it.
Closed(S) == /\ S \subseteq CsBlock /\ CsGenesis \in S
             /\ \A b \in S : b # CsGenesis => CsParent[b] \in S

\* A branch is such a set, and one that ends in it lies in it.
LEMMA StoredClosed ==
  ASSUME NEW b \in CsBlock
  PROVE  Closed(Cs!Stored({b})) /\ b \in Cs!Stored({b})
  <1>1. BranchOK(b) /\ CsHeight[b] \in Nat
    BY Branch, Tree
  <1>2. PICK S : S = {CsPath[b][i] : i \in 1 .. CsHeight[b] + 1}
    OBVIOUS
  <1>3. S = {At(b, h) : h \in 0 .. CsHeight[b]}
    <2>1. ASSUME NEW i \in 1 .. CsHeight[b] + 1
          PROVE  i - 1 \in 0 .. CsHeight[b] /\ CsPath[b][i] = At(b, i - 1)
      BY <1>1 DEF At
    <2>2. ASSUME NEW h \in 0 .. CsHeight[b]
          PROVE  h + 1 \in 1 .. CsHeight[b] + 1 /\ At(b, h) = CsPath[b][h + 1]
      BY <1>1 DEF At
    <2> QED
      BY <1>2, <2>1, <2>2
  <1>4. Cs!Stored({b}) = S
    <2>1. DOMAIN CsPath[b] = 1 .. CsHeight[b] + 1
      BY <1>1 DEF BranchOK
    <2>2. Cs!Range(CsPath[b]) = S
      BY <1>2, <2>1 DEF Cs!Range
    <2> QED
      BY <2>2 DEF Cs!Stored
  <1>5. b \in S /\ CsGenesis \in S
    BY <1>1, <1>3 DEF BranchOK
  <1>6. S \subseteq CsBlock
    BY <1>1, <1>3 DEF BranchOK
  <1>7. ASSUME NEW x \in S, x # CsGenesis
        PROVE  CsParent[x] \in S
    <2>1. PICK h \in 0 .. CsHeight[b] : x = At(b, h)
      BY <1>3
    <2>2. h # 0
      BY <1>1, <1>7, <2>1 DEF BranchOK
    <2>3. CsParent[x] = At(b, h - 1) /\ h - 1 \in 0 .. CsHeight[b]
      BY <1>1, <2>1, <2>2 DEF BranchOK
    <2> QED
      BY <1>3, <2>3
  <1> QED
    BY <1>4, <1>5, <1>6, <1>7 DEF Closed

\* With a block, a closed set has the whole branch of the block.
LEMMA BranchInClosed ==
  ASSUME NEW S, Closed(S), NEW b \in S
  PROVE  \A h \in 0 .. CsHeight[b] : At(b, h) \in S
  <1>1. ClosedIn(S, CsBlock, CsGenesis, CsParent)
    BY Zenon DEF Closed, ClosedIn
  <1> QED
    BY <1>1, IsTree, BranchesInClosed, Zenon DEF At

(***************************************************************************)
(* Where two branches fork                                                 *)
(***************************************************************************)
\* A set of numbers up to n has a greatest one.
LEMMA Greatest ==
  ASSUME NEW n \in Nat, NEW S, S \subseteq 0 .. n, S # {}
  PROVE  \E m \in S : \A x \in S : x <= m
  <1>1. PICK T : T = {k \in Nat : \A R \in SUBSET (0 .. k) :
                        R # {} => \E m \in R : \A x \in R : x <= m}
    OBVIOUS
  <1>2. 0 \in T
    <2>1. ASSUME NEW R \in SUBSET (0 .. 0), R # {}
          PROVE  \E m \in R : \A x \in R : x <= m
      <3>1. PICK r : r \in R
        BY <2>1
      <3>2. \A x \in R : x \in 0 .. 0
        BY <2>1
      <3>3. \A x \in 0 .. 0 : x <= 0 /\ x = 0
        OBVIOUS
      <3>4. r = 0
        BY <3>1, <3>2, <3>3
      <3> QED
        BY <3>1, <3>2, <3>3, <3>4
    <2>2. 0 \in Nat
      OBVIOUS
    <2> QED
      BY <1>1, <2>1, <2>2, Zenon
  <1>3. \A k \in Nat : k \in T => k + 1 \in T
    <2> SUFFICES ASSUME NEW k \in Nat, k \in T, NEW R \in SUBSET (0 .. k + 1), R # {}
                 PROVE  \E m \in R : \A x \in R : x <= m
      BY <1>1
    <2>1. CASE k + 1 \in R
      BY <2>1
    <2>2. CASE k + 1 \notin R
      <3>1. R \in SUBSET (0 .. k)
        BY <2>2
      <3> QED
        BY <1>1, <3>1
    <2> QED
      BY <2>1, <2>2
  <1>4. n \in T
    BY <1>2, <1>3, Induction
  <1> QED
    BY <1>1, <1>4

\* A set of naturals has a least one.
LEMMA Least ==
  ASSUME NEW S, S \subseteq Nat, S # {}
  PROVE  \E m \in S : \A x \in S : m <= x
  <1> SUFFICES ASSUME \A m \in S : \E x \in S : x < m
               PROVE  FALSE
    <2>1. ASSUME ~ \E m \in S : \A x \in S : m <= x
          PROVE  \A m \in S : \E x \in S : x < m
      BY <2>1
    <2> QED
      BY <2>1
  <1>1. PICK T : T = {n \in Nat : \A k \in 0 .. n : k \notin S}
    OBVIOUS
  <1>2. 0 \in T
    <2>1. 0 \notin S
      <3> SUFFICES ASSUME 0 \in S PROVE FALSE
        OBVIOUS
      <3>1. PICK x \in S : x < 0
        OBVIOUS
      <3> QED
        BY <3>1
    <2> QED
      BY <1>1, <2>1
  <1>3. \A n \in Nat : n \in T => n + 1 \in T
    <2> SUFFICES ASSUME NEW n \in Nat, n \in T
                 PROVE  n + 1 \in T
      OBVIOUS
    <2>1. \A k \in 0 .. n : k \notin S
      BY <1>1
    <2>2. n + 1 \notin S
      <3> SUFFICES ASSUME n + 1 \in S PROVE FALSE
        OBVIOUS
      <3>1. PICK x \in S : x < n + 1
        OBVIOUS
      <3>2. x \in 0 .. n
        BY <3>1
      <3> QED
        BY <2>1, <3>2
    <2> QED
      BY <1>1, <2>1, <2>2
  <1>4. \A n \in Nat : n \in T
    BY <1>2, <1>3, Induction
  <1>5. PICK m : m \in S
    OBVIOUS
  <1> QED
    BY <1>1, <1>4, <1>5

\* Max of a bounded set of naturals is its greatest element.
LEMMA MaxOf ==
  ASSUME NEW n \in Nat, NEW S, S \subseteq 0 .. n, S # {}
  PROVE  Cs!Max(S) \in S /\ \A x \in S : x <= Cs!Max(S)
  <1>1. \E m \in S : \A x \in S : m >= x
    BY Greatest
  <1>2. Cs!Max(S) = CHOOSE m \in S : \A x \in S : m >= x
    BY DEF Cs!Max
  <1>3. PICK c : c = Cs!Max(S)
    OBVIOUS
  <1>4. c \in S /\ \A x \in S : c >= x
    BY <1>1, <1>2, <1>3
  <1> QED
    BY <1>3, <1>4

\* Min of a set of naturals is its least element.
LEMMA MinOf ==
  ASSUME NEW S, S \subseteq Nat, S # {}
  PROVE  Cs!Min(S) \in S /\ \A x \in S : Cs!Min(S) <= x
  <1>1. \E m \in S : \A x \in S : m <= x
    BY Least
  <1>2. Cs!Min(S) = CHOOSE m \in S : \A x \in S : m <= x
    BY DEF Cs!Min
  <1>3. PICK c : c = Cs!Min(S)
    OBVIOUS
  <1>4. c \in S /\ \A x \in S : c <= x
    BY <1>1, <1>2, <1>3
  <1> QED
    BY <1>3, <1>4

\* Two branches have the block of this height in common.
Shared(b, t, h) == h <= CsHeight[t] /\ At(t, h) = At(b, h)

\* in_chain asks whether a block is shared with a tip's branch.
LEMMA OnIsShared ==
  ASSUME NEW b \in CsBlock, NEW t \in CsBlock, NEW h \in 0 .. CsHeight[b]
  PROVE  Cs!On(CsPath[b][h + 1], t) <=> Shared(b, t, h)
  <1>1. CsHeight[At(b, h)] = h
    BY Branch DEF BranchOK
  <1> QED
    BY <1>1 DEF Cs!On, Shared, At

\* What two branches share, they share with all that is below.
LEMMA SharedDown ==
  ASSUME NEW b \in CsBlock, NEW t \in CsBlock, NEW h \in 0 .. CsHeight[b], Shared(b, t, h),
         NEW k \in 0 .. h
  PROVE  Shared(b, t, k)
  <1>1. CsHeight[b] \in Nat /\ CsHeight[t] \in Nat /\ h \in Nat /\ h <= CsHeight[t]
    BY Tree DEF Shared
  <1>2. At(At(b, h), k) = At(b, k)
    BY Branch DEF BranchOK
  <1>3. At(At(t, h), k) = At(t, k)
    <2>1. h \in 0 .. CsHeight[t]
      BY <1>1
    <2> QED
      BY <2>1, Branch DEF BranchOK
  <1> QED
    BY <1>1, <1>2, <1>3 DEF Shared

\* f is the height at which the branch of b leaves that of t.
ForkAt(b, t, f) ==
  /\ f \in 0 .. CsHeight[b] /\ Shared(b, t, f)
  /\ \A k \in (f + 1) .. CsHeight[b] : ~Shared(b, t, k)

\* There is one height at which two branches fork.
LEMMA ForkUnique ==
  ASSUME NEW b \in CsBlock, NEW t \in CsBlock, NEW f, NEW g, ForkAt(b, t, f), ForkAt(b, t, g)
  PROVE  f = g
  <1>1. CsHeight[b] \in Nat
    BY Tree
  <1>2. f \in 0 .. CsHeight[b] /\ g \in 0 .. CsHeight[b] /\ Shared(b, t, f) /\ Shared(b, t, g)
    BY DEF ForkAt
  <1>3. ~(f < g)
    <2>1. f < g => g \in (f + 1) .. CsHeight[b]
      BY <1>1, <1>2
    <2> QED
      BY <1>2, <2>1 DEF ForkAt
  <1>4. ~(g < f)
    <2>1. g < f => f \in (g + 1) .. CsHeight[b]
      BY <1>1, <1>2
    <2> QED
      BY <1>2, <2>1 DEF ForkAt
  <1> QED
    BY <1>1, <1>2, <1>3, <1>4

\* The height that get_sync_headers_chain goes back to is that of the fork.
LEMMA CommonIsFork ==
  ASSUME NEW b \in CsBlock, NEW t \in CsBlock
  PROVE  ForkAt(b, t, Cs!CommonHeight(b, t))
  <1>1. CsHeight[b] \in Nat /\ CsHeight[t] \in Nat /\ BranchOK(b) /\ BranchOK(t)
    BY Tree, Branch
  <1>2. PICK S : S = {h \in 0 .. CsHeight[b] : Shared(b, t, h)}
    OBVIOUS
  <1>3. 0 \in S
    BY <1>1, <1>2 DEF Shared, BranchOK
  <1>4. PICK m \in S : \A x \in S : x <= m
    BY <1>1, <1>2, <1>3, Greatest
  <1>5. ForkAt(b, t, m)
    <2>1. m \in 0 .. CsHeight[b] /\ Shared(b, t, m)
      BY <1>2
    <2>2. ASSUME NEW k \in (m + 1) .. CsHeight[b], Shared(b, t, k)
          PROVE  FALSE
      <3>1. k \in 0 .. CsHeight[b] /\ k > m
        BY <1>1, <2>1
      <3>2. k \in S
        BY <1>2, <2>2, <3>1
      <3> QED
        BY <1>1, <1>4, <2>1, <3>1, <3>2
    <2> QED
      BY <2>1, <2>2 DEF ForkAt
  <1>6. \A h \in 0 .. CsHeight[b] :
          ForkAt(b, t, h) <=> /\ Cs!On(CsPath[b][h + 1], t)
                              /\ \A k \in (h + 1) .. CsHeight[b] : ~Cs!On(CsPath[b][k + 1], t)
    <2> SUFFICES ASSUME NEW h \in 0 .. CsHeight[b]
                 PROVE  ForkAt(b, t, h) <=>
                          /\ Cs!On(CsPath[b][h + 1], t)
                          /\ \A k \in (h + 1) .. CsHeight[b] : ~Cs!On(CsPath[b][k + 1], t)
      OBVIOUS
    <2>1. Cs!On(CsPath[b][h + 1], t) <=> Shared(b, t, h)
      BY OnIsShared
    <2>2. ASSUME NEW k \in (h + 1) .. CsHeight[b]
          PROVE  Cs!On(CsPath[b][k + 1], t) <=> Shared(b, t, k)
      <3>1. k \in 0 .. CsHeight[b]
        BY <1>1
      <3> QED
        BY <3>1, OnIsShared
    <2> QED
      BY <2>1, <2>2 DEF ForkAt
  <1>7. \E h \in 0 .. CsHeight[b] :
          /\ Cs!On(CsPath[b][h + 1], t)
          /\ \A k \in (h + 1) .. CsHeight[b] : ~Cs!On(CsPath[b][k + 1], t)
    <2>1. m \in 0 .. CsHeight[b]
      BY <1>2
    <2> QED
      BY <1>5, <1>6, <2>1
  <1>8. PICK c : c = Cs!CommonHeight(b, t)
    OBVIOUS
  <1>9. /\ c \in 0 .. CsHeight[b] /\ Cs!On(CsPath[b][c + 1], t)
        /\ \A k \in (c + 1) .. CsHeight[b] : ~Cs!On(CsPath[b][k + 1], t)
    BY <1>7, <1>8, Zenon DEF Cs!CommonHeight
  <1>10. ForkAt(b, t, c)
    BY <1>6, <1>9
  <1> QED
    BY <1>8, <1>10

\* A block of a branch leaves another one where the branch does, or is below.
LEMMA ForkBelow ==
  ASSUME NEW b \in CsBlock, NEW t \in CsBlock, NEW f, ForkAt(b, t, f), NEW k \in 0 .. CsHeight[b]
  PROVE  ForkAt(At(b, k), t, IF k <= f THEN k ELSE f)
  <1>1. /\ CsHeight[b] \in Nat /\ At(b, k) \in CsBlock /\ CsHeight[At(b, k)] = k
        /\ \A h \in 0 .. k : At(At(b, k), h) = At(b, h)
    BY Tree, Branch DEF BranchOK
  <1>2. \A h \in 0 .. k : Shared(At(b, k), t, h) <=> Shared(b, t, h)
    BY <1>1 DEF Shared
  <1>3. f \in 0 .. CsHeight[b] /\ Shared(b, t, f)
    BY DEF ForkAt
  <1>4. CASE k <= f
    <2>1. Shared(b, t, k)
      <3>1. k \in 0 .. f
        BY <1>1, <1>3, <1>4
      <3> QED
        BY <1>3, <3>1, SharedDown
    <2>2. k \in 0 .. k /\ \A j \in (k + 1) .. k : FALSE
      OBVIOUS
    <2> QED
      BY <1>1, <1>2, <1>4, <2>1, <2>2 DEF ForkAt
  <1>5. CASE ~(k <= f)
    <2>1. f \in 0 .. k /\ Shared(At(b, k), t, f)
      BY <1>1, <1>2, <1>3, <1>5
    <2>2. ASSUME NEW j \in (f + 1) .. k
          PROVE  ~Shared(At(b, k), t, j)
      <3>1. j \in 0 .. k /\ j \in (f + 1) .. CsHeight[b]
        BY <1>1, <1>3
      <3> QED
        BY <1>2, <3>1 DEF ForkAt
    <2> QED
      BY <1>1, <1>5, <2>1, <2>2 DEF ForkAt
  <1> QED
    BY <1>4, <1>5

(***************************************************************************)
(* Sparse chains                                                           *)
(***************************************************************************)
\* The jumps begin with 0, grow, and are at most doubled, and two more.
LEMMA Jumps ==
  /\ Cs!Jump(1) = 0
  /\ \A n \in Nat : n >= 1 =>
       /\ Cs!Jump(n) \in Nat /\ Cs!Jump(n) >= n - 1
       /\ Cs!Jump(n + 1) \in Nat /\ Cs!Jump(n + 1) > Cs!Jump(n)
       /\ Cs!Jump(n + 1) <= 2 * Cs!Jump(n) + 2
  <1>1. Dense \in Nat /\ Dense > 0
    BY Tree
  <1>2. Cs!Jump(1) = 0
    BY <1>1 DEF Cs!Jump
  <1>3. ASSUME NEW n \in Nat, n >= 1
        PROVE  /\ Cs!Jump(n) \in Nat /\ Cs!Jump(n) >= n - 1
               /\ Cs!Jump(n + 1) \in Nat /\ Cs!Jump(n + 1) > Cs!Jump(n)
               /\ Cs!Jump(n + 1) <= 2 * Cs!Jump(n) + 2
    <2>1. CASE n <= Dense
      BY <1>1, <1>3, <2>1 DEF Cs!Jump
    <2>2. CASE n = Dense + 1
      <3>1. Cs!Shift[1] = 2 /\ Cs!Shift[2] = 4
        <4>1. Cs!Shift[0 + 1] = 2 * 1
          BY ShiftDoubles
        <4>2. Cs!Shift[1 + 1] = 2 * Cs!Shift[1]
          BY ShiftDoubles
        <4> QED
          BY <4>1, <4>2
      <3>2. n - Dense = 1 /\ (n + 1) - Dense = 2 /\ ~(n + 1 <= Dense + 1)
        BY <1>1, <2>2
      <3>3. Cs!Jump(n) = Dense /\ Cs!Jump(n + 1) = Dense + 4 - 2
        BY <1>1, <2>2, <3>1, <3>2 DEF Cs!Jump
      <3> QED
        BY <1>1, <2>2, <3>3
    <2>3. CASE n > Dense + 1
      <3>1. PICK k : k = n - Dense
        OBVIOUS
      <3>2. k \in Nat /\ (n + 1) - Dense = k + 1 /\ ~(n <= Dense + 1) /\ ~(n + 1 <= Dense + 1)
        BY <1>1, <2>3, <3>1
      <3>3. PICK s : s = Cs!Shift[k]
        OBVIOUS
      <3>4. s \in Nat /\ s >= k + 1 /\ Cs!Shift[k + 1] = 2 * s
        BY <3>2, <3>3, ShiftDoubles
      <3>5. Cs!Jump(n) = Dense + s - 2 /\ Cs!Jump(n + 1) = Dense + 2 * s - 2
        BY <3>1, <3>2, <3>3, <3>4 DEF Cs!Jump
      <3>6. n = Dense + k /\ k > 1
        BY <1>1, <2>3, <3>1
      <3> QED
        BY <1>1, <3>2, <3>4, <3>5, <3>6
    <2> QED
      BY <1>1, <1>3, <2>1, <2>2, <2>3
  <1> QED
    BY <1>2, <1>3

\* The entries of a sparse chain go further and further back.
LEMMA JumpsGrow ==
  ASSUME NEW m \in Nat, NEW n \in 1 .. m
  PROVE  Cs!Jump(n) <= Cs!Jump(m)
  <1>1. PICK T : T = {k \in Nat : Cs!Jump(n) <= Cs!Jump(n + k)}
    OBVIOUS
  <1>2. n \in Nat /\ n >= 1
    OBVIOUS
  <1>3. 0 \in T
    <2>1. n + 0 = n
      BY <1>2
    <2>2. Cs!Jump(n) \in Nat
      BY <1>2, Jumps
    <2> QED
      BY <1>1, <1>2, <2>1, <2>2
  <1>4. \A k \in Nat : k \in T => k + 1 \in T
    <2> SUFFICES ASSUME NEW k \in Nat, k \in T
                 PROVE  k + 1 \in T
      OBVIOUS
    <2>1. n + k \in Nat /\ n + k >= 1 /\ n + (k + 1) = (n + k) + 1
      BY <1>2
    <2>2. Cs!Jump(n + k) \in Nat /\ Cs!Jump((n + k) + 1) > Cs!Jump(n + k)
          /\ Cs!Jump((n + k) + 1) \in Nat
      BY <2>1, Jumps, Zenon
    <2>4. Cs!Jump(n) \in Nat
      BY <1>2, Jumps, Zenon
    <2>3. Cs!Jump(n) <= Cs!Jump(n + k)
      BY <1>1
    <2> QED
      BY <1>1, <1>2, <2>1, <2>2, <2>3, <2>4
  <1>5. \A k \in Nat : k \in T
    BY <1>3, <1>4, Induction
  <1>6. m - n \in Nat /\ n + (m - n) = m
    OBVIOUS
  <1> QED
    BY <1>1, <1>5, <1>6

\* What the sparse chain is: the blocks so far below the tip as the jumps reach,
\* and genesis.
LocatorOK(l, t, n) ==
  /\ n \in Nat /\ n >= 1 /\ Cs!Jump(n) <= CsHeight[t]
  /\ n <= CsHeight[t] => Cs!Jump(n + 1) > CsHeight[t]
  /\ \A k \in 1 .. n : l[k] = At(t, CsHeight[t] - Cs!Jump(k))
  /\ \/ Cs!Jump(n) = CsHeight[t] /\ DOMAIN l = 1 .. n
     \/ n <= CsHeight[t] /\ DOMAIN l = 1 .. n + 1 /\ l[n + 1] = At(t, 0)

\* get_sparse_chain is such a list, of the branch of its tip.
LEMMA SparseChain ==
  ASSUME NEW t \in CsBlock
  PROVE  \E n : LocatorOK(Cs!get_sparse_chain(t), t, n)
  <1>1. PICK h : h = CsHeight[t]
    OBVIOUS
  <1>2. h \in Nat /\ BranchOK(t)
    BY <1>1, Tree, Branch
  <1>3. PICK S : S = {m \in 1 .. (h + 1) : Cs!Jump(m) <= h}
    OBVIOUS
  <1>4. S \subseteq 0 .. h + 1 /\ h + 1 \in Nat /\ 1 \in S
    <2>1. Cs!Jump(1) = 0 /\ 1 \in 1 .. h + 1 /\ 0 <= h
      BY <1>2, Jumps
    <2> QED
      BY <1>2, <1>3, <2>1
  <1>5. PICK n : n = Cs!Max(S)
    OBVIOUS
  <1>6. n \in S /\ \A x \in S : x <= n
    <2>1. S # {}
      BY <1>4
    <2> QED
      BY <1>4, <1>5, <2>1, MaxOf
  <1>7. n \in Nat /\ n >= 1 /\ n <= h + 1 /\ Cs!Jump(n) <= h /\ Cs!Jump(n) \in Nat
        /\ Cs!Jump(n) >= n - 1 /\ Cs!Jump(n + 1) \in Nat
    <2>1. n \in Nat /\ n >= 1 /\ n <= h + 1 /\ Cs!Jump(n) <= h
      BY <1>2, <1>3, <1>6
    <2>2. Cs!Jump(n) \in Nat /\ Cs!Jump(n) >= n - 1 /\ Cs!Jump(n + 1) \in Nat
      BY <2>1, Jumps, Zenon
    <2> QED
      BY <2>1, <2>2
  <1>8. n <= h => Cs!Jump(n + 1) > h
    <2> SUFFICES ASSUME n <= h PROVE Cs!Jump(n + 1) > h
      OBVIOUS
    <2>1. n + 1 \in 1 .. h + 1 /\ n + 1 \notin S
      BY <1>2, <1>6, <1>7
    <2> QED
      BY <1>2, <1>3, <1>7, <2>1
  <1>9. PICK p : p = Cs!Sparse(t)
    OBVIOUS
  <1>10. p = [m \in 1 .. n |-> CsPath[t][h - Cs!Jump(m) + 1]]
    BY <1>1, <1>3, <1>5, <1>9 DEF Cs!Sparse
  <1>11. ASSUME NEW k \in 1 .. n
         PROVE  /\ p[k] = At(t, h - Cs!Jump(k)) /\ p[k] \in CsBlock
                /\ CsHeight[p[k]] = h - Cs!Jump(k)
    <2>1. p[k] = At(t, h - Cs!Jump(k))
      BY <1>10 DEF At
    <2>2. k \in Nat /\ k >= 1
      BY <1>7
    <2>4. Cs!Jump(k) \in Nat
      BY <2>2, Jumps, Zenon
    <2>5. Cs!Jump(k) <= Cs!Jump(n)
      BY <1>7, JumpsGrow
    <2>3. h - Cs!Jump(k) \in 0 .. h
      BY <1>2, <1>7, <2>4, <2>5
    <2> QED
      BY <1>1, <1>2, <2>1, <2>3 DEF BranchOK
  <1>12. p \in Seq(CsBlock) /\ Len(p) = n
    BY <1>7, <1>10, <1>11
  <1>13. PICK l : l = Cs!get_sparse_chain(t)
    OBVIOUS
  <1>14. l = IF p[n] # CsGenesis THEN Append(p, CsGenesis) ELSE p
    BY <1>9, <1>12, <1>13, Zenon DEF Cs!get_sparse_chain
  <1>15. At(t, 0) = CsGenesis /\ CsHeight[CsGenesis] = 0
    BY <1>2, Tree DEF BranchOK
  <1>16. CASE p[n] = CsGenesis
    <2>1. l = p /\ DOMAIN l = 1 .. n
      BY <1>12, <1>14, <1>16
    <2>2. h - Cs!Jump(n) = 0
      BY <1>7, <1>11, <1>15, <1>16
    <2>3. Cs!Jump(n) = h
      BY <1>2, <1>7, <2>2
    <2> QED
      BY <1>1, <1>7, <1>8, <1>11, <1>13, <2>1, <2>3 DEF LocatorOK
  <1>17. CASE p[n] # CsGenesis
    <2>1. /\ DOMAIN l = 1 .. n + 1 /\ l[n + 1] = CsGenesis
          /\ \A k \in 1 .. n : l[k] = p[k]
      <3>1. l = Append(p, CsGenesis) /\ CsGenesis \in CsBlock
        BY <1>14, <1>17, Tree
      <3> QED
        BY <1>7, <1>12, <3>1
    <2>2. n <= h
      <3> SUFFICES ASSUME n = h + 1 PROVE FALSE
        BY <1>2, <1>7
      <3>1. Cs!Jump(n) = h
        BY <1>2, <1>7
      <3>2. p[n] = At(t, 0)
        BY <1>2, <1>7, <1>11, <3>1
      <3> QED
        BY <1>15, <1>17, <3>2
    <2> QED
      BY <1>1, <1>7, <1>8, <1>11, <1>13, <1>15, <2>1, <2>2 DEF LocatorOK
  <1> QED
    BY <1>16, <1>17

(***************************************************************************)
(* Answers                                                                 *)
(***************************************************************************)
\* An answer from `start' on, of a node with the tip t, to a node with the tip
\* me: it begins at a block of both branches, no further below the fork than the
\* fork is below me.
AnswerOK(a, me, t) ==
  /\ a.start \in 0 .. CsHeight[t] /\ a.start <= CsHeight[me]
  /\ At(me, a.start) = At(t, a.start)
  /\ Cs!CommonHeight(me, t) - a.start <= CsHeight[me] - Cs!CommonHeight(me, t)
  /\ \E len \in Nat \ {0} :
       /\ a.start + len <= CsHeight[t] + 1
       /\ a.ids = [i \in 1 .. len |-> At(t, a.start + (i - 1))]

\* Where the answer begins: at the first block of the locator that is stored or,
\* if that is above the fork, at the fork.
LEMMA StartIsNear ==
  ASSUME NEW me \in CsBlock, NEW t \in CsBlock, NEW S, Closed(S), t \in S,
         NEW l, NEW n, LocatorOK(l, me, n), NEW f, ForkAt(me, t, f),
         NEW i \in DOMAIN l, l[i] \in S, \A j \in DOMAIN l : l[j] \in S => i <= j
  PROVE  \E k \in 0 .. CsHeight[me] :
           /\ l[i] = At(me, k)
           /\ f - k <= CsHeight[me] - f
  <1>1. PICK h : h = CsHeight[me]
    OBVIOUS
  <1>2. h \in Nat /\ BranchOK(me) /\ CsHeight[t] \in Nat
    BY <1>1, Tree, Branch
  <1>3. /\ n \in Nat /\ n >= 1 /\ Cs!Jump(n) <= h
        /\ n <= h => Cs!Jump(n + 1) > h
        /\ \A k \in 1 .. n : l[k] = At(me, h - Cs!Jump(k))
        /\ \/ Cs!Jump(n) = h /\ DOMAIN l = 1 .. n
           \/ n <= h /\ DOMAIN l = 1 .. n + 1 /\ l[n + 1] = At(me, 0)
    BY <1>1 DEF LocatorOK
  <1>4. f \in 0 .. h /\ Shared(me, t, f)
    BY <1>1 DEF ForkAt
  <1>5. ASSUME NEW k \in 0 .. f
        PROVE  At(me, k) \in S
    <2>1. Shared(me, t, k)
      BY <1>1, <1>4, <1>5, SharedDown
    <2>2. k \in 0 .. CsHeight[t] /\ At(t, k) = At(me, k)
      BY <1>2, <1>4, <2>1 DEF Shared
    <2> QED
      BY <2>2, BranchInClosed
  <1>6. ASSUME NEW k \in 1 .. n
        PROVE  /\ k \in Nat /\ k >= 1 /\ Cs!Jump(k) \in Nat /\ Cs!Jump(k) <= h
               /\ Cs!Jump(k + 1) \in Nat /\ Cs!Jump(k + 1) <= 2 * Cs!Jump(k) + 2
    <2>1. k \in Nat /\ k >= 1
      BY <1>3
    <2>2. /\ Cs!Jump(k) \in Nat /\ Cs!Jump(k + 1) \in Nat
          /\ Cs!Jump(k + 1) <= 2 * Cs!Jump(k) + 2
      BY <2>1, Jumps, Zenon
    <2>3. Cs!Jump(k) <= Cs!Jump(n)
      BY <1>3, JumpsGrow
    <2>4. Cs!Jump(n) \in Nat
      BY <1>3, Jumps, Zenon
    <2> QED
      BY <1>2, <1>3, <2>1, <2>2, <2>3, <2>4
  \* the entry before the i-th is above the fork
  <1>7. i > 1 => /\ i - 1 \in 1 .. n /\ Cs!Jump(i - 1) < h - f
    <2> SUFFICES ASSUME i > 1 PROVE i - 1 \in 1 .. n /\ Cs!Jump(i - 1) < h - f
      OBVIOUS
    <2>1. i - 1 \in 1 .. n /\ i - 1 \in DOMAIN l /\ i \in Nat
      BY <1>3
    <2>2. l[i - 1] \notin S
      BY <2>1
    <2>3. l[i - 1] = At(me, h - Cs!Jump(i - 1)) /\ Cs!Jump(i - 1) \in Nat /\ Cs!Jump(i - 1) <= h
      BY <1>3, <1>6, <2>1
    <2>4. ~(h - Cs!Jump(i - 1) <= f)
      <3> SUFFICES ASSUME h - Cs!Jump(i - 1) <= f PROVE FALSE
        OBVIOUS
      <3>1. h - Cs!Jump(i - 1) \in 0 .. f
        BY <1>2, <1>4, <2>3
      <3> QED
        BY <1>5, <2>2, <2>3, <3>1
    <2> QED
      BY <1>2, <1>4, <2>1, <2>3, <2>4
  <1>8. CASE i \in 1 .. n
    <2>1. l[i] = At(me, h - Cs!Jump(i)) /\ Cs!Jump(i) \in Nat /\ Cs!Jump(i) <= h
      BY <1>3, <1>6, <1>8
    <2>2. h - Cs!Jump(i) \in 0 .. h
      BY <1>2, <2>1
    <2>3. f - (h - Cs!Jump(i)) <= h - f
      <3>1. CASE i = 1
        BY <1>2, <1>4, <3>1, Jumps
      <3>2. CASE i > 1
        <4>1. i - 1 \in 1 .. n /\ Cs!Jump(i - 1) < h - f
          BY <1>7, <3>2
        <4>2. Cs!Jump(i - 1) \in Nat /\ Cs!Jump((i - 1) + 1) <= 2 * Cs!Jump(i - 1) + 2
          BY <1>6, <4>1
        <4>3. (i - 1) + 1 = i
          BY <1>8
        <4>4. Cs!Jump(i) <= 2 * Cs!Jump(i - 1) + 2
          BY <4>2, <4>3
        <4> QED
          BY <1>2, <1>4, <2>1, <4>1, <4>2, <4>4
      <3> QED
        BY <1>8, <3>1, <3>2
    <2> QED
      BY <1>1, <2>1, <2>2, <2>3
  <1>9. CASE i \notin 1 .. n
    <2>1. i = n + 1 /\ n <= h /\ l[i] = At(me, 0)
      BY <1>3, <1>9
    <2>2. i > 1 /\ i - 1 = n
      BY <1>3, <2>1
    <2>3. Cs!Jump(n) < h - f
      BY <1>7, <2>2
    <2>4. n \in 1 .. n
      BY <1>3
    <2>5. Cs!Jump(n) \in Nat /\ Cs!Jump(n + 1) \in Nat /\ Cs!Jump(n + 1) <= 2 * Cs!Jump(n) + 2
      BY <1>6, <2>4
    <2>6. Cs!Jump(n + 1) > h
      BY <1>3, <2>1
    <2>7. f - 0 <= h - f
      BY <1>2, <1>4, <2>3, <2>5, <2>6
    <2>8. 0 \in 0 .. h
      BY <1>2
    <2> QED
      BY <1>1, <2>1, <2>7, <2>8
  <1> QED
    BY <1>8, <1>9

\* The answer to a sparse chain connects.
LEMMA AnswerIsOK ==
  ASSUME NEW me \in CsBlock, NEW t \in CsBlock, NEW S, Closed(S), t \in S
  PROVE  AnswerOK(Cs!get_sync_headers_chain(S, t, Cs!get_sparse_chain(me)), me, t)
  <1>1. PICK l : l = Cs!get_sparse_chain(me)
    OBVIOUS
  <1>2. PICK n : LocatorOK(l, me, n)
    BY <1>1, SparseChain
  <1>3. PICK h : h = CsHeight[me]
    OBVIOUS
  <1>4. h \in Nat /\ BranchOK(me) /\ CsHeight[t] \in Nat /\ BranchOK(t)
    BY <1>3, Tree, Branch
  <1>5. PICK F : F = {j \in DOMAIN l : l[j] \in S}
    OBVIOUS
  <1>6. /\ n \in Nat /\ n >= 1
        /\ \/ Cs!Jump(n) = h /\ DOMAIN l = 1 .. n
           \/ DOMAIN l = 1 .. n + 1 /\ l[n + 1] = At(me, 0)
        /\ l[n] = At(me, h - Cs!Jump(n))
    <2>1. n \in Nat /\ n >= 1
      BY <1>2 DEF LocatorOK
    <2>2. n \in 1 .. n
      BY <2>1
    <2> QED
      BY <1>2, <1>3, <2>1, <2>2 DEF LocatorOK
  <1>7. F \subseteq Nat /\ F # {}
    <2>1. At(me, 0) \in S
      BY <1>4 DEF BranchOK, Closed
    <2>2. CASE Cs!Jump(n) = h /\ DOMAIN l = 1 .. n
      <3>1. h - Cs!Jump(n) = 0
        BY <1>4, <2>2
      <3>2. n \in DOMAIN l /\ l[n] \in S
        BY <1>6, <2>1, <2>2, <3>1
      <3> QED
        BY <1>5, <1>6, <2>2, <3>2
    <2>3. CASE DOMAIN l = 1 .. n + 1 /\ l[n + 1] = At(me, 0)
      <3>1. n + 1 \in DOMAIN l /\ l[n + 1] \in S
        BY <1>6, <2>1, <2>3
      <3> QED
        BY <1>5, <1>6, <2>3, <3>1
    <2> QED
      BY <1>6, <2>2, <2>3
  <1>8. PICK i : i = Cs!Min(F)
    OBVIOUS
  <1>9. i \in F /\ \A j \in F : i <= j
    BY <1>7, <1>8, MinOf
  <1>10. PICK f : f = Cs!CommonHeight(me, t)
    OBVIOUS
  <1>11. ForkAt(me, t, f)
    BY <1>10, CommonIsFork
  <1>12. PICK k \in 0 .. h : l[i] = At(me, k) /\ f - k <= h - f
    <2>1. i \in DOMAIN l /\ l[i] \in S /\ \A j \in DOMAIN l : l[j] \in S => i <= j
      BY <1>5, <1>9
    <2> QED
      BY <1>2, <1>3, <1>11, <2>1, StartIsNear
  <1>13. PICK s : s = Cs!CommonHeight(At(me, k), t)
    OBVIOUS
  <1>14. s = IF k <= f THEN k ELSE f
    <2>1. k \in 0 .. CsHeight[me] /\ At(me, k) \in CsBlock
      BY <1>3, <1>4 DEF BranchOK
    <2>2. ForkAt(At(me, k), t, s)
      BY <1>13, <2>1, CommonIsFork
    <2>3. PICK g : g = IF k <= f THEN k ELSE f
      OBVIOUS
    <2>4. ForkAt(At(me, k), t, g)
      BY <1>11, <2>1, <2>3, ForkBelow
    <2> QED
      BY <2>1, <2>2, <2>3, <2>4, ForkUnique
  <1>15. f \in 0 .. h /\ Shared(me, t, f)
    BY <1>3, <1>11 DEF ForkAt
  <1>16. s \in 0 .. f /\ f - s <= h - f
    BY <1>4, <1>12, <1>14, <1>15
  <1>17. s <= CsHeight[t] /\ At(t, s) = At(me, s)
    <2>1. Shared(me, t, s)
      BY <1>3, <1>15, <1>16, SharedDown
    <2> QED
      BY <2>1 DEF Shared
  <1>18. PICK a : a = Cs!get_sync_headers_chain(S, t, l)
    OBVIOUS
  <1>19. PICK len : len = Cs!Min({CsMaxIds, CsHeight[t] + 1 - s})
    OBVIOUS
  <1>20. a = [start |-> s, ids |-> [j \in 1 .. len |-> CsPath[t][s + j]]]
    <2>1. a = Cs!Answered(t, Cs!CommonHeight(l[Cs!Min(F)], t))
      BY <1>5, <1>7, <1>18, Zenon DEF Cs!get_sync_headers_chain
    <2>2. a = Cs!Answered(t, s)
      BY <1>8, <1>12, <1>13, <2>1
    <2> QED
      BY <1>19, <2>2 DEF Cs!Answered
  <1>21. len \in Nat \ {0} /\ s + len <= CsHeight[t] + 1
    <2>1. PICK T : T = {CsMaxIds, CsHeight[t] + 1 - s}
      OBVIOUS
    <2>2. T \subseteq Nat /\ T # {} /\ 0 \notin T /\ CsHeight[t] + 1 - s \in T
      BY <1>4, <1>16, <1>17, <2>1, Tree
    <2>3. len \in T /\ len <= CsHeight[t] + 1 - s
      BY <1>19, <2>1, <2>2, MinOf
    <2> QED
      BY <1>4, <1>16, <2>2, <2>3
  <1>22. \A j \in 1 .. len : CsPath[t][s + j] = At(t, s + (j - 1))
    <2> SUFFICES ASSUME NEW j \in 1 .. len
                 PROVE  CsPath[t][s + j] = At(t, s + (j - 1))
      OBVIOUS
    <2>1. s + j = (s + (j - 1)) + 1
      BY <1>16, <1>21
    <2> QED
      BY <2>1 DEF At
  <1>23. a.start = s /\ a.ids = [j \in 1 .. len |-> At(t, s + (j - 1))]
    BY <1>20, <1>22
  <1>24. s \in 0 .. CsHeight[t] /\ s <= CsHeight[me]
    BY <1>3, <1>4, <1>15, <1>16, <1>17
  <1> QED
    BY <1>1, <1>3, <1>10, <1>16, <1>17, <1>18, <1>21, <1>23, <1>24 DEF AnswerOK

(***************************************************************************)
(* The invariant and the theorem                                           *)
(***************************************************************************)
\* Both nodes have the parents of all that they have stored, and their tips; a
\* sparse chain under way is that of the present tip, because the tip moves only
\* with an answer; and an answer connects.
RoundsInv ==
  /\ mine \in my_blocks /\ Closed(my_blocks)
  /\ theirs \in their_blocks /\ Closed(their_blocks)
  /\ locator # <<>> => locator = Cs!get_sparse_chain(mine) /\ answer = {}
  /\ \A a \in answer : a.tip \in CsBlock /\ AnswerOK(a, mine, a.tip)

\* What is stored stays closed when a branch is stored.
LEMMA ClosedUnion ==
  ASSUME NEW S, NEW T, Closed(S), Closed(T)
  PROVE  Closed(S \cup T)
  BY DEF Closed

\* The first states, any two nodes on the tree, satisfy the invariant.
LEMMA RoundsInit == Cs!Init => RoundsInv
  <1> SUFFICES ASSUME Cs!Init PROVE RoundsInv
    OBVIOUS
  <1>1. /\ mine \in CsBlock /\ my_blocks = Cs!Stored({mine})
        /\ theirs \in CsBlock /\ locator = <<>> /\ answer = {}
    BY DEF Cs!Init
  <1>2. PICK side \in CsBlock : their_blocks = Cs!Stored({theirs, side})
    BY DEF Cs!Init
  <1>3. Cs!Stored({theirs, side}) = Cs!Stored({theirs}) \cup Cs!Stored({side})
    BY DEF Cs!Stored
  <1>4. Closed(my_blocks) /\ mine \in my_blocks
    BY <1>1, StoredClosed
  <1>5. /\ Closed(Cs!Stored({theirs})) /\ theirs \in Cs!Stored({theirs})
        /\ Closed(Cs!Stored({side}))
    BY <1>1, StoredClosed
  <1>6. Closed(their_blocks) /\ theirs \in their_blocks
    BY <1>2, <1>3, <1>5, ClosedUnion
  <1> QED
    BY <1>1, <1>4, <1>6 DEF RoundsInv

\* The blocks of an answer go on from what is stored.
LEMMA StoreKeeps ==
  ASSUME RoundsInv, NEW a \in answer
  PROVE  /\ a.ids \in Seq(CsBlock) /\ a.ids # <<>>
         /\ Closed(my_blocks \cup Cs!Range(a.ids))
         /\ a.ids[Len(a.ids)] \in Cs!Range(a.ids)
         /\ a.ids[1] \in my_blocks /\ a.start = CsHeight[a.ids[1]]
         /\ \A i \in 2 .. Len(a.ids) : CsParent[a.ids[i]] = a.ids[i - 1]
  <1>1. PICK t : t = a.tip
    OBVIOUS
  <1>2. t \in CsBlock /\ AnswerOK(a, mine, t) /\ mine \in my_blocks /\ Closed(my_blocks)
    BY <1>1 DEF RoundsInv
  <1>3. mine \in CsBlock /\ CsHeight[mine] \in Nat /\ CsHeight[t] \in Nat /\ BranchOK(t)
    BY <1>2, Branch, Tree DEF Closed
  <1>4. PICK s : s = a.start
    OBVIOUS
  <1>5. PICK ids : ids = a.ids
    OBVIOUS
  <1>6. PICK len \in Nat \ {0} : /\ s + len <= CsHeight[t] + 1
                                 /\ ids = [i \in 1 .. len |-> At(t, s + (i - 1))]
    BY <1>2, <1>4, <1>5 DEF AnswerOK
  <1>7. s \in 0 .. CsHeight[t] /\ s <= CsHeight[mine] /\ At(mine, s) = At(t, s)
    BY <1>2, <1>4 DEF AnswerOK
  <1>8. ASSUME NEW i \in 1 .. len
        PROVE  /\ s + (i - 1) \in 0 .. CsHeight[t] /\ ids[i] = At(t, s + (i - 1))
               /\ ids[i] \in CsBlock /\ CsHeight[ids[i]] = s + (i - 1)
               /\ i > 1 => CsParent[ids[i]] = ids[i - 1]
    <2>1. s + (i - 1) \in 0 .. CsHeight[t] /\ ids[i] = At(t, s + (i - 1))
      BY <1>3, <1>6, <1>7
    <2>2. ids[i] \in CsBlock /\ CsHeight[ids[i]] = s + (i - 1)
      BY <1>3, <2>1 DEF BranchOK
    <2>3. i > 1 => CsParent[ids[i]] = ids[i - 1]
      <3> SUFFICES ASSUME i > 1 PROVE CsParent[ids[i]] = ids[i - 1]
        OBVIOUS
      <3>1. s + (i - 1) > 0 /\ i - 1 \in 1 .. len
        BY <1>7
      <3>2. CsParent[At(t, s + (i - 1))] = At(t, (s + (i - 1)) - 1)
        BY <1>3, <2>1, <3>1 DEF BranchOK
      <3>3. (s + (i - 1)) - 1 = s + ((i - 1) - 1)
        BY <1>7
      <3>4. ids[i - 1] = At(t, s + ((i - 1) - 1))
        BY <1>6, <3>1
      <3> QED
        BY <2>1, <3>2, <3>3, <3>4
    <2> QED
      BY <2>1, <2>2, <2>3
  <1>9. ids \in Seq(CsBlock) /\ Len(ids) = len
    <2>1. DOMAIN ids = 1 .. len /\ len \in Nat /\ ids = [i \in 1 .. len |-> ids[i]]
      BY <1>6
    <2>2. ids \in [1 .. len -> CsBlock]
      BY <1>8, <2>1
    <2> QED
      BY <2>1, <2>2
  <1>10. ids[1] \in my_blocks /\ s = CsHeight[ids[1]]
    <2>1. 1 \in 1 .. len /\ s + (1 - 1) = s
      BY <1>6, <1>7
    <2>2. ids[1] = At(t, s) /\ CsHeight[ids[1]] = s
      BY <1>8, <2>1
    <2>3. s \in 0 .. CsHeight[mine]
      BY <1>3, <1>7
    <2>4. At(mine, s) \in my_blocks
      BY <1>2, <2>3, BranchInClosed
    <2> QED
      BY <1>7, <2>2, <2>4
  <1>11. PICK R : R = Cs!Range(ids)
    OBVIOUS
  <1>12. R = {ids[i] : i \in 1 .. len}
    BY <1>9, <1>11 DEF Cs!Range
  <1>13. R \subseteq CsBlock
    BY <1>8, <1>12
  <1>14. ASSUME NEW x \in R, x # CsGenesis
         PROVE  CsParent[x] \in my_blocks \cup R
    <2>1. PICK i \in 1 .. len : x = ids[i]
      BY <1>12
    <2>2. CASE i = 1
      BY <1>2, <1>10, <1>14, <2>1, <2>2 DEF Closed
    <2>3. CASE i > 1
      <3>1. i - 1 \in 1 .. len
        BY <2>3
      <3> QED
        BY <1>8, <1>12, <2>1, <2>3, <3>1
    <2> QED
      BY <2>1, <2>2, <2>3
  <1>15. Closed(my_blocks \cup R)
    BY <1>2, <1>13, <1>14 DEF Closed
  <1>16. ids[len] \in R
    <2>1. len \in 1 .. len
      OBVIOUS
    <2> QED
      BY <1>12, <2>1
  <1>17. \A i \in 2 .. len : CsParent[ids[i]] = ids[i - 1]
    <2> SUFFICES ASSUME NEW i \in 2 .. len PROVE CsParent[ids[i]] = ids[i - 1]
      OBVIOUS
    <2>1. i \in 1 .. len /\ i > 1
      OBVIOUS
    <2> QED
      BY <1>8, <2>1
  <1>18. ids # <<>>
    BY <1>9
  <1> QED
    BY <1>4, <1>5, <1>9, <1>10, <1>11, <1>15, <1>16, <1>17, <1>18

\* Every step keeps it, whatever the other node moves to in between.
LEMMA RoundsNext ==
  ASSUME RoundsInv, [Cs!Next]_cs
  PROVE  RoundsInv'
  <1>1. CASE UNCHANGED cs
    BY <1>1 DEF cs, RoundsInv
  <1>2. CASE Cs!Ask
    BY <1>2 DEF Cs!Ask, RoundsInv
  <1>3. CASE Cs!Answer
    <2>1. PICK r : r = Cs!get_sync_headers_chain(their_blocks, theirs, locator)
      OBVIOUS
    <2>2. /\ locator # <<>> /\ answer' = {[start |-> r.start, ids |-> r.ids, tip |-> theirs]}
          /\ locator' = <<>>
          /\ UNCHANGED <<mine, my_blocks, theirs, their_blocks>>
      BY <1>3, <2>1 DEF Cs!Answer
    <2>3. mine \in CsBlock /\ theirs \in CsBlock /\ theirs \in their_blocks /\ Closed(their_blocks)
      BY DEF RoundsInv, Closed
    <2>4. r = Cs!get_sync_headers_chain(their_blocks, theirs, Cs!get_sparse_chain(mine))
      BY <2>1, <2>2 DEF RoundsInv
    <2>5. AnswerOK(r, mine, theirs)
      BY <2>3, <2>4, AnswerIsOK
    <2>6. PICK a : a = [start |-> r.start, ids |-> r.ids, tip |-> theirs]
      OBVIOUS
    <2>7. a.tip = theirs /\ AnswerOK(a, mine, theirs)
      BY <2>5, <2>6 DEF AnswerOK
    <2>8. \A b \in answer' : b.tip \in CsBlock /\ AnswerOK(b, mine, b.tip)
      BY <2>2, <2>3, <2>6, <2>7
    <2> QED
      BY <2>2, <2>8 DEF RoundsInv
  <1>4. ASSUME NEW a \in answer, Cs!Store(a)
        PROVE  RoundsInv'
    <2>1. /\ a.ids \in Seq(CsBlock) /\ a.ids # <<>>
          /\ Closed(my_blocks \cup Cs!Range(a.ids))
          /\ a.ids[Len(a.ids)] \in Cs!Range(a.ids)
      BY StoreKeeps
    <2>2. /\ my_blocks' = my_blocks \cup Cs!Range(a.ids)
          /\ mine' \in {mine, Cs!Last(a.ids)} /\ answer' = {}
          /\ UNCHANGED <<theirs, their_blocks, locator>>
      BY <1>4, <2>1 DEF Cs!Store
    <2>3. Cs!Last(a.ids) = a.ids[Len(a.ids)]
      BY DEF Cs!Last
    <2>4. locator = <<>>
      BY DEF RoundsInv
    <2> QED
      BY <2>1, <2>2, <2>3, <2>4 DEF RoundsInv
  <1>5. ASSUME NEW b \in CsBlock, Cs!Move(b)
        PROVE  RoundsInv'
    <2>1. /\ theirs' = b /\ their_blocks' = their_blocks \cup Cs!Stored({b})
          /\ UNCHANGED <<mine, my_blocks, locator, answer>>
      BY <1>5 DEF Cs!Move
    <2>2. Closed(Cs!Stored({b})) /\ b \in Cs!Stored({b})
      BY StoredClosed
    <2>3. Closed(their_blocks')
      BY <2>1, <2>2, ClosedUnion DEF RoundsInv
    <2> QED
      BY <2>1, <2>2, <2>3 DEF RoundsInv
  <1> QED
    BY <1>1, <1>2, <1>3, <1>4, <1>5 DEF Cs!Next, Cs!Exchange

\* The invariant implies that answers connect and repeat little.
LEMMA RoundsSound == RoundsInv => AnswersConnect
  <1> SUFFICES ASSUME RoundsInv PROVE AnswersConnect
    OBVIOUS
  <1>1. Cs!AnswerConnects
    BY StoreKeeps DEF Cs!AnswerConnects
  <1>2. Cs!OverlapBounded
    BY DEF RoundsInv, AnswerOK, Cs!OverlapBounded
  <1> QED
    BY <1>1, <1>2 DEF AnswersConnect

\* For every tree: the answer of get_sync_headers_chain to the sparse chain of a
\* tip is not empty, begins with a block that the asking node has stored, goes on
\* from parent to child, and repeats no more of the node's branch than the node is
\* about to leave, whatever branches the nodes are on and however they moved since
\* (get_sparse_chain, get_sync_headers_chain, NodeDownloader's advance_chain).
THEOREM AnswersAlwaysConnect == SyncSpec => []AnswersConnect
  <1>1. SyncInit => RoundsInv
    BY RoundsInit DEF SyncInit
  <1>2. RoundsInv /\ [SyncNext]_sync => RoundsInv'
    <2>1. [SyncNext]_sync => [Cs!Next]_cs
      BY DEF SyncNext, sync, cs
    <2> QED
      BY <2>1, RoundsNext
  <1> QED
    BY <1>1, <1>2, RoundsSound, PTL DEF SyncSpec

(***************************************************************************)
(* The tree of Downloader, its sparse chains and the answers to them       *)
(***************************************************************************)
\* What the tree is.
LEMMA DlTree ==
  /\ TreeOf(Block, Genesis, Parent, Height, Path)
  /\ Genesis \in Block
  /\ \A b \in Block : Height[b] \in Nat
  /\ \A b \in Block : b # Genesis => Parent[b] \in Block /\ Height[b] = Height[Parent[b]] + 1
  /\ Dense \in Nat /\ MaxIds \in Nat /\ MaxIds > 0
  <1>1. TreeOfBlocks
    BY LocatorAssumption
  <1> QED
    BY <1>1 DEF TreeOfBlocks, TreeOf

\* The known blocks: the parents of all of them are known.
ClosedDl(S) == ClosedIn(S, Block, Genesis, Parent)

LEMMA ShiftIsCs == Shift = Cs!Shift
  BY Zenon DEF Shift, Cs!Shift

LEMMA JumpIsCs == ASSUME NEW n PROVE Jump(n) = Cs!Jump(n)
  BY ShiftIsCs, Zenon DEF Jump, Cs!Jump

LEMMA DlMinMax ==
  /\ \A S \in SUBSET Nat : S # {} => Min(S) \in S /\ \A x \in S : Min(S) <= x
  /\ \A n \in Nat : \A S \in SUBSET (0 .. n) :
       S # {} => Max(S) \in S /\ \A x \in S : x <= Max(S)
  <1>1. ASSUME NEW S, S \subseteq Nat, S # {}
        PROVE  Min(S) \in S /\ \A x \in S : Min(S) <= x
    <2>1. Min(S) = Cs!Min(S)
      BY DEF Min, Cs!Min
    <2> QED
      BY <1>1, <2>1, MinOf
  <1>2. ASSUME NEW n \in Nat, NEW S, S \subseteq 0 .. n, S # {}
        PROVE  Max(S) \in S /\ \A x \in S : x <= Max(S)
    <2>1. Max(S) = Cs!Max(S)
      BY DEF Max, Cs!Max
    <2> QED
      BY <1>2, <2>1, MaxOf
  <1> QED
    BY <1>1, <1>2

\* A sparse chain of a known tip lists known blocks.
LEMMA SparseIsKnown ==
  ASSUME NEW S, ClosedDl(S), NEW t \in S
  PROVE  get_sparse_chain(t) \in Seq(S)
  <1>1. PICK h : h = Height[t]
    OBVIOUS
  <1>2. h \in Nat /\ t \in Block /\ Genesis \in S
    BY <1>1, DlTree DEF ClosedDl, ClosedIn
  <1>3. \A k \in 0 .. h : Path[t][k + 1] \in S
    BY <1>1, DlTree, BranchesInClosed DEF ClosedDl
  <1>4. PICK R : R = {m \in 1 .. (h + 1) : Jump(m) <= h}
    OBVIOUS
  <1>5. R \in SUBSET (0 .. h + 1) /\ h + 1 \in Nat /\ 1 \in R
    <2>1. Jump(1) = 0
      BY JumpIsCs, Jumps
    <2> QED
      BY <1>2, <1>4, <2>1
  <1>6. PICK n : n = Max(R)
    OBVIOUS
  <1>7. n \in R
    <2>1. R # {}
      BY <1>5
    <2> QED
      BY <1>5, <1>6, <2>1, DlMinMax
  <1>8. n \in Nat /\ n >= 1 /\ Jump(n) <= h
    BY <1>2, <1>4, <1>7
  <1>9. ASSUME NEW k \in 1 .. n
        PROVE  Path[t][h - Jump(k) + 1] \in S
    <2>1. Jump(k) \in Nat /\ Jump(n) \in Nat /\ Jump(k) <= Jump(n)
      <3>1. Cs!Jump(k) <= Cs!Jump(n)
        BY <1>8, JumpsGrow
      <3>2. k \in Nat /\ k >= 1
        BY <1>8
      <3>3. Cs!Jump(k) \in Nat /\ Cs!Jump(n) \in Nat
        BY <1>8, <3>2, Jumps, Zenon
      <3>4. Jump(k) = Cs!Jump(k) /\ Jump(n) = Cs!Jump(n)
        BY JumpIsCs
      <3> QED
        BY <3>1, <3>3, <3>4
    <2>2. h - Jump(k) \in 0 .. h
      BY <1>2, <1>8, <2>1
    <2> QED
      BY <1>3, <2>2
  <1>10. PICK p : p = Sparse(t)
    OBVIOUS
  <1>11. p = [m \in 1 .. n |-> Path[t][h - Jump(m) + 1]]
    BY <1>1, <1>4, <1>6, <1>10 DEF Sparse
  <1>12. p \in Seq(S)
    BY <1>8, <1>9, <1>11
  <1>13. get_sparse_chain(t) = IF p[Len(p)] # Genesis THEN Append(p, Genesis) ELSE p
    BY <1>10, Zenon DEF get_sparse_chain
  <1> QED
    BY <1>2, <1>12, <1>13

\* What an answer is: blocks of the tip's branch from a known block on.
Answers(a, S) ==
  /\ a.start \in Nat /\ a.ids \in Seq(Block)
  /\ \A i \in 1 .. Len(a.ids) :
       /\ Height[a.ids[i]] = a.start + (i - 1)
       /\ i > 1 => a.ids[i] # Genesis /\ Parent[a.ids[i]] = a.ids[i - 1]
  /\ a.ids # <<>> => a.ids[1] \in S

\* The answer of any node to a list of known blocks is like that.
LEMMA AnswerIsKnown ==
  ASSUME NEW S, ClosedDl(S), NEW l \in Seq(S), NEW kept, NEW t \in Block
  PROVE  Answers(get_sync_headers_chain(kept, t, l), S)
  <1>1. PICK a : a = get_sync_headers_chain(kept, t, l)
    OBVIOUS
  <1>2. PICK F : F = {n \in DOMAIN l : l[n] \in kept}
    OBVIOUS
  <1>3. Height[t] \in Nat
    BY DlTree
  <1>4. CASE F = {}
    <2>1. a = [start |-> Height[t] + 1, ids |-> <<>>]
      BY <1>1, <1>2, <1>4, Zenon DEF get_sync_headers_chain
    <2>2. a.start \in Nat /\ a.ids = <<>>
      BY <1>3, <2>1
    <2> QED
      BY <1>1, <2>2 DEF Answers
  <1>5. CASE F # {}
    <2>1. PICK b : b = l[Min(F)]
      OBVIOUS
    <2>2. b \in S /\ b \in Block
      <3>1. F \in SUBSET Nat
        BY <1>2
      <3>2. Min(F) \in F
        BY <1>5, <3>1, DlMinMax
      <3> QED
        BY <1>2, <2>1, <3>2 DEF ClosedDl, ClosedIn
    <2>3. PICK hb : hb = Height[b]
      OBVIOUS
    <2>4. hb \in Nat /\ \A k \in 0 .. hb : Path[b][k + 1] \in S
      BY <2>2, <2>3, DlTree, BranchesInClosed DEF ClosedDl
    <2>5. \A x \in Block : BranchOf(Block, Genesis, Parent, Height, Path, x)
      BY DlTree, Branches
    <2>6. /\ Path[b][0 + 1] = Genesis
          /\ \A k \in 0 .. hb : Path[b][k + 1] \in Block /\ Height[Path[b][k + 1]] = k
      BY <2>2, <2>3, <2>5 DEF BranchOf
    <2>7. /\ Path[t][0 + 1] = Genesis
          /\ \A k \in 0 .. Height[t] :
               /\ Path[t][k + 1] \in Block /\ Height[Path[t][k + 1]] = k
               /\ k > 0 => Path[t][k + 1] # Genesis /\ Parent[Path[t][k + 1]] = Path[t][(k - 1) + 1]
      BY <2>5 DEF BranchOf
    <2>8. PICK C : C = {h \in 0 .. hb : On(Path[b][h + 1], t)}
      OBVIOUS
    <2>9. 0 \in C
      <3>1. Height[Genesis] = 0
        BY DlTree DEF TreeOf
      <3> QED
        BY <1>3, <2>4, <2>6, <2>7, <2>8, <3>1 DEF On
    <2>10. PICK m \in C : \A x \in C : x <= m
      BY <2>4, <2>8, <2>9, Greatest
    <2>11. PICK h : h = CommonHeight(b, t)
      OBVIOUS
    <2>12. h \in 0 .. hb /\ On(Path[b][h + 1], t)
      <3>1. m \in 0 .. hb /\ On(Path[b][m + 1], t)
        BY <2>8
      <3>2. \A k \in (m + 1) .. hb : ~On(Path[b][k + 1], t)
        <4> SUFFICES ASSUME NEW k \in (m + 1) .. hb, On(Path[b][k + 1], t) PROVE FALSE
          OBVIOUS
        <4>1. k \in 0 .. hb /\ k > m
          BY <2>4, <3>1
        <4>2. k \in C
          BY <2>8, <4>1
        <4> QED
          BY <2>10, <3>1, <4>1, <4>2
      <3> QED
        BY <2>3, <2>11, <3>1, <3>2, Zenon DEF CommonHeight
    <2>13. h <= Height[t] /\ Path[t][h + 1] = Path[b][h + 1]
      BY <2>6, <2>12 DEF On
    <2>14. a = Answered(t, h)
      BY <1>1, <1>2, <1>5, <2>1, <2>11, Zenon DEF get_sync_headers_chain
    <2>15. PICK len : len = Min({MaxIds, Height[t] + 1 - h})
      OBVIOUS
    <2>16. h \in Nat
      BY <2>4, <2>12
    <2>17. len \in Nat /\ len > 0 /\ h + len <= Height[t] + 1
      <3>1. PICK T : T = {MaxIds, Height[t] + 1 - h}
        OBVIOUS
      <3>2. T \in SUBSET Nat /\ T # {} /\ 0 \notin T /\ Height[t] + 1 - h \in T
        BY <1>3, <2>13, <2>16, <3>1, DlTree
      <3>3. len \in T /\ len <= Height[t] + 1 - h
        BY <2>15, <3>1, <3>2, DlMinMax
      <3> QED
        BY <1>3, <2>16, <3>2, <3>3
    <2>18. a.start = h /\ a.ids = [i \in 1 .. len |-> Path[t][h + i]]
      BY <2>14, <2>15 DEF Answered
    <2>19. ASSUME NEW i \in 1 .. len
           PROVE  /\ a.ids[i] \in Block /\ Height[a.ids[i]] = h + (i - 1)
                  /\ i > 1 => a.ids[i] # Genesis /\ Parent[a.ids[i]] = a.ids[i - 1]
                  /\ i = 1 => a.ids[i] = Path[t][h + 1]
      <3>1. h + (i - 1) \in 0 .. Height[t] /\ (h + (i - 1)) + 1 = h + i
        BY <1>3, <2>16, <2>17
      <3>2. a.ids[i] = Path[t][(h + (i - 1)) + 1]
        BY <2>18, <3>1
      <3>3. ASSUME i > 1
            PROVE  a.ids[i - 1] = Path[t][((h + (i - 1)) - 1) + 1] /\ h + (i - 1) > 0
        <4>1. i - 1 \in 1 .. len /\ ((h + (i - 1)) - 1) + 1 = h + (i - 1)
          BY <2>16, <2>17, <3>3
        <4> QED
          BY <2>16, <2>18, <3>3, <4>1
      <3> QED
        BY <2>7, <2>18, <3>1, <3>2, <3>3
    <2>20. a.ids \in Seq(Block) /\ Len(a.ids) = len
      <3>1. a.ids \in [1 .. len -> Block]
        BY <2>18, <2>19
      <3> QED
        BY <2>17, <3>1
    <2>21. a.ids[1] \in S
      <3>1. 1 \in 1 .. len
        BY <2>17
      <3> QED
        BY <2>4, <2>12, <2>13, <2>19, <3>1
    <2> QED
      BY <1>1, <2>16, <2>18, <2>19, <2>20, <2>21 DEF Answers
  <1> QED
    BY <1>4, <1>5

(***************************************************************************)
(* Repetition and counting                                                 *)
(***************************************************************************)
\* Each value of a repetition lies in its set if each step leads from set to set.
LEMMA RepeatIn ==
  ASSUME NEW k \in Nat, NEW W, NEW f, f[0] \in W[0],
         \A n \in 1 .. k : f[n - 1] \in W[n - 1] => f[n] \in W[n]
  PROVE  \A n \in 0 .. k : f[n] \in W[n]
  <1>1. PICK T : T = {n \in Nat : n <= k => f[n] \in W[n]}
    OBVIOUS
  <1>2. 0 \in T
    BY <1>1
  <1>3. \A n \in Nat : n \in T => n + 1 \in T
    <2> SUFFICES ASSUME NEW n \in Nat, n \in T, n + 1 <= k PROVE f[n + 1] \in W[n + 1]
      BY <1>1
    <2>1. n + 1 \in 1 .. k /\ (n + 1) - 1 = n /\ f[n] \in W[n]
      BY <1>1
    <2> QED
      BY <2>1
  <1>4. \A n \in Nat : n \in T
    BY <1>2, <1>3, Induction
  <1> QED
    BY <1>1, <1>4

\* A repetition exists: the recursive functions of Downloader are defined.
Repetition(f, k, first, step) ==
  f = [n \in 0 .. k |-> IF n = 0 THEN first ELSE step[n][f[n - 1]]]

RepeatedUpTo(f, k, first, step, m) ==
  \A n \in 0 .. k : n <= m => f[n] = IF n = 0 THEN first ELSE step[n][f[n - 1]]

LEMMA RepeatExists ==
  ASSUME NEW k \in Nat, NEW first, NEW step
  PROVE  \E f : Repetition(f, k, first, step)
  <1> DEFINE T == {m \in Nat : \E f : RepeatedUpTo(f, k, first, step, m)}
             next(f) == [n \in 0 .. k |-> IF n = 0 THEN first ELSE step[n][f[n - 1]]]
  <1>1. 0 \in T
    <2>1. PICK f : f = [n \in 0 .. k |-> first]
      OBVIOUS
    <2>2. RepeatedUpTo(f, k, first, step, 0)
      BY <2>1 DEF RepeatedUpTo
    <2> QED
      BY <2>2
  <1>2. \A m \in Nat : m \in T => m + 1 \in T
    <2> SUFFICES ASSUME NEW m \in Nat, NEW f, RepeatedUpTo(f, k, first, step, m)
                 PROVE  \E g : RepeatedUpTo(g, k, first, step, m + 1)
      OBVIOUS
    <2>1. PICK g : g = next(f)
      OBVIOUS
    <2>2. \A n \in 0 .. k : n <= m => g[n] = f[n]
      BY <2>1 DEF RepeatedUpTo
    <2>3. ASSUME NEW n \in 0 .. k, n <= m + 1
          PROVE  g[n] = IF n = 0 THEN first ELSE step[n][g[n - 1]]
      <3>1. CASE n = 0
        BY <2>1, <3>1
      <3>2. CASE n # 0
        <4>1. n - 1 \in 0 .. k /\ n - 1 <= m
          BY <2>3, <3>2
        <4>2. g[n - 1] = f[n - 1]
          BY <2>2, <4>1
        <4> QED
          BY <2>1, <3>2, <4>2
      <3> QED
        BY <3>1, <3>2
    <2>4. RepeatedUpTo(g, k, first, step, m + 1)
      BY <2>3 DEF RepeatedUpTo
    <2> QED
      BY <2>4
  <1>3. k \in T
    <2> HIDE DEF T
    <2> QED
      BY <1>1, <1>2, Induction
  <1>4. PICK f : RepeatedUpTo(f, k, first, step, k)
    BY <1>3
  <1>5. PICK g : g = next(f)
    OBVIOUS
  <1>6. \A n \in 0 .. k : g[n] = f[n]
    BY <1>4, <1>5 DEF RepeatedUpTo
  <1>7. g = next(g)
    <2>1. \A n \in 0 .. k : n # 0 => n - 1 \in 0 .. k
      OBVIOUS
    <2> QED
      BY <1>5, <1>6, <2>1
  <1> QED
    BY <1>7 DEF Repetition

\* Numbers moved by n are as many.
LEMMA Moved ==
  ASSUME NEW n \in Nat, NEW S \in SUBSET Nat, IsFiniteSet(S), NEW T,
         T = {x - n : x \in S}
  PROVE  IsFiniteSet(T) /\ Cardinality(T) = Cardinality(S)
  <1>1. PICK f : f = [x \in S |-> x - n]
    OBVIOUS
  <1>2. f \in [S -> T]
    BY <1>1
  <1>3. ASSUME NEW x \in S, NEW y \in S, f[x] = f[y]
        PROVE  x = y
    BY <1>1, <1>3
  <1>4. ASSUME NEW z \in T
        PROVE  \E x \in S : f[x] = z
    BY <1>1, <1>4
  <1>5. f \in Bijection(S, T)
    BY <1>2, <1>3, <1>4, Zenon DEF Bijection, Injection, Surjection, IsInjective
  <1>6. ExistsBijection(S, T)
    BY <1>5 DEF ExistsBijection
  <1> QED
    BY <1>6, FS_Bijection

\* The indices of a sequence with some property are finitely many.
LEMMA IndicesFinite ==
  ASSUME NEW n \in Nat, NEW S, S \subseteq 1 .. n
  PROVE  IsFiniteSet(S) /\ Cardinality(S) \in Nat
  <1>1. IsFiniteSet(1 .. n)
    BY FS_Interval
  <1>2. IsFiniteSet(S)
    BY <1>1, FS_Subset
  <1> QED
    BY <1>2, FS_CardinalityType

(***************************************************************************)
(* The downloader's invariant                                              *)
(***************************************************************************)
CellSet ==
  [bid : Block \ {Genesis}, height : Nat, client : Client \cup {NoClient},
   status : {DOWNLOADING, PREPARING, PREPARED}, protect : BOOLEAN, late : BOOLEAN]

BlockRequest(b) == [kind |-> "block", bid |-> b]
Requests == {BlockRequest(b) : b \in Block}
            \cup {[kind |-> "chain", locator |-> l] : l \in Seq(Block)}

Counts == UNION {[D -> Nat] : D \in SUBSET Client}

DlSet ==
  [good : Counts, total : Nat, cells : Seq(CellSet), chain : Seq(Block \ {Genesis}),
   start : Nat, client : Client \cup {NoClient}, sent : BOOLEAN, work : Seq(Block),
   asked : [Client -> Seq(Requests)], sync : [Client -> [height : Nat, top : Block]],
   known : SUBSET Block, tip : Block, importing : BOOLEAN, ok : BOOLEAN]

AskedIn(s) == {i \in DOMAIN s.cells : Asked(s.cells[i])}
AskedOf(s, c) == {i \in AskedIn(s) : s.cells[i].client = c}
Pending(s, i) == {j \in 1 .. i : s.cells[j].status = DOWNLOADING}

\* The counters are those of the cells.
Counted(s) ==
  /\ s.ok
  /\ s.total = Cardinality(AskedIn(s))
  /\ \A c \in DOMAIN s.good : s.good[c] = Cardinality(AskedOf(s, c))

\* Clients in use are connected, and a cell has one only while it is downloaded.
Alive(s) ==
  /\ IsFiniteSet(DOMAIN s.good)
  /\ s.client \in DOMAIN s.good \cup {NoClient}
  /\ \A i \in DOMAIN s.cells : s.cells[i].client # NoClient =>
       s.cells[i].client \in DOMAIN s.good /\ s.cells[i].status = DOWNLOADING
  /\ s.sent => s.client # NoClient

Limited(s) == s.total <= MaxDownload /\ Len(s.cells) <= Window

\* Requests went to the cells that are needed first: there is none beyond the
\* first MaxDownload cells that have to be downloaded.
Early(s) == \A i \in AskedIn(s) : Cardinality(Pending(s, i)) <= MaxDownload

\* An unanswered request of c for a block, and for a chain.
BlockAwaited(asked, c, b) == \E n \in DOMAIN asked[c] : asked[c][n] = BlockRequest(b)
ChainAwaited(asked, c) == \E n \in DOMAIN asked[c] : asked[c][n].kind = "chain"

\* What is waited for is under way; P is what threads have or have prepared.
Remembered(s, P) ==
  /\ \A i \in AskedIn(s) :
       BlockAwaited(s.asked, s.cells[i].client, s.cells[i].bid)
  /\ s.sent => ChainAwaited(s.asked, s.client)
  /\ \A i \in DOMAIN s.cells :
       s.cells[i].status = PREPARING => s.cells[i].bid \in Range(s.work) \cup P

\* The cells and the chain are one line of blocks that begins on a known block.
Ordered(s) ==
  /\ \A i \in DOMAIN s.cells :
       /\ s.cells[i].height = Height[s.cells[i].bid]
       /\ s.cells[i].height = s.cells[1].height + (i - 1)
       /\ i > 1 => Parent[s.cells[i].bid] = s.cells[i - 1].bid
  /\ \A i \in DOMAIN s.chain :
       /\ Height[s.chain[i]] = s.start + (i - 1)
       /\ i > 1 => Parent[s.chain[i]] = s.chain[i - 1]
  /\ s.cells # <<>> => Parent[s.cells[1].bid] \in s.known
  /\ s.chain # <<>> => IF s.cells = <<>> THEN Parent[s.chain[1]] \in s.known
                       ELSE Parent[s.chain[1]] = s.cells[Len(s.cells)].bid

\* The known blocks are a tree, and all that was asked for with is known.
Rooted(s) ==
  /\ ClosedDl(s.known) /\ s.tip \in s.known
  /\ \A c \in Client : \A n \in DOMAIN s.asked[c] :
       s.asked[c][n].kind = "chain" => s.asked[c][n].locator \in Seq(s.known)

\* Nothing is downloaded while blocks are read from files or a chain is awaited.
Quiet(s) ==
  /\ s.sent \/ s.importing => s.cells = <<>> /\ s.chain = <<>>
  /\ s.importing => ~s.sent

Core(s, P) ==
  /\ s \in DlSet /\ Counted(s) /\ Alive(s) /\ Limited(s) /\ Early(s)
  /\ Remembered(s, P) /\ Ordered(s) /\ Rooted(s) /\ Quiet(s)

\* No cell waits while a request is free or while one behind it is asked for.
FrontServed(s) ==
  \A i \in DOMAIN s.cells : Waiting(s.cells[i]) =>
    s.total >= MaxDownload /\ \A j \in AskedIn(s) : j < i

\* Sizes of the sets of cells.
LEMMA CellSets ==
  ASSUME NEW s \in DlSet
  PROVE  /\ Len(s.cells) \in Nat /\ DOMAIN s.cells = 1 .. Len(s.cells)
         /\ \A i \in DOMAIN s.cells : s.cells[i] \in CellSet
         /\ IsFiniteSet(AskedIn(s)) /\ Cardinality(AskedIn(s)) \in Nat
         /\ \A c : IsFiniteSet(AskedOf(s, c)) /\ Cardinality(AskedOf(s, c)) \in Nat
         /\ \A i \in DOMAIN s.cells : IsFiniteSet(Pending(s, i)) /\ Cardinality(Pending(s, i)) \in Nat
         /\ DOMAIN s.good \subseteq Client /\ s.good \in [DOMAIN s.good -> Nat]
  <1>1. Len(s.cells) \in Nat /\ DOMAIN s.cells = 1 .. Len(s.cells)
        /\ \A i \in DOMAIN s.cells : s.cells[i] \in CellSet
    BY DEF DlSet
  <1>2. PICK N : N = Len(s.cells)
    OBVIOUS
  <1>3. AskedIn(s) \subseteq 1 .. N /\ \A c : AskedOf(s, c) \subseteq 1 .. N
    BY <1>1, <1>2 DEF AskedIn, AskedOf
  <1>4. \A i \in DOMAIN s.cells : Pending(s, i) \subseteq 1 .. N
    BY <1>1, <1>2 DEF Pending
  <1>5. s.good \in Counts
    BY DEF DlSet
  <1>6. DOMAIN s.good \subseteq Client /\ s.good \in [DOMAIN s.good -> Nat]
    <2>1. PICK D \in SUBSET Client : s.good \in [D -> Nat]
      BY <1>5 DEF Counts
    <2> QED
      BY <2>1
  <1> QED
    BY <1>1, <1>2, <1>3, <1>4, <1>6, IndicesFinite

\* No client is NoClient.
LEMMA NoClientIsNone == NoClient \notin Client
  BY DownloadAssumption

(***************************************************************************)
(* Requests begin and end                                                  *)
(***************************************************************************)
\* The blocks and where they stand are the same; clients may differ.
SameLine(s, t) ==
  /\ Len(t.cells) = Len(s.cells) /\ DOMAIN t.cells = DOMAIN s.cells
  /\ \A j \in DOMAIN s.cells :
       /\ t.cells[j].bid = s.cells[j].bid /\ t.cells[j].height = s.cells[j].height
       /\ t.cells[j].status = s.cells[j].status
  /\ t.chain = s.chain /\ t.start = s.start /\ t.work = s.work /\ t.known = s.known
  /\ t.importing = s.importing
  /\ t.sent => s.sent

\* What depends on them.
LineKept(s, t, P) ==
  /\ Ordered(s) => Ordered(t)
  /\ Quiet(s) => Quiet(t)
  /\ \A j \in DOMAIN s.cells : Pending(t, j) = Pending(s, j)
  /\ (\A j \in DOMAIN s.cells :
       s.cells[j].status = PREPARING => s.cells[j].bid \in Range(s.work) \cup P) =>
     (\A j \in DOMAIN t.cells :
       t.cells[j].status = PREPARING => t.cells[j].bid \in Range(t.work) \cup P)

LEMMA SameLineKeeps ==
  ASSUME NEW s, NEW t, NEW P, s \in DlSet, t \in DlSet, SameLine(s, t)
  PROVE  LineKept(s, t, P)
  <1>1. \A j \in DOMAIN s.cells :
          /\ t.cells[j].bid = s.cells[j].bid /\ t.cells[j].height = s.cells[j].height
          /\ t.cells[j].status = s.cells[j].status
    BY DEF SameLine
  <1>2. DOMAIN s.cells = 1 .. Len(s.cells) /\ Len(s.cells) \in Nat /\ DOMAIN t.cells = DOMAIN s.cells
        /\ Len(t.cells) = Len(s.cells) /\ (t.cells = <<>> <=> s.cells = <<>>)
    BY DEF DlSet, SameLine
  <1>3. Ordered(s) => Ordered(t)
    <2> SUFFICES ASSUME Ordered(s) PROVE Ordered(t)
      OBVIOUS
    <2>1. t.chain = s.chain /\ t.start = s.start /\ t.known = s.known
      BY DEF SameLine
    <2>2. \A j \in DOMAIN t.cells :
            /\ t.cells[j].height = Height[t.cells[j].bid]
            /\ t.cells[j].height = t.cells[1].height + (j - 1)
            /\ j > 1 => Parent[t.cells[j].bid] = t.cells[j - 1].bid
      <3> SUFFICES ASSUME NEW j \in DOMAIN s.cells
                   PROVE  /\ t.cells[j].height = Height[t.cells[j].bid]
                          /\ t.cells[j].height = t.cells[1].height + (j - 1)
                          /\ j > 1 => Parent[t.cells[j].bid] = t.cells[j - 1].bid
        BY <1>2
      <3>1. 1 \in DOMAIN s.cells /\ (j > 1 => j - 1 \in DOMAIN s.cells)
        BY <1>2
      <3>2. /\ s.cells[j].height = Height[s.cells[j].bid]
            /\ s.cells[j].height = s.cells[1].height + (j - 1)
            /\ j > 1 => Parent[s.cells[j].bid] = s.cells[j - 1].bid
        BY DEF Ordered
      <3> QED
        BY <1>1, <3>1, <3>2
    <2>3. s.cells # <<>> => t.cells[1].bid = s.cells[1].bid
                            /\ t.cells[Len(t.cells)].bid = s.cells[Len(s.cells)].bid
      <3> SUFFICES ASSUME s.cells # <<>>
                   PROVE  t.cells[1].bid = s.cells[1].bid
                          /\ t.cells[Len(t.cells)].bid = s.cells[Len(s.cells)].bid
        OBVIOUS
      <3>1. s.cells \in Seq(CellSet)
        BY DEF DlSet
      <3>2. 1 \in DOMAIN s.cells /\ Len(s.cells) \in DOMAIN s.cells
        BY <1>2, <3>1
      <3> QED
        BY <1>1, <1>2, <3>2
    <2> QED
      BY <1>2, <2>1, <2>2, <2>3 DEF Ordered
  <1>4. Quiet(s) => Quiet(t)
    BY <1>2 DEF Quiet, SameLine
  <1>5. \A j \in DOMAIN s.cells : Pending(t, j) = Pending(s, j)
    <2> SUFFICES ASSUME NEW j \in DOMAIN s.cells PROVE Pending(t, j) = Pending(s, j)
      OBVIOUS
    <2>1. \A k \in 1 .. j : k \in DOMAIN s.cells
      BY <1>2
    <2> QED
      BY <1>1, <2>1 DEF Pending
  <1>6. t.work = s.work
    BY DEF SameLine
  <1> QED
    BY <1>1, <1>2, <1>3, <1>4, <1>5, <1>6 DEF LineKept

\* What stop_download leaves alone.
OnlyCell(s, t, i) ==
  /\ Len(t.cells) = Len(s.cells) /\ DOMAIN t.cells = DOMAIN s.cells
  /\ \A j \in DOMAIN s.cells : j # i => t.cells[j] = s.cells[j]
  /\ t.cells[i].bid = s.cells[i].bid /\ t.cells[i].height = s.cells[i].height
  /\ t.cells[i].status = s.cells[i].status
  /\ t.chain = s.chain /\ t.start = s.start /\ t.client = s.client /\ t.sent = s.sent
  /\ t.work = s.work /\ t.sync = s.sync /\ t.known = s.known
  /\ t.tip = s.tip /\ t.importing = s.importing
  /\ DOMAIN t.good = DOMAIN s.good

LEMMA OnlyCellKeeps ==
  ASSUME NEW s, NEW t, NEW i \in DOMAIN s.cells, NEW P, s \in DlSet, t \in DlSet, OnlyCell(s, t, i)
  PROVE  LineKept(s, t, P)
  <1>1. \A j \in DOMAIN s.cells :
          /\ t.cells[j].bid = s.cells[j].bid /\ t.cells[j].height = s.cells[j].height
          /\ t.cells[j].status = s.cells[j].status
    BY DEF OnlyCell
  <1>2. SameLine(s, t)
    BY <1>1 DEF OnlyCell, SameLine
  <1> QED
    BY <1>2, SameLineKeeps

\* stop_download keeps the invariant and takes the cell from its client.
LEMMA StopKeeps ==
  ASSUME NEW s, NEW P, Core(s, P), NEW i \in DOMAIN s.cells, NEW t, t = stop_download(s, i)
  PROVE  /\ Core(t, P) /\ OnlyCell(s, t, i) /\ t.asked = s.asked
         /\ t.total <= s.total
         /\ t.cells[i].client = NoClient
         /\ AskedIn(t) = AskedIn(s) \ {i}
  <1>0. /\ s \in DlSet /\ Counted(s) /\ Alive(s) /\ Limited(s) /\ Early(s)
        /\ Remembered(s, P) /\ Ordered(s) /\ Rooted(s) /\ Quiet(s)
    BY DEF Core
  <1>1. CASE ~Asked(s.cells[i])
    <2>1. t = s
      BY <1>1 DEF stop_download
    <2>2. s.cells[i].client = NoClient
      <3>1. s.cells[i] \in CellSet
        BY <1>0, CellSets
      <3>2. s.cells[i].client # NoClient => s.cells[i].status = DOWNLOADING
        BY <1>0 DEF Alive
      <3> QED
        BY <1>1, <3>2 DEF Asked
    <2>3. i \notin AskedIn(s)
      BY <1>1 DEF AskedIn
    <2>4. s.total \in Nat
      BY <1>0 DEF DlSet
    <2> QED
      BY <1>0, <2>1, <2>2, <2>3, <2>4 DEF OnlyCell
  <1>2. CASE Asked(s.cells[i])
    <2>1. PICK c : c = s.cells[i].client
      OBVIOUS
    <2>2. /\ c \in DOMAIN s.good /\ c \in Client /\ c # NoClient /\ s.cells[i].status = DOWNLOADING
          /\ s.cells[i] \in CellSet
      BY <1>0, <1>2, <2>1, CellSets DEF Asked, Alive
    <2>3. /\ t.cells = [s.cells EXCEPT ![i] = [s.cells[i] EXCEPT !.client = NoClient]]
          /\ t.good = [s.good EXCEPT ![c] = s.good[c] - 1]
          /\ t.total = s.total - 1
          /\ t.ok = (s.ok /\ s.good[c] # 0 /\ s.total # 0)
          /\ t.chain = s.chain /\ t.start = s.start /\ t.client = s.client /\ t.sent = s.sent
          /\ t.work = s.work /\ t.asked = s.asked /\ t.sync = s.sync /\ t.known = s.known
          /\ t.tip = s.tip /\ t.importing = s.importing
      BY <1>0, <1>2, <2>1 DEF stop_download, DlSet
    <2>4. /\ DOMAIN t.cells = DOMAIN s.cells /\ Len(t.cells) = Len(s.cells)
          /\ \A j \in DOMAIN s.cells : j # i => t.cells[j] = s.cells[j]
          /\ t.cells[i] = [s.cells[i] EXCEPT !.client = NoClient]
          /\ s.cells \in Seq(CellSet)
      BY <1>0, <2>3 DEF DlSet
    <2>5. /\ t.cells[i].bid = s.cells[i].bid /\ t.cells[i].height = s.cells[i].height
          /\ t.cells[i].status = s.cells[i].status /\ t.cells[i].client = NoClient
          /\ t.cells[i] \in CellSet
      BY <2>2, <2>4 DEF CellSet
    <2>6. OnlyCell(s, t, i)
      BY <2>3, <2>4, <2>5 DEF OnlyCell
    <2>7. AskedIn(t) = AskedIn(s) \ {i} /\ i \in AskedIn(s)
      <3>1. \A j \in DOMAIN s.cells : Asked(t.cells[j]) <=> Asked(s.cells[j]) /\ j # i
        BY <1>2, <2>4, <2>5 DEF Asked
      <3> QED
        BY <1>2, <2>4, <3>1 DEF AskedIn
    <2>8. AskedOf(t, c) = AskedOf(s, c) \ {i} /\ i \in AskedOf(s, c)
      BY <2>1, <2>4, <2>7 DEF AskedOf, AskedIn
    <2>9. \A d \in DOMAIN s.good : d # c => AskedOf(t, d) = AskedOf(s, d)
      BY <2>1, <2>4, <2>7 DEF AskedOf, AskedIn
    <2>10. /\ s.total = Cardinality(AskedIn(s)) /\ s.total > 0
           /\ t.total = Cardinality(AskedIn(t)) /\ t.total \in Nat
      <3>1. IsFiniteSet(AskedIn(s)) /\ Cardinality(AskedIn(s)) \in Nat
        BY <1>0, CellSets
      <3>2. Cardinality(AskedIn(s) \ {i}) = Cardinality(AskedIn(s)) - 1
            /\ IsFiniteSet(AskedIn(s) \ {i})
        BY <2>7, <3>1, FS_RemoveElement
      <3>3. Cardinality(AskedIn(s) \ {i}) \in Nat
        BY <3>2, FS_CardinalityType
      <3>4. s.total = Cardinality(AskedIn(s))
        BY <1>0 DEF Counted
      <3> QED
        BY <2>3, <2>7, <3>1, <3>2, <3>3, <3>4
    <2>11. /\ s.good[c] = Cardinality(AskedOf(s, c)) /\ s.good[c] > 0
           /\ t.good[c] = Cardinality(AskedOf(t, c)) /\ t.good[c] \in Nat
      <3>1. IsFiniteSet(AskedOf(s, c)) /\ Cardinality(AskedOf(s, c)) \in Nat
        BY <1>0, CellSets
      <3>2. Cardinality(AskedOf(s, c) \ {i}) = Cardinality(AskedOf(s, c)) - 1
            /\ IsFiniteSet(AskedOf(s, c) \ {i})
        BY <2>8, <3>1, FS_RemoveElement
      <3>3. Cardinality(AskedOf(s, c) \ {i}) \in Nat
        BY <3>2, FS_CardinalityType
      <3>4. s.good[c] = Cardinality(AskedOf(s, c))
        BY <1>0, <2>2 DEF Counted
      <3>5. t.good[c] = s.good[c] - 1
        BY <1>0, <2>2, <2>3, CellSets
      <3> QED
        BY <2>8, <3>1, <3>2, <3>3, <3>4, <3>5
    <2>12. /\ DOMAIN t.good = DOMAIN s.good
           /\ \A d \in DOMAIN s.good : d # c => t.good[d] = s.good[d]
           /\ t.good \in Counts
      <3>1. DOMAIN s.good \in SUBSET Client /\ s.good \in [DOMAIN s.good -> Nat]
        BY <1>0, CellSets
      <3>2. t.good \in [DOMAIN s.good -> Nat]
        BY <2>2, <2>3, <2>11, <3>1
      <3> QED
        BY <2>3, <3>1, <3>2 DEF Counts
    <2>13. t.ok = TRUE
      <3>1. s.ok
        BY <1>0 DEF Counted
      <3>2. s.good[c] # 0 /\ s.total # 0
        BY <2>10, <2>11, CellSets, <1>0
      <3> QED
        BY <2>3, <3>1, <3>2, Zenon
    <2>14. t \in DlSet
      <3>1. t.cells \in Seq(CellSet)
        BY <2>3, <2>4, <2>5
      <3>2. t = [s EXCEPT !.cells = t.cells, !.good = t.good, !.total = t.total, !.ok = t.ok]
        BY <1>0, <1>2, <2>1 DEF stop_download, DlSet
      <3> QED
        BY <1>0, <2>10, <2>12, <2>13, <3>1, <3>2 DEF DlSet
    <2>15. Counted(t)
      <3>1. \A d \in DOMAIN t.good : t.good[d] = Cardinality(AskedOf(t, d))
        BY <1>0, <2>9, <2>11, <2>12 DEF Counted
      <3> QED
        BY <2>10, <2>13, <3>1 DEF Counted
    <2>16. Alive(t)
      BY <1>0, <2>3, <2>4, <2>5, <2>12 DEF Alive
    <2>17. Limited(t) /\ t.total <= s.total
      <3>1. s.total \in Nat /\ MaxDownload \in Nat /\ t.total = s.total - 1
        BY <1>0, <2>3, DownloadAssumption DEF DlSet
      <3>2. s.total <= MaxDownload /\ Len(s.cells) <= Window
        BY <1>0 DEF Limited
      <3> QED
        BY <2>4, <3>1, <3>2 DEF Limited
    <2>18. Early(t)
      <3>1. \A j \in AskedIn(t) : Pending(t, j) = Pending(s, j) /\ j \in AskedIn(s)
        BY <1>0, <2>6, <2>7, <2>14, OnlyCellKeeps DEF AskedIn, LineKept
      <3> QED
        BY <1>0, <3>1 DEF Early
    <2>19. Remembered(t, P)
      <3>1. \A j \in AskedIn(t) : t.cells[j] = s.cells[j] /\ j \in AskedIn(s)
        BY <2>4, <2>7 DEF AskedIn
      <3>2. \A j \in DOMAIN t.cells :
              t.cells[j].status = PREPARING => t.cells[j].bid \in Range(t.work) \cup P
        BY <1>0, <2>6, <2>14, OnlyCellKeeps DEF Remembered, LineKept
      <3>3. \A j \in AskedIn(t) :
              BlockAwaited(t.asked, t.cells[j].client, t.cells[j].bid)
        BY <1>0, <2>3, <3>1 DEF Remembered
      <3>4. t.sent => ChainAwaited(t.asked, t.client)
        BY <1>0, <2>3, Zenon DEF Remembered
      <3> QED
        BY <3>2, <3>3, <3>4, Zenon DEF Remembered
    <2>20. Ordered(t) /\ Quiet(t)
      BY <1>0, <2>6, <2>14, OnlyCellKeeps DEF LineKept
    <2>21. Rooted(t)
      BY <1>0, <2>3 DEF Rooted
    <2>22. Core(t, P)
      BY <2>14, <2>15, <2>16, <2>17, <2>18, <2>19, <2>20, <2>21 DEF Core
    <2> QED
      BY <2>3, <2>5, <2>6, <2>7, <2>17, <2>22
  <1> QED
    BY <1>1, <1>2

\* Every chain that a client was asked for was asked for with known blocks.
Asking(asked, S) ==
  \A c \in Client : \A n \in DOMAIN asked[c] :
    asked[c][n].kind = "chain" => asked[c][n].locator \in Seq(S)

\* What a further request q of c changes.
OneMore(asked, more, c, q) ==
  /\ more \in [Client -> Seq(Requests)]
  /\ \A d \in Client : \A b : BlockAwaited(asked, d, b) => BlockAwaited(more, d, b)
  /\ \A d \in Client : ChainAwaited(asked, d) => ChainAwaited(more, d)
  /\ \A b : q = BlockRequest(b) => BlockAwaited(more, c, b)
  /\ q.kind = "chain" => ChainAwaited(more, c)
  /\ \A S : Asking(asked, S) /\ (q.kind = "chain" => q.locator \in Seq(S)) => Asking(more, S)

\* One more request.
LEMMA RequestAdded ==
  ASSUME NEW asked \in [Client -> Seq(Requests)], NEW c \in Client, NEW q \in Requests,
         NEW more, more = [asked EXCEPT ![c] = Append(@, q)]
  PROVE  OneMore(asked, more, c, q)
  <1>1. more \in [Client -> Seq(Requests)]
    OBVIOUS
  <1>2. /\ Len(asked[c]) \in Nat
        /\ DOMAIN asked[c] = 1 .. Len(asked[c]) /\ DOMAIN more[c] = 1 .. Len(asked[c]) + 1
        /\ more[c][Len(asked[c]) + 1] = q
        /\ \A n \in 1 .. Len(asked[c]) : more[c][n] = asked[c][n]
        /\ \A d \in Client : d # c => more[d] = asked[d]
    OBVIOUS
  <1>3. Len(asked[c]) + 1 \in DOMAIN more[c]
        /\ \A n \in DOMAIN asked[c] : n \in DOMAIN more[c]
    BY <1>2
  <1>4. \A d \in Client : \A n \in DOMAIN asked[d] : n \in DOMAIN more[d] /\ more[d][n] = asked[d][n]
    BY <1>2, <1>3
  <1>5. /\ \A d \in Client : \A b : BlockAwaited(asked, d, b) => BlockAwaited(more, d, b)
        /\ \A d \in Client : ChainAwaited(asked, d) => ChainAwaited(more, d)
    BY <1>4 DEF BlockAwaited, ChainAwaited
  <1>6. /\ \A b : q = BlockRequest(b) => BlockAwaited(more, c, b)
        /\ q.kind = "chain" => ChainAwaited(more, c)
    BY <1>2, <1>3 DEF BlockAwaited, ChainAwaited
  <1>7. ASSUME NEW S, Asking(asked, S), q.kind = "chain" => q.locator \in Seq(S)
        PROVE  Asking(more, S)
    <2> SUFFICES ASSUME NEW d \in Client, NEW n \in DOMAIN more[d], more[d][n].kind = "chain"
                 PROVE  more[d][n].locator \in Seq(S)
      BY DEF Asking
    <2>1. CASE d = c /\ n = Len(asked[c]) + 1
      BY <1>2, <1>7, <2>1
    <2>2. CASE ~(d = c /\ n = Len(asked[c]) + 1)
      <3>1. n \in DOMAIN asked[d] /\ more[d][n] = asked[d][n]
        BY <1>2, <2>2
      <3> QED
        BY <1>7, <3>1 DEF Asking
    <2> QED
      BY <2>1, <2>2
  <1> QED
    BY <1>1, <1>5, <1>6, <1>7 DEF OneMore

\* start_download keeps the invariant, of a cell near enough to the front.
LEMMA StartKeeps ==
  ASSUME NEW s, NEW P, Core(s, P), NEW i \in DOMAIN s.cells, Waiting(s.cells[i]),
         NEW c \in DOMAIN s.good, s.total < MaxDownload,
         Cardinality(Pending(s, i)) <= MaxDownload,
         NEW t, t = start_download(s, i, c)
  PROVE  /\ Core(t, P) /\ OnlyCell(s, t, i)
         /\ t.total = s.total + 1
         /\ t.cells[i].client = c
         /\ AskedIn(t) = AskedIn(s) \cup {i}
  <1>0. /\ s \in DlSet /\ Counted(s) /\ Alive(s) /\ Limited(s) /\ Early(s)
        /\ Remembered(s, P) /\ Ordered(s) /\ Rooted(s) /\ Quiet(s)
    BY DEF Core
  <1>1. /\ c \in Client /\ c # NoClient /\ s.cells[i] \in CellSet
        /\ s.cells[i].status = DOWNLOADING /\ s.cells[i].client = NoClient
        /\ s.cells[i].bid \in Block
    BY <1>0, CellSets, NoClientIsNone DEF Waiting, CellSet
  <1>2. PICK q : q = BlockRequest(s.cells[i].bid)
    OBVIOUS
  <1>3. q \in Requests /\ q.kind = "block" /\ q.kind # "chain"
    BY <1>1, <1>2 DEF Requests, BlockRequest
  <1>4. /\ t.cells = [s.cells EXCEPT ![i] = [s.cells[i] EXCEPT !.client = c, !.late = FALSE]]
        /\ t.good = [s.good EXCEPT ![c] = s.good[c] + 1]
        /\ t.total = s.total + 1
        /\ t.ok = s.ok
        /\ t.asked = [s.asked EXCEPT ![c] = Append(s.asked[c], q)]
        /\ t.chain = s.chain /\ t.start = s.start /\ t.client = s.client /\ t.sent = s.sent
        /\ t.work = s.work /\ t.sync = s.sync /\ t.known = s.known
        /\ t.tip = s.tip /\ t.importing = s.importing
    BY <1>0, <1>1, <1>2 DEF start_download, DlSet, BlockRequest
  <1>5. /\ DOMAIN t.cells = DOMAIN s.cells /\ Len(t.cells) = Len(s.cells)
        /\ \A j \in DOMAIN s.cells : j # i => t.cells[j] = s.cells[j]
        /\ t.cells[i] = [s.cells[i] EXCEPT !.client = c, !.late = FALSE]
        /\ s.cells \in Seq(CellSet)
    BY <1>0, <1>4 DEF DlSet
  <1>6. /\ t.cells[i].bid = s.cells[i].bid /\ t.cells[i].height = s.cells[i].height
        /\ t.cells[i].status = s.cells[i].status /\ t.cells[i].client = c
        /\ t.cells[i] \in CellSet
    BY <1>1, <1>5 DEF CellSet
  <1>7. /\ s.asked \in [Client -> Seq(Requests)] /\ s.total \in Nat
        /\ s.good \in [DOMAIN s.good -> Nat] /\ DOMAIN s.good \in SUBSET Client
    BY <1>0, CellSets DEF DlSet
  <1>8. /\ DOMAIN t.good = DOMAIN s.good /\ t.good[c] = s.good[c] + 1
        /\ \A d \in DOMAIN s.good : d # c => t.good[d] = s.good[d]
        /\ t.good \in Counts
    <2>1. t.good \in [DOMAIN s.good -> Nat]
      BY <1>4, <1>7
    <2>2. t.good \in Counts
      BY <1>7, <2>1 DEF Counts
    <2> QED
      BY <1>4, <1>7, <2>2
  <1>9. OnlyCell(s, t, i)
    BY <1>4, <1>5, <1>6, <1>8 DEF OnlyCell
  <1>10. /\ t.asked \in [Client -> Seq(Requests)]
         /\ \A d \in Client : \A b : BlockAwaited(s.asked, d, b) => BlockAwaited(t.asked, d, b)
         /\ \A d \in Client : ChainAwaited(s.asked, d) => ChainAwaited(t.asked, d)
         /\ BlockAwaited(t.asked, c, s.cells[i].bid)
         /\ Asking(s.asked, s.known) => Asking(t.asked, s.known)
    <2>1. PICK ask : ask = s.asked
      OBVIOUS
    <2>2. PICK more : more = t.asked
      OBVIOUS
    <2>3. ask \in [Client -> Seq(Requests)] /\ more = [ask EXCEPT ![c] = Append(@, q)]
      BY <1>4, <1>7, <2>1, <2>2
    <2>4. OneMore(ask, more, c, q)
      BY <1>1, <1>3, <2>3, RequestAdded
    <2> QED
      BY <1>2, <1>3, <2>1, <2>2, <2>4 DEF OneMore
  <1>11. i \notin AskedIn(s) /\ AskedIn(t) = AskedIn(s) \cup {i}
    <2>1. \A j \in DOMAIN s.cells : Asked(t.cells[j]) <=> Asked(s.cells[j]) \/ j = i
      BY <1>1, <1>5, <1>6 DEF Asked
    <2> QED
      BY <1>1, <1>5, <2>1 DEF AskedIn, Asked
  <1>12. i \notin AskedOf(s, c) /\ AskedOf(t, c) = AskedOf(s, c) \cup {i}
    BY <1>5, <1>6, <1>11 DEF AskedOf, AskedIn
  <1>13. \A d \in DOMAIN s.good : d # c => AskedOf(t, d) = AskedOf(s, d)
    BY <1>5, <1>6, <1>11 DEF AskedOf, AskedIn
  <1>14. Counted(t)
    <2>1. /\ IsFiniteSet(AskedIn(s)) /\ Cardinality(AskedIn(s)) \in Nat
          /\ IsFiniteSet(AskedOf(s, c)) /\ Cardinality(AskedOf(s, c)) \in Nat
      BY <1>0, CellSets
    <2>2. /\ Cardinality(AskedIn(t)) = Cardinality(AskedIn(s)) + 1
          /\ Cardinality(AskedOf(t, c)) = Cardinality(AskedOf(s, c)) + 1
      BY <1>11, <1>12, <2>1, FS_AddElement
    <2>3. t.ok
      BY <1>0, <1>4, Zenon DEF Counted
    <2>4. /\ t.total = Cardinality(AskedIn(t))
          /\ \A d \in DOMAIN t.good : t.good[d] = Cardinality(AskedOf(t, d))
      BY <1>0, <1>4, <1>8, <1>13, <2>1, <2>2 DEF Counted
    <2> QED
      BY <2>3, <2>4 DEF Counted
  <1>15. t \in DlSet
    <2>1. t.cells \in Seq(CellSet)
      BY <1>4, <1>5, <1>6
    <2>2. t = [s EXCEPT !.cells = t.cells, !.good = t.good, !.total = t.total, !.asked = t.asked]
      BY <1>0, <1>1 DEF start_download, DlSet
    <2>3. t.total \in Nat /\ t.good \in Counts /\ t.asked \in [Client -> Seq(Requests)]
      BY <1>4, <1>7, <1>8, <1>10
    <2> QED
      BY <1>0, <2>1, <2>2, <2>3 DEF DlSet
  <1>16. Alive(t)
    BY <1>0, <1>1, <1>4, <1>5, <1>6, <1>8 DEF Alive
  <1>17. Limited(t)
    BY <1>0, <1>4, <1>5, <1>7, DownloadAssumption DEF Limited
  <1>18. Early(t)
    <2>1. \A j \in DOMAIN s.cells : Pending(t, j) = Pending(s, j)
      BY <1>0, <1>9, <1>15, OnlyCellKeeps DEF LineKept
    <2>2. \A j \in AskedIn(t) : j \in DOMAIN s.cells /\ (j = i \/ j \in AskedIn(s))
      BY <1>5, <1>11 DEF AskedIn
    <2> QED
      BY <1>0, <2>1, <2>2 DEF Early
  <1>19. Remembered(t, P)
    <2>1. \A j \in AskedIn(s) : j # i /\ t.cells[j] = s.cells[j] /\ s.cells[j].client \in Client
                                /\ BlockAwaited(s.asked, s.cells[j].client, s.cells[j].bid)
      <3> SUFFICES ASSUME NEW j \in AskedIn(s)
                   PROVE  j # i /\ t.cells[j] = s.cells[j] /\ s.cells[j].client \in Client
                          /\ BlockAwaited(s.asked, s.cells[j].client, s.cells[j].bid)
        OBVIOUS
      <3>1. j # i /\ j \in DOMAIN s.cells /\ s.cells[j].client # NoClient
        BY <1>11 DEF AskedIn, Asked
      <3> QED
        BY <1>0, <1>5, <1>7, <3>1 DEF Remembered, Alive
    <2>2. \A j \in AskedIn(t) : BlockAwaited(t.asked, t.cells[j].client, t.cells[j].bid)
      BY <1>6, <1>10, <1>11, <2>1
    <2>3. t.sent => ChainAwaited(t.asked, t.client)
      <3> SUFFICES ASSUME t.sent PROVE ChainAwaited(t.asked, t.client)
        OBVIOUS
      <3>1. s.sent
        BY <1>4, Zenon
      <3>2. s.client # NoClient /\ ChainAwaited(s.asked, s.client)
        BY <1>0, <3>1, Zenon DEF Alive, Remembered
      <3>3. s.client \in Client
        BY <1>0, <3>2 DEF DlSet
      <3> QED
        BY <1>4, <1>10, <3>2, <3>3
    <2>4. \A j \in DOMAIN t.cells :
            t.cells[j].status = PREPARING => t.cells[j].bid \in Range(t.work) \cup P
      BY <1>0, <1>9, <1>15, OnlyCellKeeps DEF Remembered, LineKept
    <2> QED
      BY <2>2, <2>3, <2>4, Zenon DEF Remembered
  <1>20. Ordered(t) /\ Quiet(t)
    BY <1>0, <1>9, <1>15, OnlyCellKeeps DEF LineKept
  <1>21. Rooted(t)
    <2>1. Asking(s.asked, s.known)
      BY <1>0 DEF Rooted, Asking
    <2>2. Asking(t.asked, s.known)
      BY <1>10, <2>1
    <2> QED
      BY <1>0, <1>4, <2>2 DEF Rooted, Asking
  <1>22. Core(t, P)
    BY <1>14, <1>15, <1>16, <1>17, <1>18, <1>19, <1>20, <1>21 DEF Core
  <1> QED
    BY <1>4, <1>6, <1>9, <1>11, <1>22

(***************************************************************************)
(* "cleaning chain"                                                        *)
(***************************************************************************)
\* What is left when the cells from i on are gone.
CutAt(t, s, P, i) ==
  /\ Core(t, P)
  /\ Len(t.cells) = i - 1 /\ \A j \in 1 .. i - 1 : t.cells[j] = s.cells[j]
  /\ t.chain = <<>> /\ t.importing = s.importing /\ t.sent = s.sent /\ t.client = s.client

\* The cells from i on, without clients, are given up with the chain.
LEMMA CutKeeps ==
  ASSUME NEW s, NEW P, Core(s, P), NEW i \in DOMAIN s.cells,
         \A j \in DOMAIN s.cells : j >= i => s.cells[j].client = NoClient,
         NEW t, t = [s EXCEPT !.cells = SubSeq(@, 1, i - 1), !.chain = <<>>]
  PROVE  CutAt(t, s, P, i)
  <1>0. /\ s \in DlSet /\ Counted(s) /\ Alive(s) /\ Limited(s) /\ Early(s)
        /\ Remembered(s, P) /\ Ordered(s) /\ Rooted(s) /\ Quiet(s)
    BY DEF Core
  <1>1. /\ s.cells \in Seq(CellSet) /\ Len(s.cells) \in Nat /\ DOMAIN s.cells = 1 .. Len(s.cells)
        /\ i \in 1 .. Len(s.cells)
    BY <1>0 DEF DlSet
  <1>2. /\ t.cells = SubSeq(s.cells, 1, i - 1) /\ t.chain = <<>>
        /\ t.good = s.good /\ t.total = s.total /\ t.ok = s.ok
        /\ t.asked = s.asked /\ t.start = s.start /\ t.client = s.client /\ t.sent = s.sent
        /\ t.work = s.work /\ t.sync = s.sync /\ t.known = s.known
        /\ t.tip = s.tip /\ t.importing = s.importing
    BY <1>0 DEF DlSet
  <1>3. /\ t.cells \in Seq(CellSet) /\ Len(t.cells) = i - 1 /\ DOMAIN t.cells = 1 .. i - 1
        /\ \A j \in 1 .. i - 1 : t.cells[j] = s.cells[j] /\ j \in DOMAIN s.cells
    BY <1>1, <1>2
  <1>4. t \in DlSet
    <2>1. <<>> \in Seq(Block \ {Genesis})
      OBVIOUS
    <2>2. t = [s EXCEPT !.cells = t.cells, !.chain = <<>>]
      BY <1>2
    <2> QED
      BY <1>0, <1>3, <2>1, <2>2 DEF DlSet
  <1>5. AskedIn(t) = AskedIn(s)
    <2>1. \A j \in AskedIn(s) : j \in 1 .. i - 1
      <3> SUFFICES ASSUME NEW j \in AskedIn(s) PROVE j \in 1 .. i - 1
        OBVIOUS
      <3>1. j \in 1 .. Len(s.cells) /\ s.cells[j].client # NoClient
        BY <1>1 DEF AskedIn, Asked
      <3>2. ~(j >= i)
        BY <1>1, <3>1
      <3> QED
        BY <1>1, <3>1, <3>2
    <2> QED
      BY <1>3, <2>1 DEF AskedIn
  <1>6. \A c : AskedOf(t, c) = AskedOf(s, c)
    <2>1. \A j \in AskedIn(t) : t.cells[j] = s.cells[j]
      BY <1>3 DEF AskedIn
    <2> QED
      BY <1>5, <2>1 DEF AskedOf
  <1>7. Counted(t)
    BY <1>0, <1>2, <1>5, <1>6 DEF Counted
  <1>8. Alive(t)
    BY <1>0, <1>2, <1>3 DEF Alive
  <1>9. Limited(t)
    <2>1. Len(s.cells) <= Window /\ Window \in Nat
      BY <1>0, DownloadAssumption DEF Limited
    <2>2. i - 1 <= Window
      BY <1>1, <2>1
    <2> QED
      BY <1>0, <1>2, <1>3, <2>2 DEF Limited
  <1>10. Early(t)
    <2>1. ASSUME NEW j \in AskedIn(t)
          PROVE  Pending(t, j) = Pending(s, j)
      <3>1. j \in 1 .. i - 1 /\ \A k \in 1 .. j : k \in 1 .. i - 1
        BY <1>1, <1>3 DEF AskedIn
      <3> QED
        BY <1>3, <3>1 DEF Pending
    <2> QED
      BY <1>0, <1>5, <2>1 DEF Early
  <1>11. Remembered(t, P)
    <2>1. \A j \in AskedIn(t) : t.cells[j] = s.cells[j]
      BY <1>3 DEF AskedIn
    <2>2. \A j \in AskedIn(t) : BlockAwaited(t.asked, t.cells[j].client, t.cells[j].bid)
      BY <1>0, <1>2, <1>5, <2>1 DEF Remembered
    <2>3. t.sent => ChainAwaited(t.asked, t.client)
      BY <1>0, <1>2, Zenon DEF Remembered
    <2>4. \A j \in DOMAIN t.cells :
            t.cells[j].status = PREPARING => t.cells[j].bid \in Range(t.work) \cup P
      BY <1>0, <1>2, <1>3 DEF Remembered
    <2> QED
      BY <2>2, <2>3, <2>4, Zenon DEF Remembered
  <1>12. Ordered(t)
    <2>1. \A j \in DOMAIN t.cells :
            /\ t.cells[j].height = Height[t.cells[j].bid]
            /\ t.cells[j].height = t.cells[1].height + (j - 1)
            /\ j > 1 => Parent[t.cells[j].bid] = t.cells[j - 1].bid
      <3> SUFFICES ASSUME NEW j \in 1 .. i - 1
                   PROVE  /\ t.cells[j].height = Height[t.cells[j].bid]
                          /\ t.cells[j].height = t.cells[1].height + (j - 1)
                          /\ j > 1 => Parent[t.cells[j].bid] = t.cells[j - 1].bid
        BY <1>3
      <3>1. /\ t.cells[j] = s.cells[j] /\ t.cells[1] = s.cells[1]
            /\ j > 1 => t.cells[j - 1] = s.cells[j - 1]
            /\ j \in DOMAIN s.cells
        <4>1. 1 \in 1 .. i - 1 /\ (j > 1 => j - 1 \in 1 .. i - 1)
          BY <1>1
        <4> QED
          BY <1>3, <4>1
      <3> QED
        BY <1>0, <3>1 DEF Ordered
    <2>2. t.cells # <<>> => t.cells[1] = s.cells[1] /\ s.cells # <<>>
      BY <1>1, <1>3
    <2>3. \A j \in DOMAIN t.chain : FALSE
      BY <1>2
    <2> QED
      BY <1>0, <1>2, <2>1, <2>2, <2>3 DEF Ordered
  <1>13. Rooted(t)
    BY <1>0, <1>2 DEF Rooted
  <1>14. Quiet(t)
    <2>1. s.cells # <<>>
      BY <1>1
    <2>2. ~s.sent /\ ~s.importing
      BY <1>0, <2>1, Zenon DEF Quiet
    <2> QED
      BY <1>2, <2>2, Zenon DEF Quiet
  <1> QED
    BY <1>2, <1>3, <1>4, <1>7, <1>8, <1>9, <1>10, <1>11, <1>12, <1>13, <1>14 DEF Core, CutAt

\* The cells from i on lose their clients one by one.
Stopping(f, s, i) ==
  f = [n \in 0 .. Len(s.cells) - i + 1 |->
         IF n = 0 THEN s ELSE stop_download(f[n - 1], i + n - 1)]

StoppedAt(u, s, P, i, n) ==
  /\ Core(u, P)
  /\ Len(u.cells) = Len(s.cells) /\ DOMAIN u.cells = DOMAIN s.cells
  /\ \A j \in 1 .. i - 1 : u.cells[j] = s.cells[j]
  /\ \A j \in i .. i + n - 1 : u.cells[j].client = NoClient
  /\ u.importing = s.importing /\ u.sent = s.sent /\ u.client = s.client

LEMMA StopNext ==
  ASSUME NEW s, NEW P, NEW i \in DOMAIN s.cells, s \in DlSet,
         NEW n \in 1 .. Len(s.cells) - i + 1, NEW u, StoppedAt(u, s, P, i, n - 1),
         NEW t, t = stop_download(u, i + n - 1)
  PROVE  StoppedAt(t, s, P, i, n)
  <1>1. PICK k : k = i + n - 1
    OBVIOUS
  <1>2. /\ Len(s.cells) \in Nat /\ DOMAIN s.cells = 1 .. Len(s.cells) /\ i \in 1 .. Len(s.cells)
        /\ k \in DOMAIN u.cells /\ k >= i /\ k \in Nat
    BY <1>1 DEF DlSet, StoppedAt
  <1>3. /\ Core(t, P) /\ OnlyCell(u, t, k)
        /\ t.cells[k].client = NoClient
    BY <1>1, <1>2, StopKeeps DEF StoppedAt
  <1>4. \A j \in 1 .. i - 1 : t.cells[j] = s.cells[j]
    <2> SUFFICES ASSUME NEW j \in 1 .. i - 1 PROVE t.cells[j] = s.cells[j]
      OBVIOUS
    <2>1. j \in DOMAIN u.cells /\ j # k
      BY <1>2 DEF StoppedAt
    <2> QED
      BY <1>3, <2>1 DEF OnlyCell, StoppedAt
  <1>5. \A j \in i .. i + n - 1 : t.cells[j].client = NoClient
    <2> SUFFICES ASSUME NEW j \in i .. i + n - 1, j # k PROVE t.cells[j].client = NoClient
      BY <1>3
    <2>1. j \in DOMAIN u.cells /\ j \in i .. i + (n - 1) - 1
      BY <1>1, <1>2 DEF StoppedAt
    <2>2. u.cells[j].client = NoClient
      BY <2>1 DEF StoppedAt
    <2> QED
      BY <1>3, <2>1, <2>2 DEF OnlyCell
  <1> QED
    BY <1>3, <1>4, <1>5 DEF OnlyCell, StoppedAt

LEMMA StoppingExists ==
  ASSUME NEW s, NEW P, Core(s, P), NEW i \in DOMAIN s.cells
  PROVE  \E f : Stopping(f, s, i)
  <1>1. PICK k : k = Len(s.cells) - i + 1
    OBVIOUS
  <1>2. k \in Nat /\ s \in DlSet
    BY <1>1 DEF Core, DlSet
  <1>3. PICK W : W = [n \in 0 .. k |-> {u \in DlSet : StoppedAt(u, s, P, i, n)}]
    OBVIOUS
  <1>4. PICK step : step = [n \in 1 .. k |-> [u \in DlSet |-> stop_download(u, i + n - 1)]]
    OBVIOUS
  <1>5. PICK f : Repetition(f, k, s, step)
    BY <1>2, RepeatExists
  <1>6. f = [n \in 0 .. k |-> IF n = 0 THEN s ELSE step[n][f[n - 1]]]
    BY <1>5 DEF Repetition
  <1>7. f[0] \in W[0]
    <2>1. StoppedAt(s, s, P, i, 0)
      <3>1. \A j \in i .. i + 0 - 1 : FALSE
        BY <1>2 DEF DlSet
      <3> QED
        BY <3>1 DEF StoppedAt
    <2> QED
      BY <1>2, <1>3, <1>6, <2>1
  <1>8. ASSUME NEW n \in 1 .. k, f[n - 1] \in W[n - 1]
        PROVE  f[n] \in W[n] /\ f[n] = stop_download(f[n - 1], i + n - 1)
    <2>1. n - 1 \in 0 .. k /\ n \in 0 .. k /\ n # 0
      BY <1>2
    <2>2. f[n - 1] \in DlSet /\ StoppedAt(f[n - 1], s, P, i, n - 1)
      BY <1>3, <1>8, <2>1
    <2>3. f[n] = stop_download(f[n - 1], i + n - 1)
      BY <1>4, <1>6, <2>1, <2>2
    <2>4. StoppedAt(f[n], s, P, i, n)
      BY <1>1, <1>2, <2>2, <2>3, StopNext
    <2>5. f[n] \in DlSet
      BY <2>4 DEF StoppedAt, Core
    <2> QED
      BY <1>3, <2>1, <2>3, <2>4, <2>5
  <1>9. \A n \in 0 .. k : f[n] \in W[n]
    BY <1>2, <1>7, <1>8, RepeatIn
  <1>10. \A n \in 1 .. k : n - 1 \in 0 .. k /\ f[n] = stop_download(f[n - 1], i + n - 1)
    <2> SUFFICES ASSUME NEW n \in 1 .. k
                 PROVE  n - 1 \in 0 .. k /\ f[n] = stop_download(f[n - 1], i + n - 1)
      OBVIOUS
    <2>1. n - 1 \in 0 .. k
      BY <1>2
    <2> QED
      BY <1>8, <1>9, <2>1
  <1>11. f = [n \in 0 .. k |-> IF n = 0 THEN s ELSE stop_download(f[n - 1], i + n - 1)]
    <2>1. ASSUME NEW n \in 0 .. k
          PROVE  f[n] = IF n = 0 THEN s ELSE stop_download(f[n - 1], i + n - 1)
      <3>1. CASE n = 0
        BY <1>6, <3>1
      <3>2. CASE n # 0
        <4>1. n \in 1 .. k
          BY <3>2
        <4> QED
          BY <1>10, <3>2, <4>1
      <3> QED
        BY <3>1, <3>2
    <2> QED
      BY <1>6, <2>1
  <1> QED
    BY <1>1, <1>11 DEF Stopping

\* Cleaning keeps the invariant, and the cells in front.
LEMMA CleanKeeps ==
  ASSUME NEW s, NEW P, Core(s, P), NEW i \in DOMAIN s.cells, NEW t, t = Cleaned(s, i)
  PROVE  CutAt(t, s, P, i)
  <1>1. PICK f : f = CHOOSE g : Stopping(g, s, i)
    OBVIOUS
  <1>2. Stopping(f, s, i)
    BY <1>1, StoppingExists
  <1>3. PICK k : k = Len(s.cells) - i + 1
    OBVIOUS
  <1>4. k \in Nat /\ k > 0 /\ s \in DlSet /\ Len(s.cells) \in Nat /\ DOMAIN s.cells = 1 .. Len(s.cells)
    BY <1>3 DEF Core, DlSet
  <1>5. PICK u : u = f[k]
    OBVIOUS
  <1>6. t = [u EXCEPT !.cells = SubSeq(@, 1, i - 1), !.chain = <<>>]
    BY <1>1, <1>3, <1>5 DEF Cleaned, Stopping
  <1>7. PICK W : W = [n \in 0 .. k |-> {v \in DlSet : StoppedAt(v, s, P, i, n)}]
    OBVIOUS
  <1>8. f[0] \in W[0]
    <2>1. f[0] = s
      BY <1>2, <1>3, <1>4 DEF Stopping
    <2>2. StoppedAt(s, s, P, i, 0)
      <3>1. \A j \in i .. i + 0 - 1 : FALSE
        BY <1>4
      <3> QED
        BY <3>1 DEF StoppedAt
    <2> QED
      BY <1>4, <1>7, <2>1, <2>2
  <1>9. ASSUME NEW n \in 1 .. k, f[n - 1] \in W[n - 1]
        PROVE  f[n] \in W[n]
    <2>1. n - 1 \in 0 .. k /\ n \in 0 .. k /\ n # 0
      BY <1>4
    <2>2. StoppedAt(f[n - 1], s, P, i, n - 1)
      BY <1>7, <1>9, <2>1
    <2>3. f[n] = stop_download(f[n - 1], i + n - 1)
      BY <1>2, <1>3, <2>1 DEF Stopping
    <2>4. StoppedAt(f[n], s, P, i, n)
      BY <1>3, <1>4, <2>2, <2>3, StopNext
    <2>5. f[n] \in DlSet
      BY <2>4 DEF StoppedAt, Core
    <2> QED
      BY <1>7, <2>1, <2>4, <2>5
  <1>10. \A n \in 0 .. k : f[n] \in W[n]
    BY <1>4, <1>8, <1>9, RepeatIn
  <1>11. StoppedAt(u, s, P, i, k)
    BY <1>4, <1>5, <1>7, <1>10
  <1>12. /\ Core(u, P) /\ i \in DOMAIN u.cells
         /\ \A j \in DOMAIN u.cells : j >= i => u.cells[j].client = NoClient
    <2>1. \A j \in 1 .. Len(s.cells) : j >= i => j \in i .. i + k - 1
      BY <1>3, <1>4
    <2> QED
      BY <1>4, <1>11, <2>1 DEF StoppedAt
  <1>13. CutAt(t, u, P, i)
    BY <1>6, <1>12, CutKeeps
  <1> QED
    BY <1>11, <1>13 DEF StoppedAt, CutAt

(***************************************************************************)
(* Disconnections                                                          *)
(***************************************************************************)
\* What a disconnection leaves of the state.
Without(s, t, c) ==
  /\ SameLine(s, t)
  /\ DOMAIN t.good = DOMAIN s.good \ {c}
  /\ t.tip = s.tip
  /\ t.sync = [s.sync EXCEPT ![c] = NoSync]
  /\ t.client = IF s.client = c THEN NoClient ELSE s.client

\* on_disconnect keeps the invariant.
LEMMA DisconnectedKeeps ==
  ASSUME NEW s, NEW P, Core(s, P), NEW c \in DOMAIN s.good, NEW t, t = Disconnected(s, c)
  PROVE  Core(t, P) /\ Without(s, t, c)
  <1>0. /\ s \in DlSet /\ Counted(s) /\ Alive(s) /\ Limited(s) /\ Early(s)
        /\ Remembered(s, P) /\ Ordered(s) /\ Rooted(s) /\ Quiet(s)
    BY DEF Core
  <1>1. /\ c \in Client /\ c # NoClient
        /\ DOMAIN s.good \in SUBSET Client /\ s.good \in [DOMAIN s.good -> Nat]
        /\ s.cells \in Seq(CellSet) /\ Len(s.cells) \in Nat /\ DOMAIN s.cells = 1 .. Len(s.cells)
        /\ s.asked \in [Client -> Seq(Requests)] /\ s.total \in Nat
        /\ s.client \in Client \cup {NoClient}
        /\ s.sync \in [Client -> [height : Nat, top : Block]]
    BY <1>0, CellSets, NoClientIsNone DEF DlSet
  <1>2. /\ t.cells = [i \in DOMAIN s.cells |->
             IF s.cells[i].client = c THEN [s.cells[i] EXCEPT !.client = NoClient] ELSE s.cells[i]]
        /\ t.good = [d \in DOMAIN s.good \ {c} |-> s.good[d]]
        /\ t.total = s.total - s.good[c]
        /\ t.ok = (s.ok /\ s.total >= s.good[c])
        /\ t.client = (IF s.client = c THEN NoClient ELSE s.client)
        /\ t.sent = (s.sent /\ s.client # c)
        /\ t.sync = [s.sync EXCEPT ![c] = NoSync]
        /\ t.asked = [s.asked EXCEPT ![c] = <<>>]
        /\ t.chain = s.chain /\ t.start = s.start /\ t.work = s.work /\ t.known = s.known
        /\ t.tip = s.tip /\ t.importing = s.importing
    BY <1>0 DEF Disconnected, DlSet
  <1>3. ASSUME NEW i \in DOMAIN s.cells
        PROVE  /\ t.cells[i].bid = s.cells[i].bid /\ t.cells[i].height = s.cells[i].height
               /\ t.cells[i].status = s.cells[i].status /\ t.cells[i] \in CellSet
               /\ t.cells[i].client = IF s.cells[i].client = c THEN NoClient ELSE s.cells[i].client
    <2>1. s.cells[i] \in CellSet
      BY <1>1
    <2> QED
      BY <1>2, <2>1 DEF CellSet
  <1>4. t.cells \in Seq(CellSet) /\ Len(t.cells) = Len(s.cells) /\ DOMAIN t.cells = DOMAIN s.cells
    <2>1. PICK N \in Nat : N = Len(s.cells)
      BY <1>1
    <2>2. DOMAIN t.cells = 1 .. N
      BY <1>1, <1>2, <2>1
    <2>3. t.cells \in [1 .. N -> CellSet]
      BY <1>1, <1>2, <1>3, <2>1, <2>2
    <2>4. t.cells \in Seq(CellSet) /\ Len(t.cells) = N
      BY <2>3
    <2> QED
      BY <1>1, <2>1, <2>2, <2>4
  <1>5. AskedOf(s, c) \subseteq AskedIn(s) /\ AskedIn(t) = AskedIn(s) \ AskedOf(s, c)
    <2>1. \A i \in DOMAIN s.cells :
            Asked(t.cells[i]) <=> Asked(s.cells[i]) /\ s.cells[i].client # c
      BY <1>3 DEF Asked
    <2> QED
      BY <1>4, <2>1 DEF AskedIn, AskedOf
  <1>6. \A d \in DOMAIN s.good : d # c => AskedOf(t, d) = AskedOf(s, d)
    <2>1. \A i \in AskedIn(s) : i \in DOMAIN s.cells
      BY DEF AskedIn
    <2>2. \A i \in AskedIn(t) : i \in AskedIn(s) /\ t.cells[i].client = s.cells[i].client
      BY <1>3, <1>5, <2>1 DEF AskedOf
    <2>3. ASSUME NEW d \in DOMAIN s.good, d # c, NEW i \in AskedOf(s, d)
          PROVE  i \in AskedOf(t, d)
      <3>1. i \in AskedIn(s) /\ s.cells[i].client = d
        BY <2>3 DEF AskedOf
      <3>2. i \in AskedIn(t)
        BY <1>5, <2>3, <3>1 DEF AskedOf
      <3> QED
        BY <2>2, <3>1, <3>2 DEF AskedOf
    <2>4. ASSUME NEW d \in DOMAIN s.good, d # c, NEW i \in AskedOf(t, d)
          PROVE  i \in AskedOf(s, d)
      BY <2>2, <2>4 DEF AskedOf
    <2> QED
      BY <2>3, <2>4
  <1>7. /\ s.total >= s.good[c] /\ t.total = Cardinality(AskedIn(t)) /\ t.total \in Nat
        /\ t.total <= s.total
    <2>1. /\ IsFiniteSet(AskedIn(s)) /\ Cardinality(AskedIn(s)) \in Nat
          /\ IsFiniteSet(AskedOf(s, c)) /\ Cardinality(AskedOf(s, c)) \in Nat
      BY <1>0, CellSets
    <2>2. AskedIn(s) \cap AskedOf(s, c) = AskedOf(s, c)
      BY <1>5
    <2>3. /\ Cardinality(AskedIn(t)) = Cardinality(AskedIn(s)) - Cardinality(AskedOf(s, c))
          /\ IsFiniteSet(AskedIn(t))
      BY <1>5, <2>1, <2>2, FS_Difference
    <2>4. Cardinality(AskedIn(t)) \in Nat
      BY <2>3, FS_CardinalityType
    <2>5. s.total = Cardinality(AskedIn(s)) /\ s.good[c] = Cardinality(AskedOf(s, c))
      BY <1>0 DEF Counted
    <2> QED
      BY <1>2, <2>1, <2>3, <2>4, <2>5
  <1>8. t.ok = TRUE
    <2>1. s.ok
      BY <1>0 DEF Counted
    <2> QED
      BY <1>2, <1>7, <2>1, Zenon
  <1>9. /\ t.good \in Counts /\ DOMAIN t.good = DOMAIN s.good \ {c}
        /\ \A d \in DOMAIN t.good : t.good[d] = s.good[d]
    <2>1. t.good \in [DOMAIN s.good \ {c} -> Nat] /\ DOMAIN s.good \ {c} \in SUBSET Client
      BY <1>1, <1>2
    <2>2. t.good \in Counts
      BY <2>1 DEF Counts
    <2> QED
      BY <1>2, <2>2
  <1>10. /\ t.asked \in [Client -> Seq(Requests)] /\ t.asked[c] = <<>>
         /\ \A d \in Client : d # c => t.asked[d] = s.asked[d]
    <2>1. <<>> \in Seq(Requests)
      OBVIOUS
    <2> QED
      BY <1>1, <1>2, <2>1
  <1>11. t.sync \in [Client -> [height : Nat, top : Block]]
    <2>1. NoSync \in [height : Nat, top : Block]
      BY DlTree DEF NoSync
    <2> QED
      BY <1>1, <1>2, <2>1
  <1>12. t \in DlSet
    <2>1. /\ t.client \in Client \cup {NoClient} /\ t.sent \in BOOLEAN
      BY <1>1, <1>2
    <2>2. t = [s EXCEPT !.good = t.good, !.total = t.total, !.cells = t.cells, !.client = t.client,
                        !.sent = t.sent, !.asked = t.asked, !.sync = t.sync, !.ok = t.ok]
      BY <1>0 DEF Disconnected, DlSet
    <2> QED
      BY <1>0, <1>4, <1>7, <1>8, <1>9, <1>10, <1>11, <2>1, <2>2 DEF DlSet
  <1>13. Counted(t)
    <2>1. \A d \in DOMAIN t.good : t.good[d] = Cardinality(AskedOf(t, d))
      BY <1>0, <1>6, <1>9 DEF Counted
    <2> QED
      BY <1>7, <1>8, <2>1 DEF Counted
  <1>14. Alive(t)
    <2>1. IsFiniteSet(DOMAIN t.good)
      BY <1>0, <1>9, FS_RemoveElement DEF Alive
    <2>2. t.client \in DOMAIN t.good \cup {NoClient}
      BY <1>0, <1>2, <1>9 DEF Alive
    <2>3. \A i \in DOMAIN t.cells : t.cells[i].client # NoClient =>
            t.cells[i].client \in DOMAIN t.good /\ t.cells[i].status = DOWNLOADING
      BY <1>0, <1>3, <1>4, <1>9 DEF Alive
    <2>4. t.sent => t.client # NoClient
      BY <1>0, <1>2, Zenon DEF Alive
    <2> QED
      BY <2>1, <2>2, <2>3, <2>4, Zenon DEF Alive
  <1>15. Limited(t)
    <2>1. MaxDownload \in Nat
      BY DownloadAssumption
    <2> QED
      BY <1>0, <1>1, <1>4, <1>7, <2>1 DEF Limited
  <1>16. SameLine(s, t)
    <2>1. t.sent => s.sent
      BY <1>2, Zenon
    <2> QED
      BY <1>2, <1>3, <1>4, <2>1, Zenon DEF SameLine
  <1>17. LineKept(s, t, P)
    BY <1>0, <1>12, <1>16, SameLineKeeps
  <1>18. Early(t)
    <2>1. \A j \in AskedIn(t) : j \in AskedIn(s) /\ j \in DOMAIN s.cells
      BY <1>5 DEF AskedIn
    <2> QED
      BY <1>0, <1>17, <2>1 DEF Early, LineKept
  <1>19. Remembered(t, P)
    <2>1. ASSUME NEW j \in AskedIn(t)
          PROVE  BlockAwaited(t.asked, t.cells[j].client, t.cells[j].bid)
      <3>1. j \in AskedIn(s) /\ j \in DOMAIN s.cells /\ s.cells[j].client # c
            /\ s.cells[j].client # NoClient
        BY <1>5 DEF AskedIn, AskedOf, Asked
      <3>2. BlockAwaited(s.asked, s.cells[j].client, s.cells[j].bid)
        BY <1>0, <3>1 DEF Remembered
      <3>3. s.cells[j].client \in Client
        BY <1>0, <1>1, <3>1 DEF Alive
      <3>4. t.cells[j].client = s.cells[j].client /\ t.cells[j].bid = s.cells[j].bid
        BY <1>3, <3>1
      <3> QED
        BY <1>10, <3>1, <3>2, <3>3, <3>4 DEF BlockAwaited
    <2>2. t.sent => ChainAwaited(t.asked, t.client)
      <3> SUFFICES ASSUME t.sent PROVE ChainAwaited(t.asked, t.client)
        OBVIOUS
      <3>1. s.sent /\ s.client # c
        BY <1>2, Zenon
      <3>2. s.client # NoClient /\ ChainAwaited(s.asked, s.client)
        BY <1>0, <3>1, Zenon DEF Alive, Remembered
      <3>3. s.client \in Client /\ t.client = s.client
        BY <1>1, <1>2, <3>1, <3>2
      <3> QED
        BY <1>10, <3>1, <3>2, <3>3 DEF ChainAwaited
    <2>3. \A j \in DOMAIN t.cells :
            t.cells[j].status = PREPARING => t.cells[j].bid \in Range(t.work) \cup P
      BY <1>0, <1>17 DEF Remembered, LineKept
    <2> QED
      BY <2>1, <2>2, <2>3, Zenon DEF Remembered
  <1>20. Rooted(t)
    <2>1. \A d \in Client : \A n \in DOMAIN t.asked[d] :
            t.asked[d][n].kind = "chain" => t.asked[d][n].locator \in Seq(s.known)
      <3> SUFFICES ASSUME NEW d \in Client, NEW n \in DOMAIN t.asked[d],
                          t.asked[d][n].kind = "chain"
                   PROVE  t.asked[d][n].locator \in Seq(s.known)
        OBVIOUS
      <3>1. d # c
        BY <1>10
      <3> QED
        BY <1>0, <1>10, <3>1 DEF Rooted
    <2> QED
      BY <1>0, <1>2, <2>1 DEF Rooted
  <1>21. Core(t, P)
    BY <1>0, <1>12, <1>13, <1>14, <1>15, <1>17, <1>18, <1>19, <1>20 DEF Core, LineKept
  <1> QED
    BY <1>2, <1>9, <1>16, <1>21 DEF Without

(***************************************************************************)
(* advance_chain                                                           *)
(***************************************************************************)
\* The chain's client is forgotten when nothing is left of the chain.
LEMMA ForgetKeeps ==
  ASSUME NEW s, NEW P, Core(s, P), ~s.sent, NEW t, t = [s EXCEPT !.client = NoClient]
  PROVE  Core(t, P)
  <1>0. /\ s \in DlSet /\ Counted(s) /\ Alive(s) /\ Limited(s) /\ Early(s)
        /\ Remembered(s, P) /\ Ordered(s) /\ Rooted(s) /\ Quiet(s)
    BY DEF Core
  <1>1. /\ t.cells = s.cells /\ t.good = s.good /\ t.total = s.total /\ t.ok = s.ok
        /\ t.client = NoClient /\ t.sent = s.sent /\ t.asked = s.asked
        /\ t.chain = s.chain /\ t.start = s.start /\ t.work = s.work /\ t.known = s.known
        /\ t.tip = s.tip /\ t.importing = s.importing /\ t \in DlSet
    BY <1>0 DEF DlSet
  <1>2. ~t.sent
    BY <1>1, Zenon
  <1>3. AskedIn(t) = AskedIn(s) /\ (\A c : AskedOf(t, c) = AskedOf(s, c))
        /\ \A j : Pending(t, j) = Pending(s, j)
    BY <1>1 DEF AskedIn, AskedOf, Pending
  <1>4. Counted(t) /\ Alive(t) /\ Limited(t) /\ Early(t)
    BY <1>0, <1>1, <1>2, <1>3 DEF Counted, Alive, Limited, Early
  <1>5. Remembered(t, P)
    BY <1>0, <1>1, <1>2, <1>3 DEF Remembered
  <1>6. Ordered(t) /\ Rooted(t)
    BY <1>0, <1>1 DEF Ordered, Rooted
  <1>7. Quiet(t)
    BY <1>0, <1>1, <1>2, Zenon DEF Quiet
  <1> QED
    BY <1>1, <1>4, <1>5, <1>6, <1>7 DEF Core

Idle0(s) == s.cells = <<>> /\ s.chain = <<>> /\ ~s.sent /\ ~s.importing

\* One lagging client after the other is disconnected.
Excess(s) == IF Cardinality(Lagging(s)) > MaxLagging
             THEN Cardinality(Lagging(s)) - MaxLagging ELSE 0

Dropping(f, s) ==
  f = [n \in 0 .. Excess(s) |->
         IF n = 0 THEN [s EXCEPT !.client = NoClient]
         ELSE Disconnected(f[n - 1], CHOOSE c \in Lagging(f[n - 1]) : TRUE)]

DroppedAt(u, s, P, n) ==
  /\ Core(u, P) /\ Idle0(u)
  /\ Cardinality(Lagging(u)) = Cardinality(Lagging(s)) - n

LEMMA LaggingFinite ==
  ASSUME NEW s, NEW P, Core(s, P)
  PROVE  Lagging(s) \subseteq DOMAIN s.good /\ IsFiniteSet(Lagging(s))
         /\ Cardinality(Lagging(s)) \in Nat /\ Excess(s) \in Nat
         /\ Excess(s) <= Cardinality(Lagging(s))
  <1>1. Lagging(s) \subseteq DOMAIN s.good
    BY DEF Lagging
  <1>2. IsFiniteSet(Lagging(s))
    BY <1>1, FS_Subset DEF Core, Alive
  <1>3. Cardinality(Lagging(s)) \in Nat
    BY <1>2, FS_CardinalityType
  <1> QED
    BY <1>1, <1>2, <1>3, DownloadAssumption DEF Excess

LEMMA DropNext ==
  ASSUME NEW s, NEW P, Core(s, P), NEW n \in 1 .. Excess(s), NEW u, DroppedAt(u, s, P, n - 1),
         NEW t, t = Disconnected(u, CHOOSE c \in Lagging(u) : TRUE)
  PROVE  DroppedAt(t, s, P, n)
  <1>1. PICK c : c = CHOOSE d \in Lagging(u) : TRUE
    OBVIOUS
  <1>2. Core(u, P) /\ Idle0(u) /\ Cardinality(Lagging(u)) = Cardinality(Lagging(s)) - (n - 1)
    BY DEF DroppedAt
  <1>3. /\ Lagging(u) \subseteq DOMAIN u.good /\ IsFiniteSet(Lagging(u))
        /\ Cardinality(Lagging(s)) \in Nat /\ Excess(s) \in Nat
        /\ Excess(s) <= Cardinality(Lagging(s))
    BY <1>2, LaggingFinite
  <1>4. Lagging(u) # {}
    <2>1. Cardinality(Lagging(u)) > 0
      BY <1>2, <1>3
    <2> QED
      BY <2>1, FS_EmptySet
  <1>5. c \in Lagging(u) /\ c \in DOMAIN u.good
    BY <1>1, <1>3, <1>4
  <1>6. Core(t, P) /\ Without(u, t, c)
    BY <1>1, <1>2, <1>5, DisconnectedKeeps
  <1>7. /\ u.cells \in Seq(CellSet) /\ DOMAIN u.good \subseteq Client
        /\ u.sync \in [Client -> [height : Nat, top : Block]]
        /\ t.cells \in Seq(CellSet)
    BY <1>2, <1>6, CellSets DEF Core, DlSet
  <1>8. Idle0(t)
    <2>1. u.cells = <<>> /\ u.chain = <<>> /\ ~u.sent /\ ~u.importing
      BY <1>2 DEF Idle0
    <2>2. Len(t.cells) = 0 /\ t.chain = <<>>
      BY <1>6, <2>1 DEF Without, SameLine
    <2>3. t.cells = <<>>
      BY <1>7, <2>2
    <2>4. ~t.sent /\ ~t.importing
      BY <1>6, <2>1, Zenon DEF Without, SameLine
    <2> QED
      BY <2>2, <2>3, <2>4 DEF Idle0
  <1>9. Lagging(t) = Lagging(u) \ {c}
    <2>1. /\ DOMAIN t.good = DOMAIN u.good \ {c} /\ t.tip = u.tip
          /\ \A d \in DOMAIN t.good : t.sync[d] = u.sync[d]
      BY <1>6, <1>7 DEF Without
    <2> QED
      BY <2>1 DEF Lagging
  <1>10. Cardinality(Lagging(t)) = Cardinality(Lagging(u)) - 1
    BY <1>3, <1>5, <1>9, FS_RemoveElement
  <1>11. Cardinality(Lagging(t)) = Cardinality(Lagging(s)) - n
    BY <1>2, <1>3, <1>10
  <1> QED
    BY <1>6, <1>8, <1>11 DEF DroppedAt

LEMMA DropFirst ==
  ASSUME NEW s, NEW P, Core(s, P), Idle0(s)
  PROVE  DroppedAt([s EXCEPT !.client = NoClient], s, P, 0)
  <1>1. PICK t : t = [s EXCEPT !.client = NoClient]
    OBVIOUS
  <1>2. Core(t, P)
    BY <1>1, ForgetKeeps DEF Idle0
  <1>3. /\ t.cells = s.cells /\ t.chain = s.chain /\ t.sent = s.sent /\ t.importing = s.importing
        /\ t.good = s.good /\ t.tip = s.tip /\ t.sync = s.sync
    BY <1>1 DEF Core, DlSet
  <1>4. Idle0(t)
    BY <1>3, Zenon DEF Idle0
  <1>5. Lagging(t) = Lagging(s)
    BY <1>3 DEF Lagging
  <1>6. Cardinality(Lagging(s)) \in Nat
    BY LaggingFinite
  <1> QED
    BY <1>1, <1>2, <1>4, <1>5, <1>6 DEF DroppedAt

LEMMA DroppingExists ==
  ASSUME NEW s, NEW P, Core(s, P), Idle0(s)
  PROVE  \E f : Dropping(f, s)
  <1>1. PICK k : k = Excess(s)
    OBVIOUS
  <1>2. k \in Nat /\ s \in DlSet
    BY <1>1, LaggingFinite DEF Core
  <1>3. PICK first : first = [s EXCEPT !.client = NoClient]
    OBVIOUS
  <1>4. PICK W : W = [n \in 0 .. k |-> {u \in DlSet : DroppedAt(u, s, P, n)}]
    OBVIOUS
  <1>5. PICK step : step = [n \in 1 .. k |-> [u \in DlSet |->
                                 Disconnected(u, CHOOSE c \in Lagging(u) : TRUE)]]
    OBVIOUS
  <1>6. PICK f : Repetition(f, k, first, step)
    BY <1>2, RepeatExists
  <1>7. f = [n \in 0 .. k |-> IF n = 0 THEN first ELSE step[n][f[n - 1]]]
    BY <1>6 DEF Repetition
  <1>8. f[0] \in W[0]
    <2>1. DroppedAt(first, s, P, 0)
      BY <1>3, DropFirst
    <2>2. first \in DlSet
      BY <2>1 DEF DroppedAt, Core
    <2> QED
      BY <1>2, <1>4, <1>7, <2>1, <2>2
  <1>9. ASSUME NEW n \in 1 .. k, f[n - 1] \in W[n - 1]
        PROVE  f[n] \in W[n] /\ f[n] = Disconnected(f[n - 1], CHOOSE c \in Lagging(f[n - 1]) : TRUE)
    <2>1. n - 1 \in 0 .. k /\ n \in 0 .. k /\ n # 0
      BY <1>2
    <2>2. f[n - 1] \in DlSet /\ DroppedAt(f[n - 1], s, P, n - 1)
      BY <1>4, <1>9, <2>1
    <2>3. f[n] = Disconnected(f[n - 1], CHOOSE c \in Lagging(f[n - 1]) : TRUE)
      BY <1>5, <1>7, <2>1, <2>2
    <2>4. DroppedAt(f[n], s, P, n)
      BY <1>1, <2>2, <2>3, DropNext
    <2>5. f[n] \in DlSet
      BY <2>4 DEF DroppedAt, Core
    <2> QED
      BY <1>4, <2>1, <2>3, <2>4, <2>5
  <1>10. \A n \in 0 .. k : f[n] \in W[n]
    BY <1>2, <1>8, <1>9, RepeatIn
  <1>11. ASSUME NEW n \in 0 .. k
         PROVE  f[n] = IF n = 0 THEN first
                       ELSE Disconnected(f[n - 1], CHOOSE c \in Lagging(f[n - 1]) : TRUE)
    <2>1. CASE n = 0
      BY <1>7, <2>1
    <2>2. CASE n # 0
      <3>1. n \in 1 .. k /\ n - 1 \in 0 .. k
        BY <1>2, <2>2
      <3> QED
        BY <1>9, <1>10, <2>2, <3>1
    <2> QED
      BY <2>1, <2>2
  <1>12. f = [n \in 0 .. k |-> IF n = 0 THEN first
                   ELSE Disconnected(f[n - 1], CHOOSE c \in Lagging(f[n - 1]) : TRUE)]
    BY <1>7, <1>11
  <1>13. Dropping(f, s)
    BY <1>1, <1>3, <1>12, Zenon DEF Dropping
  <1> QED
    BY <1>13

\* Disconnecting lagging clients keeps the invariant.
LEMMA DropKeeps ==
  ASSUME NEW s, NEW P, Core(s, P), Idle0(s)
  PROVE  Core(Dropped(s), P) /\ Idle0(Dropped(s))
  <1>1. PICK f : f = CHOOSE g : Dropping(g, s)
    OBVIOUS
  <1>2. Dropping(f, s)
    BY <1>1, DroppingExists
  <1>3. PICK k : k = Excess(s)
    OBVIOUS
  <1>4. k \in Nat
    BY <1>3, LaggingFinite
  <1>5. Dropped(s) = f[k]
    BY <1>1, <1>3 DEF Dropped, Dropping, Excess
  <1>6. PICK W : W = [n \in 0 .. k |-> {u \in DlSet : DroppedAt(u, s, P, n)}]
    OBVIOUS
  <1>7. f[0] \in W[0]
    <2>1. f[0] = [s EXCEPT !.client = NoClient]
      BY <1>2, <1>3, <1>4 DEF Dropping
    <2>2. DroppedAt(f[0], s, P, 0)
      BY <2>1, DropFirst
    <2>3. f[0] \in DlSet
      BY <2>2 DEF DroppedAt, Core
    <2> QED
      BY <1>4, <1>6, <2>2, <2>3
  <1>8. ASSUME NEW n \in 1 .. k, f[n - 1] \in W[n - 1]
        PROVE  f[n] \in W[n]
    <2>1. n - 1 \in 0 .. k /\ n \in 0 .. k /\ n # 0
      BY <1>4
    <2>2. DroppedAt(f[n - 1], s, P, n - 1)
      BY <1>6, <1>8, <2>1
    <2>3. f[n] = Disconnected(f[n - 1], CHOOSE c \in Lagging(f[n - 1]) : TRUE)
      BY <1>2, <1>3, <2>1 DEF Dropping
    <2>4. DroppedAt(f[n], s, P, n)
      BY <1>3, <2>2, <2>3, DropNext
    <2>5. f[n] \in DlSet
      BY <2>4 DEF DroppedAt, Core
    <2> QED
      BY <1>6, <2>1, <2>4, <2>5
  <1>9. \A n \in 0 .. k : f[n] \in W[n]
    BY <1>4, <1>7, <1>8, RepeatIn
  <1>10. DroppedAt(f[k], s, P, k)
    BY <1>4, <1>6, <1>9
  <1> QED
    BY <1>5, <1>10 DEF DroppedAt

\* A request for a chain, with the sparse chain of the tip.
LEMMA RequestKeeps ==
  ASSUME NEW s, NEW P, Core(s, P), Idle0(s), NEW c \in DOMAIN s.good,
         NEW t, t = RequestChain(s, c)
  PROVE  Core(t, P) /\ t.cells = <<>> /\ t.chain = <<>> /\ ~t.importing
  <1>0. /\ s \in DlSet /\ Counted(s) /\ Alive(s) /\ Limited(s) /\ Early(s)
        /\ Remembered(s, P) /\ Ordered(s) /\ Rooted(s) /\ Quiet(s)
        /\ s.cells = <<>> /\ s.chain = <<>> /\ ~s.sent /\ ~s.importing
    BY DEF Core, Idle0
  <1>1. PICK q : q = [kind |-> "chain", locator |-> get_sparse_chain(s.tip)]
    OBVIOUS
  <1>2. /\ c \in Client /\ c # NoClient /\ s.asked \in [Client -> Seq(Requests)]
        /\ s.known \in SUBSET Block
    BY <1>0, CellSets, NoClientIsNone DEF DlSet
  <1>3. get_sparse_chain(s.tip) \in Seq(s.known)
    BY <1>0, SparseIsKnown DEF Rooted
  <1>4. get_sparse_chain(s.tip) \in Seq(Block)
    BY <1>2, <1>3
  <1>5. q \in Requests /\ q.kind = "chain" /\ q.locator \in Seq(s.known)
    BY <1>1, <1>3, <1>4 DEF Requests
  <1>6. /\ t.cells = s.cells /\ t.good = s.good /\ t.total = s.total /\ t.ok = s.ok
        /\ t.client = c /\ t.sent = TRUE /\ t.asked = [s.asked EXCEPT ![c] = Append(s.asked[c], q)]
        /\ t.chain = s.chain /\ t.start = s.start /\ t.work = s.work /\ t.known = s.known
        /\ t.tip = s.tip /\ t.importing = s.importing /\ t.sync = s.sync
    BY <1>0, <1>1 DEF RequestChain, DlSet
  <1>7. OneMore(s.asked, t.asked, c, q)
    <2>1. PICK ask : ask = s.asked
      OBVIOUS
    <2>2. PICK more : more = t.asked
      OBVIOUS
    <2>3. ask \in [Client -> Seq(Requests)] /\ more = [ask EXCEPT ![c] = Append(@, q)]
      BY <1>2, <1>6, <2>1, <2>2
    <2>4. OneMore(ask, more, c, q)
      BY <1>2, <1>5, <2>3, RequestAdded
    <2> QED
      BY <2>1, <2>2, <2>4
  <1>8. t \in DlSet
    <2>1. t = [s EXCEPT !.client = c, !.sent = TRUE, !.asked = t.asked]
      BY <1>0, <1>1 DEF RequestChain, DlSet
    <2>2. t.asked \in [Client -> Seq(Requests)]
      BY <1>7 DEF OneMore
    <2> QED
      BY <1>0, <1>2, <2>1, <2>2 DEF DlSet
  <1>9. AskedIn(t) = {} /\ AskedIn(s) = {} /\ (\A d : AskedOf(t, d) = AskedOf(s, d))
    BY <1>0, <1>6 DEF AskedIn, AskedOf
  <1>10. Counted(t)
    BY <1>0, <1>6, <1>9 DEF Counted
  <1>11. Alive(t)
    BY <1>0, <1>2, <1>6 DEF Alive
  <1>12. Limited(t) /\ Early(t)
    BY <1>0, <1>6, <1>9 DEF Limited, Early
  <1>13. Remembered(t, P)
    <2>1. ChainAwaited(t.asked, c)
      BY <1>5, <1>7 DEF OneMore
    <2> QED
      BY <1>0, <1>6, <1>9, <2>1 DEF Remembered
  <1>14. Ordered(t)
    BY <1>0, <1>6 DEF Ordered
  <1>15. Rooted(t)
    <2>1. Asking(s.asked, s.known)
      BY <1>0 DEF Rooted, Asking
    <2>2. Asking(t.asked, s.known)
      BY <1>5, <1>7, <2>1 DEF OneMore
    <2> QED
      BY <1>0, <1>6, <2>2 DEF Rooted, Asking
  <1>16. Quiet(t)
    BY <1>0, <1>6 DEF Quiet
  <1> QED
    BY <1>0, <1>6, <1>8, <1>10, <1>11, <1>12, <1>13, <1>14, <1>15, <1>16 DEF Core

\* advance_chain keeps the invariant; it does something only without cells.
Advanced(t, s, P) ==
  /\ Core(t, P) /\ ~t.importing
  /\ t = s \/ (s.cells = <<>> /\ s.chain = <<>> /\ t.cells = <<>> /\ t.chain = <<>>)

LEMMA AdvanceChainKeeps ==
  ASSUME NEW s, NEW P, Core(s, P), ~s.importing, NEW ch
  PROVE  Advanced(advance_chain(s, ch), s, P)
  <1>1. CASE s.chain # <<>> \/ s.cells # <<>> \/ s.sent
    BY <1>1 DEF advance_chain, Advanced
  <1>2. CASE ~(s.chain # <<>> \/ s.cells # <<>> \/ s.sent)
    <2>1. Idle0(s)
      BY <1>2 DEF Idle0
    <2>2. PICK u : u = Dropped(s)
      OBVIOUS
    <2>3. Core(u, P) /\ Idle0(u)
      BY <2>1, <2>2, DropKeeps
    <2>4. advance_chain(s, ch) = AskOneOf(u, worth_clients(u), ch)
      BY <1>2, <2>2 DEF advance_chain, AskForChain
    <2>5. CASE worth_clients(u) = {}
      <3>1. advance_chain(s, ch) = u
        BY <2>4, <2>5 DEF AskOneOf
      <3> QED
        BY <1>2, <2>3, <3>1 DEF Advanced, Idle0
    <2>6. CASE worth_clients(u) # {}
      <3>1. PICK c : c = Pick(worth_clients(u), ch[1])
        OBVIOUS
      <3>2. c \in worth_clients(u)
        BY <2>6, <3>1 DEF Pick
      <3>3. c \in DOMAIN u.good
        BY <3>2 DEF worth_clients
      <3>4. advance_chain(s, ch) = RequestChain(u, c)
        BY <2>4, <2>6, <3>1 DEF AskOneOf
      <3> QED
        BY <1>2, <2>3, <3>3, <3>4, RequestKeeps DEF Advanced
    <2> QED
      BY <2>5, <2>6
  <1> QED
    BY <1>1, <1>2

(***************************************************************************)
(* The window                                                              *)
(***************************************************************************)
\* New cells for the next blocks of the chain keep the invariant.
LEMMA FilledKeeps ==
  ASSUME NEW s, NEW P, Core(s, P), ~s.importing, NEW t, t = Filled(s)
  PROVE  Core(t, P) /\ ~t.importing
  <1>0. /\ s \in DlSet /\ Counted(s) /\ Alive(s) /\ Limited(s) /\ Early(s)
        /\ Remembered(s, P) /\ Ordered(s) /\ Rooted(s) /\ Quiet(s)
    BY DEF Core
  <1>1. PICK n : n = Min({Window - Len(s.cells), Len(s.chain)})
    OBVIOUS
  <1>2. PICK N : N = Len(s.cells)
    OBVIOUS
  <1>3. /\ s.cells \in Seq(CellSet) /\ N \in Nat /\ DOMAIN s.cells = 1 .. N
        /\ s.chain \in Seq(Block \ {Genesis}) /\ Len(s.chain) \in Nat
        /\ DOMAIN s.chain = 1 .. Len(s.chain) /\ s.start \in Nat
        /\ N <= Window /\ Window \in Nat
    BY <1>0, <1>2, DownloadAssumption DEF DlSet, Limited
  <1>4. n \in Nat /\ n <= Window - N /\ n <= Len(s.chain)
    <2>1. PICK S : S = {Window - N, Len(s.chain)}
      OBVIOUS
    <2>2. S \in SUBSET Nat /\ S # {} /\ Window - N \in S /\ Len(s.chain) \in S
      BY <1>3, <2>1
    <2>3. n \in S /\ \A x \in S : n <= x
      BY <1>1, <1>2, <2>1, <2>2, DlMinMax
    <2> QED
      BY <2>2, <2>3
  <1>5. PICK new : new = [k \in 1 .. n |-> DownloadCell(s.chain[k], s.start + k - 1)]
    OBVIOUS
  <1>6. /\ t.cells = s.cells \o new
        /\ t.chain = SubSeq(s.chain, n + 1, Len(s.chain))
        /\ t.start = s.start + n
        /\ t.good = s.good /\ t.total = s.total /\ t.ok = s.ok
        /\ t.client = s.client /\ t.sent = s.sent /\ t.asked = s.asked
        /\ t.work = s.work /\ t.known = s.known
        /\ t.tip = s.tip /\ t.importing = s.importing /\ t.sync = s.sync
    BY <1>0, <1>1, <1>5 DEF Filled, DlSet
  <1>7. ASSUME NEW k \in 1 .. n
        PROVE  /\ new[k] \in CellSet /\ new[k].bid = s.chain[k] /\ new[k].height = s.start + k - 1
               /\ new[k].client = NoClient /\ new[k].status = DOWNLOADING
    <2>1. s.chain[k] \in Block \ {Genesis} /\ s.start + k - 1 \in Nat
      BY <1>3, <1>4
    <2> QED
      BY <1>5, <2>1 DEF DownloadCell, CellSet
  <1>8. new \in Seq(CellSet) /\ Len(new) = n
    <2>1. new \in [1 .. n -> CellSet]
      BY <1>5, <1>7
    <2> QED
      BY <1>4, <2>1
  <1>9. /\ t.cells \in Seq(CellSet) /\ Len(t.cells) = N + n /\ DOMAIN t.cells = 1 .. N + n
        /\ \A j \in 1 .. N : t.cells[j] = s.cells[j]
        /\ \A k \in 1 .. n : t.cells[N + k] = new[k]
    <2>1. PICK z : z = s.cells
      OBVIOUS
    <2>2. PICK w : w = z \o new
      OBVIOUS
    <2>3. z \in Seq(CellSet) /\ Len(z) = N /\ new \in Seq(CellSet) /\ Len(new) = n
      BY <1>2, <1>3, <1>8, <2>1
    <2>4. /\ w \in Seq(CellSet) /\ Len(w) = N + n
          /\ \A j \in 1 .. N : w[j] = z[j]
          /\ \A k \in 1 .. n : w[N + k] = new[k]
      <3>1. w \in Seq(CellSet) /\ Len(w) = N + n
        BY <1>3, <1>4, <2>2, <2>3
      <3>2. \A j \in 1 .. N + n : w[j] = IF j <= N THEN z[j] ELSE new[j - N]
        BY <1>3, <1>4, <2>2, <2>3
      <3>3. \A k \in 1 .. n : N + k \in 1 .. N + n /\ ~(N + k <= N) /\ (N + k) - N = k
        BY <1>3, <1>4
      <3>4. \A j \in 1 .. N : j \in 1 .. N + n /\ j <= N
        BY <1>3, <1>4
      <3> QED
        BY <3>1, <3>2, <3>3, <3>4
    <2>5. DOMAIN w = 1 .. N + n
      BY <2>4
    <2>6. t.cells = w
      BY <1>6, <2>1, <2>2
    <2> QED
      BY <2>1, <2>4, <2>5, <2>6
  <1>10. /\ t.chain \in Seq(Block \ {Genesis}) /\ Len(t.chain) = Len(s.chain) - n
         /\ DOMAIN t.chain = 1 .. Len(s.chain) - n
         /\ \A k \in 1 .. Len(s.chain) - n : t.chain[k] = s.chain[n + k]
    <2>1. PICK z : z = s.chain
      OBVIOUS
    <2>2. PICK w : w = SubSeq(z, n + 1, Len(z))
      OBVIOUS
    <2>3. z \in Seq(Block \ {Genesis}) /\ n <= Len(z) /\ Len(z) \in Nat
      BY <1>3, <1>4, <2>1
    <2>4. /\ w \in Seq(Block \ {Genesis}) /\ Len(w) = Len(z) - n
          /\ \A k \in 1 .. Len(z) - n : w[k] = z[n + k]
      BY <1>4, <2>2, <2>3
    <2>5. DOMAIN w = 1 .. Len(z) - n
      BY <2>4
    <2>6. t.chain = w
      BY <1>6, <2>1, <2>2
    <2> QED
      BY <2>1, <2>4, <2>5, <2>6
  <1>11. t \in DlSet
    <2>1. t = [s EXCEPT !.cells = t.cells, !.chain = t.chain, !.start = t.start]
      BY <1>0, <1>1, <1>5 DEF Filled, DlSet
    <2>2. t.start \in Nat
      BY <1>3, <1>4, <1>6
    <2> QED
      BY <1>0, <1>9, <1>10, <2>1, <2>2 DEF DlSet
  <1>12. ASSUME NEW j \in 1 .. N + n
         PROVE  \/ j \in 1 .. N /\ t.cells[j] = s.cells[j]
                \/ \E k \in 1 .. n : j = N + k /\ t.cells[j] = new[k]
    <2>1. CASE j \in 1 .. N
      BY <1>9, <2>1
    <2>2. CASE j \notin 1 .. N
      <3>1. j - N \in 1 .. n /\ j = N + (j - N)
        BY <1>3, <1>4, <2>2
      <3> QED
        BY <1>9, <3>1
    <2> QED
      BY <2>1, <2>2
  <1>13. AskedIn(t) = AskedIn(s)
    <2>1. ASSUME NEW j \in AskedIn(t)
          PROVE  j \in AskedIn(s)
      <3>1. j \in 1 .. N + n /\ t.cells[j].client # NoClient
        BY <1>9 DEF AskedIn, Asked
      <3>2. j \in 1 .. N /\ t.cells[j] = s.cells[j]
        BY <1>7, <1>12, <3>1
      <3> QED
        BY <1>3, <3>2 DEF AskedIn
    <2>2. ASSUME NEW j \in AskedIn(s)
          PROVE  j \in AskedIn(t)
      <3>1. j \in 1 .. N /\ j \in 1 .. N + n
        BY <1>3, <1>4 DEF AskedIn
      <3> QED
        BY <1>9, <3>1 DEF AskedIn
    <2> QED
      BY <2>1, <2>2
  <1>14. \A j \in AskedIn(s) : j \in 1 .. N /\ t.cells[j] = s.cells[j]
    BY <1>3, <1>9 DEF AskedIn
  <1>15. \A c : AskedOf(t, c) = AskedOf(s, c)
    BY <1>13, <1>14 DEF AskedOf
  <1>16. Counted(t)
    BY <1>0, <1>6, <1>13, <1>15 DEF Counted
  <1>17. Alive(t)
    <2>1. ASSUME NEW j \in 1 .. N + n, t.cells[j].client # NoClient
          PROVE  t.cells[j].client \in DOMAIN t.good /\ t.cells[j].status = DOWNLOADING
      <3>1. j \in 1 .. N /\ t.cells[j] = s.cells[j]
        BY <1>7, <1>12, <2>1
      <3> QED
        BY <1>0, <1>3, <1>6, <2>1, <3>1 DEF Alive
    <2> QED
      BY <1>0, <1>6, <1>9, <2>1 DEF Alive
  <1>18. Limited(t)
    BY <1>0, <1>3, <1>4, <1>6, <1>9 DEF Limited
  <1>19. Early(t)
    <2>1. ASSUME NEW j \in AskedIn(s)
          PROVE  Pending(t, j) = Pending(s, j)
      <3>1. \A k \in 1 .. j : k \in 1 .. N
        BY <1>3, <1>14
      <3> QED
        BY <1>9, <3>1 DEF Pending
    <2> QED
      BY <1>0, <1>13, <2>1 DEF Early
  <1>20. Remembered(t, P)
    <2>1. \A j \in AskedIn(t) : BlockAwaited(t.asked, t.cells[j].client, t.cells[j].bid)
      BY <1>0, <1>6, <1>13, <1>14 DEF Remembered
    <2>2. t.sent => ChainAwaited(t.asked, t.client)
      BY <1>0, <1>6, Zenon DEF Remembered
    <2>3. ASSUME NEW j \in 1 .. N + n, t.cells[j].status = PREPARING
          PROVE  t.cells[j].bid \in Range(t.work) \cup P
      <3>1. DOWNLOADING # PREPARING
        BY DEF DOWNLOADING, PREPARING
      <3>2. j \in 1 .. N /\ t.cells[j] = s.cells[j]
        BY <1>7, <1>12, <2>3, <3>1
      <3> QED
        BY <1>0, <1>3, <1>6, <2>3, <3>2 DEF Remembered
    <2> QED
      BY <1>9, <2>1, <2>2, <2>3 DEF Remembered
  <1>21. \A b \in Block : Height[b] \in Nat
    BY DlTree
  <1>22. n > 0 /\ N > 0 => s.start = s.cells[1].height + N
    <2> SUFFICES ASSUME n > 0, N > 0 PROVE s.start = s.cells[1].height + N
      OBVIOUS
    <2>1. s.chain # <<>> /\ s.cells # <<>> /\ 1 \in DOMAIN s.chain /\ N \in DOMAIN s.cells
      BY <1>2, <1>3, <1>4
    <2>2. Parent[s.chain[1]] = s.cells[N].bid /\ Height[s.chain[1]] = s.start + (1 - 1)
          /\ Height[s.cells[N].bid] = s.cells[1].height + (N - 1)
      BY <1>0, <1>2, <2>1 DEF Ordered
    <2>3. s.chain[1] \in Block \ {Genesis} /\ s.cells[1] \in CellSet
      BY <1>3, <2>1
    <2>4. Height[s.chain[1]] = Height[s.cells[N].bid] + 1
      BY <2>2, <2>3, DlTree
    <2>5. s.cells[1].height \in Nat
      BY <2>3 DEF CellSet
    <2> QED
      BY <1>3, <2>2, <2>4, <2>5
  <1>23. n > 0 => t.cells[1].height = IF N > 0 THEN s.cells[1].height ELSE s.start
    <2>1. CASE N > 0
      <3>1. 1 \in 1 .. N
        BY <1>3, <2>1
      <3> QED
        BY <1>9, <2>1, <3>1
    <2>2. CASE n > 0 /\ ~(N > 0)
      <3>1. 1 \in 1 .. n /\ N + 1 = 1 /\ s.start + 1 - 1 = s.start
        BY <1>3, <1>4, <2>2
      <3>2. t.cells[N + 1] = new[1]
        BY <1>9, <3>1
      <3> QED
        BY <1>7, <2>2, <3>1, <3>2
    <2> QED
      BY <2>1, <2>2
  <1>24. ASSUME NEW k \in 1 .. n
         PROVE  Parent[s.chain[k]] = IF k > 1 THEN s.chain[k - 1]
                                     ELSE IF N > 0 THEN s.cells[N].bid ELSE Parent[s.chain[1]]
    <2>1. k \in DOMAIN s.chain /\ s.chain # <<>>
      BY <1>3, <1>4
    <2>2. N > 0 => s.cells # <<>>
      BY <1>2, <1>3
    <2>3. k > 1 => Parent[s.chain[k]] = s.chain[k - 1]
      BY <1>0, <2>1 DEF Ordered
    <2>4. N > 0 => Parent[s.chain[1]] = s.cells[N].bid
      BY <1>0, <1>2, <2>1, <2>2 DEF Ordered
    <2>5. k > 1 \/ k = 1
      BY <1>4
    <2> QED
      BY <2>3, <2>4, <2>5
  <1>25. ASSUME NEW j \in 1 .. N + n
         PROVE  /\ t.cells[j].height = Height[t.cells[j].bid]
                /\ t.cells[j].height = t.cells[1].height + (j - 1)
                /\ j > 1 => Parent[t.cells[j].bid] = t.cells[j - 1].bid
    <2>1. CASE j \in 1 .. N
      <3>1. t.cells[j] = s.cells[j] /\ 1 \in 1 .. N /\ t.cells[1] = s.cells[1]
            /\ (j > 1 => j - 1 \in 1 .. N /\ t.cells[j - 1] = s.cells[j - 1])
        <4>1. N \in Nat
          BY <1>3
        <4>2. 1 \in 1 .. N /\ (j > 1 => j - 1 \in 1 .. N)
          BY <2>1, <4>1
        <4> QED
          BY <1>9, <2>1, <4>2
      <3> QED
        BY <1>0, <1>3, <2>1, <3>1 DEF Ordered
    <2>2. CASE j \notin 1 .. N
      <3>1. PICK k \in 1 .. n : j = N + k /\ t.cells[j] = new[k]
        BY <1>12, <2>2
      <3>2. k \in DOMAIN s.chain /\ k \in Nat /\ k >= 1 /\ n > 0
        BY <1>3, <1>4
      <3>3. t.cells[j].bid = s.chain[k] /\ t.cells[j].height = s.start + k - 1
        BY <1>7, <3>1
      <3>4. Height[s.chain[k]] = s.start + (k - 1)
        BY <1>0, <3>2 DEF Ordered
      <3>5. t.cells[j].height = t.cells[1].height + (j - 1)
        <4>1. CASE N > 0
          <5>1. s.cells[1].height \in Nat
            <6>1. s.cells[1] \in CellSet
              BY <1>3, <4>1
            <6> QED
              BY <6>1 DEF CellSet
          <5>2. PICK h \in Nat : h = s.cells[1].height
            BY <5>1
          <5>3. s.start = h + N /\ t.cells[1].height = h
            BY <1>22, <1>23, <3>2, <4>1, <5>2
          <5>4. N \in Nat
            BY <1>3
          <5>5. (h + N) + k - 1 = h + ((N + k) - 1)
            BY <3>2, <5>2, <5>4
          <5> QED
            BY <3>1, <3>3, <5>3, <5>5
        <4>2. CASE ~(N > 0)
          BY <1>3, <1>23, <3>1, <3>2, <3>3, <4>2
        <4> QED
          BY <4>1, <4>2
      <3>6. j > 1 => Parent[t.cells[j].bid] = t.cells[j - 1].bid
        <4> SUFFICES ASSUME j > 1 PROVE Parent[s.chain[k]] = t.cells[j - 1].bid
          BY <3>3
        <4>1. CASE k > 1
          <5>1. k - 1 \in 1 .. n /\ j - 1 = N + (k - 1)
            BY <1>3, <1>4, <3>1, <4>1
          <5>2. t.cells[j - 1].bid = s.chain[k - 1]
            BY <1>7, <1>9, <5>1
          <5> QED
            BY <1>24, <4>1, <5>2
        <4>2. CASE ~(k > 1)
          <5>1. k = 1 /\ j - 1 = N /\ N > 0 /\ N \in 1 .. N
            BY <1>3, <3>1, <3>2, <4>2
          <5>2. t.cells[j - 1].bid = s.cells[N].bid
            BY <1>9, <5>1
          <5> QED
            BY <1>24, <5>1, <5>2
        <4> QED
          BY <4>1, <4>2
      <3> QED
        BY <1>3, <3>2, <3>3, <3>4, <3>5, <3>6
    <2> QED
      BY <2>1, <2>2
  <1>26. ASSUME NEW k \in 1 .. Len(s.chain) - n
         PROVE  /\ Height[t.chain[k]] = t.start + (k - 1)
                /\ k > 1 => Parent[t.chain[k]] = t.chain[k - 1]
    <2>2. n + k \in DOMAIN s.chain /\ t.chain[k] = s.chain[n + k]
      BY <1>3, <1>4, <1>10
    <2>3. Height[t.chain[k]] = t.start + (k - 1)
      <3>1. Height[s.chain[n + k]] = s.start + ((n + k) - 1)
        BY <1>0, <2>2 DEF Ordered
      <3> QED
        BY <1>3, <1>4, <1>6, <2>2, <3>1
    <2>4. k > 1 => Parent[t.chain[k]] = t.chain[k - 1]
      <3> SUFFICES ASSUME k > 1 PROVE Parent[t.chain[k]] = t.chain[k - 1]
        OBVIOUS
      <3>1. k - 1 \in 1 .. Len(s.chain) - n /\ n + (k - 1) = (n + k) - 1 /\ n + k > 1
        BY <1>3, <1>4
      <3>2. t.chain[k - 1] = s.chain[(n + k) - 1]
        BY <1>10, <3>1
      <3>3. Parent[s.chain[n + k]] = s.chain[(n + k) - 1]
        BY <1>0, <2>2, <3>1 DEF Ordered
      <3> QED
        BY <2>2, <3>2, <3>3
    <2> QED
      BY <2>3, <2>4
  <1>27. t.cells # <<>> => Parent[t.cells[1].bid] \in t.known
    <2>1. CASE N > 0
      <3>1. 1 \in 1 .. N /\ s.cells # <<>>
        BY <1>2, <1>3, <2>1
      <3> QED
        BY <1>0, <1>6, <1>9, <3>1 DEF Ordered
    <2>2. CASE ~(N > 0) /\ n > 0
      <3>1. 1 \in 1 .. n /\ N + 1 = 1 /\ s.chain # <<>> /\ s.cells = <<>>
        BY <1>2, <1>3, <1>4, <2>2
      <3>2. t.cells[1].bid = s.chain[1]
        BY <1>7, <1>9, <3>1
      <3> QED
        BY <1>0, <1>6, <3>1, <3>2 DEF Ordered
    <2>3. CASE ~(N > 0) /\ ~(n > 0)
      BY <1>3, <1>4, <1>9, <2>3
    <2> QED
      BY <2>1, <2>2, <2>3
  <1>28. t.chain # <<>> => IF t.cells = <<>> THEN Parent[t.chain[1]] \in t.known
                           ELSE Parent[t.chain[1]] = t.cells[Len(t.cells)].bid
    <2> SUFFICES ASSUME t.chain # <<>>
                 PROVE  IF t.cells = <<>> THEN Parent[t.chain[1]] \in t.known
                        ELSE Parent[t.chain[1]] = t.cells[Len(t.cells)].bid
      OBVIOUS
    <2>1. 1 \in 1 .. Len(s.chain) - n /\ t.chain[1] = s.chain[n + 1] /\ s.chain # <<>>
          /\ n + 1 \in DOMAIN s.chain
      BY <1>3, <1>4, <1>10
    <2>2. CASE n > 0
      <3>1. n \in 1 .. n /\ t.cells[N + n].bid = s.chain[n] /\ t.cells # <<>>
        <4>1. n \in 1 .. n /\ N + n > 0
          BY <1>3, <1>4, <2>2
        <4>2. t.cells[N + n].bid = s.chain[n]
          BY <1>7, <1>9, <4>1
        <4>3. t.cells # <<>>
          BY <1>9, <4>1
        <4> QED
          BY <4>1, <4>2, <4>3
      <3>2. Parent[s.chain[n + 1]] = s.chain[(n + 1) - 1]
        BY <1>0, <1>4, <2>1, <2>2 DEF Ordered
      <3>3. (n + 1) - 1 = n
        BY <1>4
      <3> QED
        BY <1>9, <2>1, <3>1, <3>2, <3>3
    <2>3. CASE n = 0
      <3>1. t.cells = s.cells /\ t.chain[1] = s.chain[1]
        <4>1. Len(t.cells) = N /\ \A j \in 1 .. N : t.cells[j] = s.cells[j]
          BY <1>3, <1>9, <2>3
        <4>2. t.cells = s.cells
          BY <1>2, <1>3, <1>9, <4>1
        <4> QED
          BY <2>1, <2>3, <4>2
      <3> QED
        BY <1>0, <1>6, <2>1, <3>1 DEF Ordered
    <2> QED
      BY <1>4, <2>2, <2>3
  <1>29. Ordered(t)
    BY <1>9, <1>10, <1>25, <1>26, <1>27, <1>28 DEF Ordered
  <1>30. Rooted(t)
    BY <1>0, <1>6 DEF Rooted
  <1>31. ~t.importing
    BY <1>6, Zenon
  <1>32. Quiet(t)
    <2>1. ASSUME s.sent
          PROVE  t.cells = <<>> /\ t.chain = <<>>
      <3>1. s.cells = <<>> /\ s.chain = <<>>
        BY <1>0, <2>1, Zenon DEF Quiet
      <3>2. N = 0 /\ Len(s.chain) = 0
        BY <1>2, <3>1
      <3> QED
        BY <1>4, <1>9, <1>10, <3>2
    <2> QED
      BY <1>6, <1>31, <2>1, Zenon DEF Quiet
  <1> QED
    BY <1>11, <1>16, <1>17, <1>18, <1>19, <1>20, <1>29, <1>30, <1>31, <1>32 DEF Core

(***************************************************************************)
(* Clients for the cells                                                   *)
(***************************************************************************)
\* After the first i turns of the loop over the cells: a cell that waits found no
\* free request, or the chain was given up in front of the first one that did.
NoneWaits(s) == \A j \in DOMAIN s.cells : ~Waiting(s.cells[j])

AssignedAt(r, s, P, i) ==
  /\ r = [s |-> r.s, clean |-> r.clean] /\ r.clean \in BOOLEAN
  /\ Core(r.s, P) /\ ~r.s.importing
  /\ r.clean => NoneWaits(r.s)
  /\ ~r.clean => /\ Len(r.s.cells) = Len(s.cells)
                 /\ \A j \in 1 .. i : Waiting(r.s.cells[j]) => r.s.total >= MaxDownload

\* A waiting cell behind cells that do not wait is near enough to the front.
LEMMA WaitingIsEarly ==
  ASSUME NEW s, NEW P, Core(s, P), NEW i \in DOMAIN s.cells, s.total < MaxDownload,
         \A j \in 1 .. i - 1 : ~Waiting(s.cells[j])
  PROVE  Cardinality(Pending(s, i)) <= MaxDownload
  <1>1. /\ IsFiniteSet(AskedIn(s)) /\ Cardinality(AskedIn(s)) \in Nat /\ MaxDownload \in Nat
        /\ DOMAIN s.cells = 1 .. Len(s.cells) /\ Len(s.cells) \in Nat
        /\ s.total = Cardinality(AskedIn(s))
        /\ IsFiniteSet(Pending(s, i)) /\ Cardinality(Pending(s, i)) \in Nat
    BY CellSets, DownloadAssumption DEF Core, Counted
  <1>2. Pending(s, i) \subseteq AskedIn(s) \cup {i}
    <2> SUFFICES ASSUME NEW j \in Pending(s, i), j # i PROVE j \in AskedIn(s)
      OBVIOUS
    <2>1. j \in 1 .. i - 1 /\ j \in DOMAIN s.cells /\ s.cells[j].status = DOWNLOADING
      BY <1>1 DEF Pending
    <2>2. Asked(s.cells[j])
      BY <2>1 DEF Waiting, Asked
    <2> QED
      BY <2>1, <2>2 DEF AskedIn
  <1>3. /\ IsFiniteSet(AskedIn(s) \cup {i})
        /\ Cardinality(AskedIn(s) \cup {i}) <= Cardinality(AskedIn(s)) + 1
        /\ Cardinality(AskedIn(s) \cup {i}) \in Nat
    <2>1. /\ IsFiniteSet(AskedIn(s) \cup {i})
          /\ Cardinality(AskedIn(s) \cup {i}) =
               IF i \in AskedIn(s) THEN Cardinality(AskedIn(s)) ELSE Cardinality(AskedIn(s)) + 1
      BY <1>1, FS_AddElement
    <2> QED
      BY <1>1, <2>1
  <1>4. Cardinality(Pending(s, i)) <= Cardinality(AskedIn(s) \cup {i})
    BY <1>2, <1>3, FS_Subset
  <1> QED
    BY <1>1, <1>3, <1>4

\* One turn.
LEMMA AssignNext ==
  ASSUME NEW s, NEW P, Core(s, P), NEW i \in DOMAIN s.cells, NEW r, AssignedAt(r, s, P, i - 1),
         NEW ch, NEW x, x = Assign(r, i, ch)
  PROVE  AssignedAt(x, s, P, i)
  <1>1. PICK u : u = r.s
    OBVIOUS
  <1>2. /\ Core(u, P) /\ ~u.importing /\ r.clean \in BOOLEAN /\ r = [s |-> u, clean |-> r.clean]
        /\ r.clean => NoneWaits(u)
        /\ ~r.clean => /\ Len(u.cells) = Len(s.cells)
                       /\ \A j \in 1 .. i - 1 : Waiting(u.cells[j]) => u.total >= MaxDownload
    BY <1>1 DEF AssignedAt
  <1>3. /\ Len(s.cells) \in Nat /\ DOMAIN s.cells = 1 .. Len(s.cells) /\ i \in 1 .. Len(s.cells)
        /\ Len(u.cells) \in Nat /\ DOMAIN u.cells = 1 .. Len(u.cells)
        /\ u.total \in Nat /\ MaxDownload \in Nat
        /\ u.client \in DOMAIN u.good \cup {NoClient} /\ DOMAIN u.good \subseteq Client
    BY <1>2, CellSets, DownloadAssumption DEF Core, DlSet, Alive
  <1>4. CASE r.clean \/ ~Waiting(u.cells[i]) \/ u.total >= MaxDownload
    <2>1. x = r
      BY <1>1, <1>4 DEF Assign
    <2>2. ASSUME ~r.clean, NEW j \in 1 .. i, Waiting(u.cells[j])
          PROVE  u.total >= MaxDownload
      <3>1. CASE j = i
        BY <1>4, <2>2, <3>1
      <3>2. CASE j # i
        <4>1. j \in 1 .. i - 1
          BY <1>3, <3>2
        <4> QED
          BY <1>2, <2>2, <4>1
      <3> QED
        BY <3>1, <3>2
    <2> QED
      BY <1>1, <1>2, <2>1, <2>2 DEF AssignedAt
  <1>5. CASE ~(r.clean \/ ~Waiting(u.cells[i]) \/ u.total >= MaxDownload)
    <2>1. PICK c : c = Ready(u, i, ch)
      OBVIOUS
    <2>2. x = AssignTo(r, i, c)
      BY <1>1, <1>5, <2>1 DEF Assign
    <2>3. /\ ~r.clean /\ Waiting(u.cells[i]) /\ u.total < MaxDownload
          /\ Len(u.cells) = Len(s.cells) /\ i \in DOMAIN u.cells
      BY <1>2, <1>3, <1>5
    <2>4. \A j \in 1 .. i - 1 : ~Waiting(u.cells[j])
      BY <1>2, <1>3, <2>3
    <2>5. c \in DOMAIN u.good \cup {NoClient}
      <3>1. PICK able : able = {d \in DOMAIN u.good : u.sync[d].height >= u.cells[i].height}
        OBVIOUS
      <3>2. c = IF able # {} THEN Pick(able, ch[u.total + 1]) ELSE u.client
        BY <2>1, <3>1 DEF Ready
      <3>3. able # {} => Pick(able, ch[u.total + 1]) \in able
        BY DEF Pick
      <3>4. able \subseteq DOMAIN u.good
        BY <3>1
      <3> QED
        BY <1>3, <3>2, <3>3, <3>4
    <2>6. CASE c = NoClient
      <3>1. PICK t : t = Cleaned(u, i)
        OBVIOUS
      <3>2. x = [s |-> t, clean |-> TRUE]
        BY <1>1, <2>2, <2>6, <3>1 DEF AssignTo
      <3>3. CutAt(t, u, P, i)
        BY <1>2, <2>3, <3>1, CleanKeeps
      <3>4. ~t.importing
        BY <1>2, <3>3, Zenon DEF CutAt
      <3>5. NoneWaits(t)
        <4>1. DOMAIN t.cells = 1 .. i - 1
          BY <3>3, CellSets DEF CutAt, Core
        <4> QED
          BY <2>4, <3>3, <4>1 DEF NoneWaits, CutAt
      <3> QED
        BY <3>2, <3>3, <3>4, <3>5 DEF AssignedAt, CutAt
    <2>7. CASE c # NoClient
      <3>1. PICK t : t = start_download(u, i, c)
        OBVIOUS
      <3>2. x = [s |-> t, clean |-> r.clean]
        <4>1. x = [r EXCEPT !.s = start_download(r.s, i, c)]
          BY <2>2, <2>7 DEF AssignTo
        <4> QED
          BY <1>1, <1>2, <3>1, <4>1
      <3>3. Cardinality(Pending(u, i)) <= MaxDownload
        BY <1>2, <2>3, <2>4, WaitingIsEarly
      <3>4. /\ Core(t, P) /\ OnlyCell(u, t, i) /\ t.total = u.total + 1 /\ t.cells[i].client = c
        BY <1>2, <2>3, <2>5, <2>7, <3>1, <3>3, StartKeeps
      <3>5. ~t.importing /\ Len(t.cells) = Len(s.cells)
        BY <1>2, <2>3, <3>4, Zenon DEF OnlyCell
      <3>6. \A j \in 1 .. i : ~Waiting(t.cells[j])
        <4> SUFFICES ASSUME NEW j \in 1 .. i PROVE ~Waiting(t.cells[j])
          OBVIOUS
        <4>1. CASE j = i
          BY <2>7, <3>4, <4>1 DEF Waiting
        <4>2. CASE j # i
          <5>1. j \in 1 .. i - 1 /\ j \in DOMAIN u.cells
            BY <1>3, <2>3, <4>2
          <5>2. t.cells[j] = u.cells[j]
            BY <3>4, <4>2, <5>1 DEF OnlyCell
          <5> QED
            BY <2>4, <5>1, <5>2
        <4> QED
          BY <4>1, <4>2
      <3>7. x.s = t /\ x.clean = r.clean
        BY <3>2
      <3> QED
        BY <1>2, <2>3, <3>2, <3>4, <3>5, <3>6, <3>7 DEF AssignedAt
    <2> QED
      BY <2>6, <2>7
  <1> QED
    BY <1>4, <1>5

Assigning(f, s, ch) ==
  f = [i \in 0 .. Len(s.cells) |->
         IF i = 0 THEN [s |-> s, clean |-> FALSE] ELSE Assign(f[i - 1], i, ch)]

LEMMA AssignFirst ==
  ASSUME NEW s, NEW P, Core(s, P), ~s.importing
  PROVE  AssignedAt([s |-> s, clean |-> FALSE], s, P, 0)
  <1>1. \A j \in 1 .. 0 : FALSE
    OBVIOUS
  <1> QED
    BY <1>1 DEF AssignedAt

LEMMA AssigningExists ==
  ASSUME NEW s, NEW P, Core(s, P), ~s.importing, NEW ch
  PROVE  \E f : Assigning(f, s, ch)
  <1>1. PICK k : k = Len(s.cells)
    OBVIOUS
  <1>2. k \in Nat /\ s \in DlSet /\ DOMAIN s.cells = 1 .. k
    BY <1>1, CellSets DEF Core
  <1>3. PICK first : first = [s |-> s, clean |-> FALSE]
    OBVIOUS
  <1>4. PICK V : V = [s : DlSet, clean : BOOLEAN]
    OBVIOUS
  <1>5. PICK W : W = [n \in 0 .. k |-> {r \in V : AssignedAt(r, s, P, n)}]
    OBVIOUS
  <1>6. PICK step : step = [n \in 1 .. k |-> [r \in V |-> Assign(r, n, ch)]]
    OBVIOUS
  <1>7. PICK f : Repetition(f, k, first, step)
    BY <1>2, RepeatExists
  <1>8. f = [n \in 0 .. k |-> IF n = 0 THEN first ELSE step[n][f[n - 1]]]
    BY <1>7 DEF Repetition
  <1>9. \A r : \A n : AssignedAt(r, s, P, n) => r \in V
    BY <1>4 DEF AssignedAt, Core
  <1>10. f[0] \in W[0]
    <2>1. AssignedAt(first, s, P, 0)
      BY <1>3, AssignFirst
    <2> QED
      BY <1>2, <1>5, <1>8, <1>9, <2>1
  <1>11. ASSUME NEW n \in 1 .. k, f[n - 1] \in W[n - 1]
         PROVE  f[n] \in W[n] /\ f[n] = Assign(f[n - 1], n, ch)
    <2>1. n - 1 \in 0 .. k /\ n \in 0 .. k /\ n # 0 /\ n \in DOMAIN s.cells
      BY <1>2
    <2>2. f[n - 1] \in V /\ AssignedAt(f[n - 1], s, P, n - 1)
      BY <1>5, <1>11, <2>1
    <2>3. f[n] = Assign(f[n - 1], n, ch)
      BY <1>6, <1>8, <2>1, <2>2
    <2>4. AssignedAt(f[n], s, P, n)
      BY <2>1, <2>2, <2>3, AssignNext
    <2> QED
      BY <1>5, <1>9, <2>1, <2>3, <2>4
  <1>12. \A n \in 0 .. k : f[n] \in W[n]
    BY <1>2, <1>10, <1>11, RepeatIn
  <1>13. ASSUME NEW n \in 0 .. k
         PROVE  f[n] = IF n = 0 THEN first ELSE Assign(f[n - 1], n, ch)
    <2>1. CASE n = 0
      BY <1>8, <2>1
    <2>2. CASE n # 0
      <3>1. n \in 1 .. k /\ n - 1 \in 0 .. k
        BY <1>2, <2>2
      <3> QED
        BY <1>11, <1>12, <2>2, <3>1
    <2> QED
      BY <2>1, <2>2
  <1>14. f = [n \in 0 .. k |-> IF n = 0 THEN first ELSE Assign(f[n - 1], n, ch)]
    BY <1>8, <1>13
  <1>15. Assigning(f, s, ch)
    BY <1>1, <1>3, <1>14, Zenon DEF Assigning
  <1> QED
    BY <1>15

\* The loop over the cells keeps the invariant.
LEMMA AssignKeeps ==
  ASSUME NEW s, NEW P, Core(s, P), ~s.importing, NEW ch
  PROVE  AssignedAt(Assigned(s, ch), s, P, Len(s.cells))
  <1>1. PICK f : f = CHOOSE g : Assigning(g, s, ch)
    OBVIOUS
  <1>2. Assigning(f, s, ch)
    BY <1>1, AssigningExists
  <1>3. PICK k : k = Len(s.cells)
    OBVIOUS
  <1>4. k \in Nat /\ DOMAIN s.cells = 1 .. k
    BY <1>3, CellSets DEF Core
  <1>5. Assigned(s, ch) = f[k]
    BY <1>1, <1>3 DEF Assigned, Assigning
  <1>6. PICK V : V = [s : DlSet, clean : BOOLEAN]
    OBVIOUS
  <1>7. PICK W : W = [n \in 0 .. k |-> {r \in V : AssignedAt(r, s, P, n)}]
    OBVIOUS
  <1>8. \A r : \A n : AssignedAt(r, s, P, n) => r \in V
    BY <1>6 DEF AssignedAt, Core
  <1>9. f[0] \in W[0]
    <2>1. f[0] = [s |-> s, clean |-> FALSE]
      BY <1>2, <1>3, <1>4 DEF Assigning
    <2>2. AssignedAt(f[0], s, P, 0)
      BY <2>1, AssignFirst
    <2> QED
      BY <1>4, <1>7, <1>8, <2>2
  <1>10. ASSUME NEW n \in 1 .. k, f[n - 1] \in W[n - 1]
         PROVE  f[n] \in W[n]
    <2>1. n - 1 \in 0 .. k /\ n \in 0 .. k /\ n # 0 /\ n \in DOMAIN s.cells
      BY <1>4
    <2>2. AssignedAt(f[n - 1], s, P, n - 1)
      BY <1>7, <1>10, <2>1
    <2>3. f[n] = Assign(f[n - 1], n, ch)
      BY <1>2, <1>3, <2>1 DEF Assigning
    <2>4. AssignedAt(f[n], s, P, n)
      BY <2>1, <2>2, <2>3, AssignNext
    <2> QED
      BY <1>7, <1>8, <2>1, <2>4
  <1>11. \A n \in 0 .. k : f[n] \in W[n]
    BY <1>4, <1>9, <1>10, RepeatIn
  <1>12. AssignedAt(f[k], s, P, k)
    BY <1>4, <1>7, <1>11
  <1> QED
    BY <1>3, <1>5, <1>12

\* When the cells that wait found no free request, those in front are served.
LEMMA FullIsServed ==
  ASSUME NEW s, NEW P, Core(s, P),
         \A i \in DOMAIN s.cells : Waiting(s.cells[i]) => s.total >= MaxDownload
  PROVE  FrontServed(s)
  <1>1. /\ IsFiniteSet(AskedIn(s)) /\ Cardinality(AskedIn(s)) \in Nat /\ MaxDownload \in Nat
        /\ DOMAIN s.cells = 1 .. Len(s.cells) /\ Len(s.cells) \in Nat
        /\ s.total = Cardinality(AskedIn(s))
        /\ \A i \in DOMAIN s.cells : IsFiniteSet(Pending(s, i)) /\ Cardinality(Pending(s, i)) \in Nat
    BY CellSets, DownloadAssumption DEF Core, Counted
  <1> SUFFICES ASSUME NEW i \in DOMAIN s.cells, Waiting(s.cells[i]),
                      NEW j \in AskedIn(s), ~(j < i)
               PROVE  FALSE
    BY DEF FrontServed
  <1>2. /\ i \notin AskedIn(s) /\ s.cells[i].status = DOWNLOADING
        /\ \A x \in AskedIn(s) : x \in DOMAIN s.cells /\ s.cells[x].status = DOWNLOADING
    BY DEF AskedIn, Asked, Waiting
  <1>3. AskedIn(s) \subseteq 0 .. Len(s.cells) /\ AskedIn(s) # {}
    BY <1>1, <1>2
  <1>4. PICK m \in AskedIn(s) : \A x \in AskedIn(s) : x <= m
    BY <1>1, <1>3, Greatest
  <1>5. m \in DOMAIN s.cells /\ i < m
    <2>1. j \in DOMAIN s.cells /\ j # i /\ j <= m /\ m \in DOMAIN s.cells
      BY <1>2, <1>4
    <2> QED
      BY <1>1, <2>1
  <1>6. AskedIn(s) \cup {i} \in SUBSET Pending(s, m)
    <2>1. \A x \in AskedIn(s) : x \in 1 .. m
      BY <1>1, <1>2, <1>4, <1>5
    <2>2. i \in 1 .. m
      BY <1>1, <1>5
    <2> QED
      BY <1>2, <2>1, <2>2 DEF Pending
  <1>7. Cardinality(AskedIn(s) \cup {i}) = Cardinality(AskedIn(s)) + 1
    BY <1>1, <1>2, FS_AddElement
  <1>8. Cardinality(AskedIn(s) \cup {i}) <= Cardinality(Pending(s, m))
    BY <1>1, <1>5, <1>6, FS_Subset
  <1>9. Cardinality(Pending(s, m)) <= MaxDownload
    BY <1>4 DEF Core, Early
  <1>10. s.total >= MaxDownload
    OBVIOUS
  <1> QED
    BY <1>1, <1>5, <1>7, <1>8, <1>9, <1>10

\* advance_download up to the test for slow clients.
LEMMA PassKeeps ==
  ASSUME NEW s, NEW P, Core(s, P), ~s.importing, NEW ch, NEW r, r = Pass(s, ch)
  PROVE  Core(r.s, P) /\ ~r.s.importing /\ FrontServed(r.s)
  <1>1. PICK t : t = Filled(s)
    OBVIOUS
  <1>2. Core(t, P) /\ ~t.importing
    BY <1>1, FilledKeeps
  <1>3. PICK u : u = advance_chain(t, ch)
    OBVIOUS
  <1>4. Core(u, P) /\ ~u.importing
    BY <1>2, <1>3, AdvanceChainKeeps DEF Advanced
  <1>5. PICK a : a = Assigned(u, ch)
    OBVIOUS
  <1>6. AssignedAt(a, u, P, Len(u.cells))
    BY <1>4, <1>5, AssignKeeps
  <1>7. r = Returned(a, ch)
    BY <1>1, <1>3, <1>5 DEF Pass
  <1>8. CASE ~a.clean
    <2>1. r = a
      BY <1>7, <1>8 DEF Returned
    <2>2. Core(a.s, P) /\ ~a.s.importing /\ Len(a.s.cells) = Len(u.cells)
          /\ \A j \in 1 .. Len(u.cells) : Waiting(a.s.cells[j]) => a.s.total >= MaxDownload
      BY <1>6, <1>8 DEF AssignedAt
    <2>3. DOMAIN a.s.cells = 1 .. Len(a.s.cells)
      BY <2>2, CellSets DEF Core
    <2>4. FrontServed(a.s)
      BY <2>2, <2>3, FullIsServed
    <2> QED
      BY <2>1, <2>2, <2>4
  <1>9. CASE a.clean
    <2>1. Core(a.s, P) /\ ~a.s.importing /\ NoneWaits(a.s) /\ a = [s |-> a.s, clean |-> a.clean]
      BY <1>6, <1>9 DEF AssignedAt
    <2>2. PICK v : v = advance_chain(a.s, ch)
      OBVIOUS
    <2>3. r.s = v
      BY <1>7, <1>9, <2>1, <2>2 DEF Returned
    <2>4. Advanced(v, a.s, P)
      BY <2>1, <2>2, AdvanceChainKeeps
    <2>5. NoneWaits(v)
      BY <2>1, <2>4 DEF Advanced, NoneWaits
    <2> QED
      BY <2>3, <2>4, <2>5 DEF Advanced, NoneWaits, FrontServed
  <1> QED
    BY <1>8, <1>9

(***************************************************************************)
(* Steps that leave the line of cells as it is                             *)
(***************************************************************************)
\* The same cells, with the same clients; those not asked for may be further.
SameCells(s, t) ==
  /\ Len(t.cells) = Len(s.cells) /\ DOMAIN t.cells = DOMAIN s.cells
  /\ \A j \in DOMAIN s.cells :
       /\ t.cells[j].bid = s.cells[j].bid /\ t.cells[j].height = s.cells[j].height
       /\ t.cells[j].client = s.cells[j].client
       /\ t.cells[j].status = DOWNLOADING => s.cells[j].status = DOWNLOADING
       /\ s.cells[j].client # NoClient => t.cells[j].status = s.cells[j].status
  /\ t.chain = s.chain /\ t.start = s.start /\ t.client = s.client /\ t.total = s.total
  /\ t.sent = s.sent /\ t.ok = s.ok

\* More clients, without requests, and more known blocks.
Grown(s, t) ==
  /\ DOMAIN s.good \subseteq DOMAIN t.good /\ IsFiniteSet(DOMAIN t.good)
  /\ \A d \in DOMAIN s.good : t.good[d] = s.good[d]
  /\ \A d \in DOMAIN t.good : d \notin DOMAIN s.good => t.good[d] = 0
  /\ s.known \subseteq t.known /\ ClosedDl(t.known) /\ t.tip \in t.known
  /\ Asking(t.asked, t.known)
  /\ t.importing => s.importing

StillAwaited(s, t, Q) ==
  /\ \A j \in AskedIn(s) : BlockAwaited(t.asked, s.cells[j].client, s.cells[j].bid)
  /\ s.sent => ChainAwaited(t.asked, s.client)
  /\ \A j \in DOMAIN t.cells :
       t.cells[j].status = PREPARING => t.cells[j].bid \in Range(t.work) \cup Q

LEMMA SameCellsSets ==
  ASSUME NEW s, NEW t, s \in DlSet, SameCells(s, t)
  PROVE  /\ AskedIn(t) = AskedIn(s)
         /\ \A d : AskedOf(t, d) = AskedOf(s, d)
         /\ \A j \in DOMAIN s.cells : Pending(t, j) \subseteq Pending(s, j)
  <1>1. \A j \in DOMAIN s.cells :
          /\ Asked(t.cells[j]) <=> Asked(s.cells[j])
          /\ t.cells[j].client = s.cells[j].client
          /\ t.cells[j].status = DOWNLOADING => s.cells[j].status = DOWNLOADING
    BY DEF SameCells, Asked
  <1>2. DOMAIN t.cells = DOMAIN s.cells
    BY DEF SameCells
  <1>3. AskedIn(t) = AskedIn(s)
    BY <1>1, <1>2 DEF AskedIn
  <1>4. \A d : AskedOf(t, d) = AskedOf(s, d)
    BY <1>1, <1>3 DEF AskedOf, AskedIn
  <1>5. ASSUME NEW j \in DOMAIN s.cells
        PROVE  Pending(t, j) \subseteq Pending(s, j)
    <2>1. \A k \in 1 .. j : k \in DOMAIN s.cells
      BY DEF DlSet
    <2> QED
      BY <1>1, <2>1 DEF Pending
  <1> QED
    BY <1>3, <1>4, <1>5

\* They keep the invariant.
LEMMA FrameKeeps ==
  ASSUME NEW s, NEW P, Core(s, P), NEW t, t \in DlSet, NEW Q,
         SameCells(s, t), Grown(s, t), StillAwaited(s, t, Q)
  PROVE  Core(t, Q)
  <1>0. /\ s \in DlSet /\ Counted(s) /\ Alive(s) /\ Limited(s) /\ Early(s)
        /\ Remembered(s, P) /\ Ordered(s) /\ Rooted(s) /\ Quiet(s)
    BY DEF Core
  <1>1. /\ AskedIn(t) = AskedIn(s)
        /\ \A d : AskedOf(t, d) = AskedOf(s, d)
        /\ \A j \in DOMAIN s.cells : Pending(t, j) \subseteq Pending(s, j)
    BY <1>0, SameCellsSets
  <1>2. /\ Len(t.cells) = Len(s.cells) /\ DOMAIN t.cells = DOMAIN s.cells
        /\ t.chain = s.chain /\ t.start = s.start /\ t.client = s.client /\ t.total = s.total
        /\ \A j \in DOMAIN s.cells :
             /\ t.cells[j].bid = s.cells[j].bid /\ t.cells[j].height = s.cells[j].height
             /\ t.cells[j].client = s.cells[j].client
             /\ s.cells[j].client # NoClient => t.cells[j].status = s.cells[j].status
    BY DEF SameCells
  <1>3. t.sent = s.sent /\ t.ok = s.ok
    BY Zenon DEF SameCells
  <1>4. /\ s.cells \in Seq(CellSet) /\ t.cells \in Seq(CellSet)
        /\ DOMAIN s.cells = 1 .. Len(s.cells) /\ Len(s.cells) \in Nat
        /\ (t.cells = <<>> <=> s.cells = <<>>)
    BY <1>0, <1>2 DEF DlSet
  <1>5. Counted(t)
    <2>1. ASSUME NEW d \in DOMAIN t.good
          PROVE  t.good[d] = Cardinality(AskedOf(t, d))
      <3>1. CASE d \in DOMAIN s.good
        BY <1>0, <1>1, <3>1 DEF Counted, Grown
      <3>2. CASE d \notin DOMAIN s.good
        <4>1. \A j \in AskedIn(s) : s.cells[j].client \in DOMAIN s.good
          BY <1>0 DEF Alive, AskedIn, Asked
        <4>2. AskedOf(t, d) = {}
          BY <1>1, <3>2, <4>1 DEF AskedOf
        <4> QED
          BY <3>2, <4>2, FS_EmptySet DEF Grown
      <3> QED
        BY <3>1, <3>2
    <2>2. t.ok
      BY <1>0, <1>3, Zenon DEF Counted
    <2>3. t.total = Cardinality(AskedIn(t))
      BY <1>0, <1>1, <1>2 DEF Counted
    <2> QED
      BY <2>1, <2>2, <2>3 DEF Counted
  <1>6. Alive(t)
    <2>1. t.client \in DOMAIN t.good \cup {NoClient} /\ IsFiniteSet(DOMAIN t.good)
      BY <1>0, <1>2 DEF Alive, Grown
    <2>2. \A j \in DOMAIN t.cells : t.cells[j].client # NoClient =>
            t.cells[j].client \in DOMAIN t.good /\ t.cells[j].status = DOWNLOADING
      BY <1>0, <1>2 DEF Alive, Grown
    <2>3. t.sent => t.client # NoClient
      BY <1>0, <1>2, <1>3, Zenon DEF Alive
    <2> QED
      BY <2>1, <2>2, <2>3, Zenon DEF Alive
  <1>7. Limited(t)
    BY <1>0, <1>2 DEF Limited
  <1>8. Early(t)
    <2> SUFFICES ASSUME NEW j \in AskedIn(s) PROVE Cardinality(Pending(t, j)) <= MaxDownload
      BY <1>1 DEF Early
    <2>1. j \in DOMAIN s.cells /\ Cardinality(Pending(s, j)) <= MaxDownload
      BY <1>0 DEF Early, AskedIn
    <2>2. IsFiniteSet(Pending(s, j)) /\ Cardinality(Pending(s, j)) \in Nat
          /\ Cardinality(Pending(t, j)) \in Nat
      BY <1>0, <1>2, <2>1, CellSets
    <2>3. Cardinality(Pending(t, j)) <= Cardinality(Pending(s, j))
      BY <1>1, <2>1, <2>2, FS_Subset
    <2>4. MaxDownload \in Nat
      BY DownloadAssumption
    <2> QED
      BY <2>1, <2>2, <2>3, <2>4
  <1>9. Remembered(t, Q)
    <2>1. \A j \in AskedIn(t) : BlockAwaited(t.asked, t.cells[j].client, t.cells[j].bid)
      <3>1. \A j \in AskedIn(s) : j \in DOMAIN s.cells
        BY DEF AskedIn
      <3> QED
        BY <1>1, <1>2, <3>1 DEF StillAwaited
    <2>2. t.sent => ChainAwaited(t.asked, t.client)
      BY <1>2, <1>3, Zenon DEF StillAwaited
    <2>3. \A j \in DOMAIN t.cells :
            t.cells[j].status = PREPARING => t.cells[j].bid \in Range(t.work) \cup Q
      BY DEF StillAwaited
    <2> QED
      BY <2>1, <2>2, <2>3, Zenon DEF Remembered
  <1>10. Ordered(t)
    <2>1. \A j \in DOMAIN t.cells :
            /\ t.cells[j].height = Height[t.cells[j].bid]
            /\ t.cells[j].height = t.cells[1].height + (j - 1)
            /\ j > 1 => Parent[t.cells[j].bid] = t.cells[j - 1].bid
      <3> SUFFICES ASSUME NEW j \in DOMAIN s.cells
                   PROVE  /\ t.cells[j].height = Height[t.cells[j].bid]
                          /\ t.cells[j].height = t.cells[1].height + (j - 1)
                          /\ j > 1 => Parent[t.cells[j].bid] = t.cells[j - 1].bid
        BY <1>2
      <3>1. 1 \in DOMAIN s.cells /\ (j > 1 => j - 1 \in DOMAIN s.cells)
        BY <1>4
      <3>2. /\ s.cells[j].height = Height[s.cells[j].bid]
            /\ s.cells[j].height = s.cells[1].height + (j - 1)
            /\ j > 1 => Parent[s.cells[j].bid] = s.cells[j - 1].bid
        BY <1>0 DEF Ordered
      <3> QED
        BY <1>2, <3>1, <3>2
    <2>2. s.cells # <<>> => t.cells[1].bid = s.cells[1].bid
                            /\ t.cells[Len(t.cells)].bid = s.cells[Len(s.cells)].bid
      <3>1. s.cells # <<>> => 1 \in DOMAIN s.cells /\ Len(s.cells) \in DOMAIN s.cells
        BY <1>4
      <3> QED
        BY <1>2, <3>1
    <2>3. s.known \subseteq t.known
      BY DEF Grown
    <2>4. \A j \in DOMAIN t.chain :
            /\ Height[t.chain[j]] = t.start + (j - 1)
            /\ j > 1 => Parent[t.chain[j]] = t.chain[j - 1]
      BY <1>0, <1>2 DEF Ordered
    <2>5. t.cells # <<>> => Parent[t.cells[1].bid] \in t.known
      BY <1>0, <1>4, <2>2, <2>3 DEF Ordered
    <2>6. t.chain # <<>> => IF t.cells = <<>> THEN Parent[t.chain[1]] \in t.known
                            ELSE Parent[t.chain[1]] = t.cells[Len(t.cells)].bid
      BY <1>0, <1>2, <1>4, <2>2, <2>3 DEF Ordered
    <2> QED
      BY <2>1, <2>4, <2>5, <2>6 DEF Ordered
  <1>11. Rooted(t)
    BY DEF Grown, Rooted, Asking
  <1>12. Quiet(t)
    <2>1. t.importing => s.importing
      BY Zenon DEF Grown
    <2> QED
      BY <1>0, <1>2, <1>3, <1>4, <2>1, Zenon DEF Quiet
  <1> QED
    BY <1>5, <1>6, <1>7, <1>8, <1>9, <1>10, <1>11, <1>12 DEF Core

\* Nothing grows when these are the same.
LEMMA UngrownIsGrown ==
  ASSUME NEW s, NEW P, Core(s, P), NEW t,
         t.good = s.good, t.known = s.known, t.tip = s.tip, t.asked = s.asked,
         t.importing = s.importing
  PROVE  Grown(s, t)
  <1>1. IsFiniteSet(DOMAIN s.good) /\ Rooted(s)
    BY DEF Core, Alive
  <1>2. Asking(s.asked, s.known) /\ ClosedDl(s.known) /\ s.tip \in s.known
    BY <1>1 DEF Rooted, Asking
  <1>3. t.importing => s.importing
    BY Zenon
  <1> QED
    BY <1>1, <1>2, <1>3, Zenon DEF Grown

\* What was awaited, of a state with the same requests and work.
LEMMA AwaitedStill ==
  ASSUME NEW s, NEW P, Core(s, P), NEW t, SameCells(s, t), t.asked = s.asked,
         \A j \in DOMAIN t.cells : t.cells[j].status = s.cells[j].status,
         NEW Q, Range(s.work) \cup P \subseteq Range(t.work) \cup Q
  PROVE  StillAwaited(s, t, Q)
  <1>1. Remembered(s, P)
    BY DEF Core
  <1>2. \A j \in DOMAIN t.cells : t.cells[j].bid = s.cells[j].bid /\ j \in DOMAIN s.cells
    BY DEF SameCells
  <1>3. \A j \in DOMAIN t.cells :
          t.cells[j].status = PREPARING => t.cells[j].bid \in Range(t.work) \cup Q
    BY <1>1, <1>2 DEF Remembered
  <1>4. \A j \in AskedIn(s) : BlockAwaited(t.asked, s.cells[j].client, s.cells[j].bid)
    BY <1>1 DEF Remembered
  <1>5. s.sent => ChainAwaited(t.asked, s.client)
    BY <1>1, Zenon DEF Remembered
  <1> QED
    BY <1>3, <1>4, <1>5, Zenon DEF StillAwaited

(***************************************************************************)
(* advance_download and on_disconnect                                      *)
(***************************************************************************)
\* Other marks of the cells keep the invariant.
MarkedAlike(s, t) ==
  /\ t.cells \in Seq(CellSet) /\ DOMAIN t.cells = DOMAIN s.cells
  /\ \A j \in DOMAIN s.cells :
       /\ t.cells[j].bid = s.cells[j].bid /\ t.cells[j].height = s.cells[j].height
       /\ t.cells[j].client = s.cells[j].client /\ t.cells[j].status = s.cells[j].status

LEMMA MarksKeep ==
  ASSUME NEW s, NEW P, Core(s, P), NEW t, t = [s EXCEPT !.cells = t.cells], MarkedAlike(s, t)
  PROVE  Core(t, P) /\ SameCells(s, t)
  <1>1. s \in DlSet
    BY DEF Core
  <1>2. t.cells \in Seq(CellSet) /\ DOMAIN t.cells = DOMAIN s.cells /\ Len(t.cells) = Len(s.cells)
    BY <1>1 DEF MarkedAlike, DlSet
  <1>3. /\ t.chain = s.chain /\ t.start = s.start /\ t.client = s.client /\ t.total = s.total
        /\ t.sent = s.sent /\ t.ok = s.ok
        /\ t.good = s.good /\ t.known = s.known /\ t.tip = s.tip /\ t.asked = s.asked
        /\ t.importing = s.importing /\ t.work = s.work
    BY <1>1 DEF DlSet
  <1>4. t \in DlSet
    BY <1>1, <1>2 DEF DlSet
  <1>5. SameCells(s, t)
    BY <1>2, <1>3, Zenon DEF SameCells, MarkedAlike
  <1>6. Grown(s, t)
    BY <1>3, UngrownIsGrown
  <1>7. StillAwaited(s, t, P)
    <2>1. \A j \in DOMAIN t.cells : t.cells[j].status = s.cells[j].status
      BY DEF MarkedAlike
    <2> QED
      BY <1>3, <1>5, <2>1, AwaitedStill
  <1> QED
    BY <1>4, <1>5, <1>6, <1>7, FrameKeeps

LEMMA ProtectedKeeps ==
  ASSUME NEW s, NEW P, Core(s, P), NEW who, NEW t, t = Protected(s, who)
  PROVE  Core(t, P) /\ t.good = s.good /\ t.importing = s.importing
  <1>1. s \in DlSet /\ s.cells \in Seq(CellSet)
    BY DEF Core, DlSet
  <1>2. t.cells = [i \in DOMAIN s.cells |->
           IF s.cells[i].client = who THEN [s.cells[i] EXCEPT !.protect = TRUE] ELSE s.cells[i]]
    BY <1>1 DEF Protected, DlSet
  <1>3. ASSUME NEW i \in DOMAIN s.cells
        PROVE  /\ t.cells[i] \in CellSet
               /\ t.cells[i].bid = s.cells[i].bid /\ t.cells[i].height = s.cells[i].height
               /\ t.cells[i].client = s.cells[i].client /\ t.cells[i].status = s.cells[i].status
    <2>1. s.cells[i] \in CellSet
      BY <1>1
    <2>2. PICK u : u = [s.cells[i] EXCEPT !.protect = TRUE]
      OBVIOUS
    <2>3. /\ u \in CellSet /\ u.bid = s.cells[i].bid /\ u.height = s.cells[i].height
          /\ u.client = s.cells[i].client /\ u.status = s.cells[i].status
      BY <2>1, <2>2 DEF CellSet
    <2>4. t.cells[i] = IF s.cells[i].client = who THEN u ELSE s.cells[i]
      BY <1>2, <2>2
    <2> QED
      BY <2>1, <2>3, <2>4
  <1>4. t.cells \in Seq(CellSet)
    <2>1. PICK N \in Nat : N = Len(s.cells)
      BY <1>1
    <2>2. DOMAIN s.cells = 1 .. N
      BY <1>1, <2>1
    <2>3. t.cells \in [1 .. N -> CellSet]
      BY <1>2, <1>3, <2>2
    <2> QED
      BY <2>3
  <1>5. MarkedAlike(s, t)
    BY <1>2, <1>3, <1>4 DEF MarkedAlike
  <1>6. t = [s EXCEPT !.cells = t.cells] /\ t.good = s.good /\ t.importing = s.importing
    BY <1>1 DEF Protected, DlSet
  <1> QED
    BY <1>5, <1>6, MarksKeep

\* advance_download keeps the invariant, and it serves the front of the window.
Sound(s, P) == Core(s, P) /\ FrontServed(s)

LEMMA WithoutSlackerKeeps ==
  ASSUME NEW s, NEW P, NEW r, Sound(r.s, P), ~r.s.importing, NEW ch
  PROVE  Sound(WithoutSlacker(r, ch), P)
  <1>1. CASE r.clean \/ ~Slow(r.s)
    BY <1>1 DEF WithoutSlacker
  <1>2. CASE ~(r.clean \/ ~Slow(r.s))
    <2>1. PICK u : u = r.s
      OBVIOUS
    <2>2. Core(u, P) /\ ~u.importing /\ Slow(u)
      BY <1>2, <2>1 DEF Sound
    <2>3. PICK who : who = u.cells[1].client
      OBVIOUS
    <2>4. who \in DOMAIN u.good
      <3>1. u.cells # <<>> /\ Asked(u.cells[1]) /\ u.cells \in Seq(CellSet)
        BY <2>2 DEF Slow, Core, DlSet
      <3>2. 1 \in DOMAIN u.cells
        BY <3>1
      <3> QED
        BY <2>2, <2>3, <3>1, <3>2 DEF Core, Alive, Asked
    <2>5. PICK v : v = Protected(u, who)
      OBVIOUS
    <2>6. Core(v, P) /\ v.good = u.good /\ v.importing = u.importing
      BY <2>2, <2>5, ProtectedKeeps
    <2>7. PICK w : w = Disconnected(v, who)
      OBVIOUS
    <2>8. Core(w, P) /\ Without(v, w, who)
      BY <2>4, <2>6, <2>7, DisconnectedKeeps
    <2>9. ~w.importing
      BY <2>2, <2>6, <2>8, Zenon DEF Without, SameLine
    <2>10. PICK x : x = Pass(w, ch)
      OBVIOUS
    <2>11. Core(x.s, P) /\ FrontServed(x.s)
      BY <2>8, <2>9, <2>10, PassKeeps
    <2>12. WithoutSlacker(r, ch) = x.s
      BY <1>2, <2>1, <2>3, <2>5, <2>7, <2>10, Zenon DEF WithoutSlacker
    <2> QED
      BY <2>11, <2>12 DEF Sound
  <1> QED
    BY <1>1, <1>2

LEMMA AdvanceKeeps ==
  ASSUME NEW s, NEW P, Core(s, P), NEW ch
  PROVE  Sound(advance_download(s, ch), P)
  <1>1. CASE s.importing
    <2>1. advance_download(s, ch) = s
      BY <1>1 DEF advance_download
    <2>2. s.cells = <<>>
      BY <1>1, Zenon DEF Core, Quiet
    <2> QED
      BY <2>1, <2>2 DEF Sound, FrontServed
  <1>2. CASE ~s.importing
    <2>1. PICK r : r = Pass(s, ch)
      OBVIOUS
    <2>2. Sound(r.s, P) /\ ~r.s.importing
      BY <1>2, <2>1, PassKeeps DEF Sound
    <2>3. advance_download(s, ch) = WithoutSlacker(r, ch)
      BY <1>2, <2>1 DEF advance_download
    <2> QED
      BY <2>2, <2>3, WithoutSlackerKeeps
  <1> QED
    BY <1>1, <1>2

LEMMA OnDisconnectKeeps ==
  ASSUME NEW s, NEW P, Core(s, P), NEW c \in DOMAIN s.good, NEW ch
  PROVE  Sound(on_disconnect(s, c, ch), P)
  <1>1. PICK t : t = Disconnected(s, c)
    OBVIOUS
  <1>2. Core(t, P)
    BY <1>1, DisconnectedKeeps
  <1> QED
    BY <1>1, <1>2, AdvanceKeeps DEF on_disconnect

(***************************************************************************)
(* Connections, tips and blocks                                            *)
(***************************************************************************)
Tipped(b) == [height |-> Height[b], top |-> b]

\* A client's tip.
LEMMA HeardKeeps ==
  ASSUME NEW s, NEW P, Core(s, P), NEW c \in Client, NEW b \in Block,
         NEW t, t = [s EXCEPT !.sync[c] = Tipped(b)]
  PROVE  Core(t, P)
  <1>1. s \in DlSet
    BY DEF Core
  <1>2. Tipped(b) \in [height : Nat, top : Block]
    BY DlTree DEF Tipped
  <1>3. t \in DlSet
    <2>1. t = [s EXCEPT !.sync = t.sync] /\ t.sync \in [Client -> [height : Nat, top : Block]]
      BY <1>1, <1>2 DEF DlSet
    <2> QED
      BY <1>1, <2>1 DEF DlSet
  <1>4. /\ t.cells = s.cells /\ t.chain = s.chain /\ t.start = s.start /\ t.client = s.client
        /\ t.total = s.total /\ t.sent = s.sent /\ t.ok = s.ok
        /\ t.good = s.good /\ t.known = s.known /\ t.tip = s.tip /\ t.asked = s.asked
        /\ t.importing = s.importing /\ t.work = s.work
    BY <1>1 DEF DlSet
  <1>5. SameCells(s, t)
    BY <1>4, Zenon DEF SameCells
  <1>6. Grown(s, t)
    BY <1>4, UngrownIsGrown
  <1>7. StillAwaited(s, t, P)
    BY <1>4, <1>5, AwaitedStill
  <1> QED
    BY <1>3, <1>5, <1>6, <1>7, FrameKeeps

\* A new client.
LEMMA ConnectedKeeps ==
  ASSUME NEW s, NEW P, Core(s, P), NEW c \in Client, c \notin DOMAIN s.good, NEW b \in Block,
         NEW t, t = [s EXCEPT !.good = [d \in DOMAIN @ \cup {c} |-> IF d = c THEN 0 ELSE @[d]],
                              !.sync[c] = Tipped(b)]
  PROVE  Core(t, P)
  <1>1. s \in DlSet /\ IsFiniteSet(DOMAIN s.good)
        /\ DOMAIN s.good \in SUBSET Client /\ s.good \in [DOMAIN s.good -> Nat]
    BY CellSets DEF Core, Alive
  <1>2. Tipped(b) \in [height : Nat, top : Block]
    BY DlTree DEF Tipped
  <1>3. /\ t.cells = s.cells /\ t.chain = s.chain /\ t.start = s.start /\ t.client = s.client
        /\ t.total = s.total /\ t.sent = s.sent /\ t.ok = s.ok
        /\ t.known = s.known /\ t.tip = s.tip /\ t.asked = s.asked
        /\ t.importing = s.importing /\ t.work = s.work
        /\ t.good = [d \in DOMAIN s.good \cup {c} |-> IF d = c THEN 0 ELSE s.good[d]]
    BY <1>1 DEF DlSet
  <1>4. t \in DlSet
    <2>1. t = [s EXCEPT !.good = t.good, !.sync = t.sync]
          /\ t.sync \in [Client -> [height : Nat, top : Block]]
      BY <1>1, <1>2 DEF DlSet
    <2>2. t.good \in [DOMAIN s.good \cup {c} -> Nat] /\ DOMAIN s.good \cup {c} \in SUBSET Client
      BY <1>1, <1>3
    <2>3. t.good \in Counts
      BY <2>2 DEF Counts
    <2> QED
      BY <1>1, <2>1, <2>3 DEF DlSet
  <1>5. SameCells(s, t)
    BY <1>3, Zenon DEF SameCells
  <1>6. Grown(s, t)
    <2>1. Asking(s.asked, s.known) /\ ClosedDl(s.known) /\ s.tip \in s.known
      BY DEF Core, Rooted, Asking
    <2>2. IsFiniteSet(DOMAIN s.good \cup {c})
      BY <1>1, FS_AddElement
    <2>3. DOMAIN t.good = DOMAIN s.good \cup {c} /\ t.good[c] = 0
          /\ \A d \in DOMAIN s.good : t.good[d] = s.good[d]
      BY <1>3
    <2>4. t.importing => s.importing
      BY <1>3, Zenon
    <2>5. \A d \in DOMAIN t.good : d \notin DOMAIN s.good => t.good[d] = 0
      BY <2>3
    <2> QED
      BY <1>3, <2>1, <2>2, <2>3, <2>4, <2>5 DEF Grown
  <1>7. StillAwaited(s, t, P)
    BY <1>3, <1>5, AwaitedStill
  <1> QED
    BY <1>4, <1>5, <1>6, <1>7, FrameKeeps

\* The end of the reading of files.
LEMMA ImportedKeeps ==
  ASSUME NEW s, NEW P, Core(s, P), s.importing, NEW more \in BOOLEAN,
         NEW t, t = [s EXCEPT !.importing = more]
  PROVE  Core(t, P)
  <1>1. s \in DlSet
    BY DEF Core
  <1>2. t \in DlSet
    BY <1>1 DEF DlSet
  <1>3. /\ t.cells = s.cells /\ t.chain = s.chain /\ t.start = s.start /\ t.client = s.client
        /\ t.total = s.total /\ t.sent = s.sent /\ t.ok = s.ok
        /\ t.good = s.good /\ t.known = s.known /\ t.tip = s.tip /\ t.asked = s.asked
        /\ t.work = s.work
    BY <1>1 DEF DlSet
  <1>4. SameCells(s, t)
    BY <1>3, Zenon DEF SameCells
  <1>5. Grown(s, t)
    <2>1. Asking(s.asked, s.known) /\ ClosedDl(s.known) /\ s.tip \in s.known
          /\ IsFiniteSet(DOMAIN s.good)
      BY DEF Core, Rooted, Asking, Alive
    <2> QED
      BY <1>3, <2>1, Zenon DEF Grown
  <1>6. StillAwaited(s, t, P)
    BY <1>3, <1>4, AwaitedStill
  <1> QED
    BY <1>2, <1>4, <1>5, <1>6, FrameKeeps

\* Blocks were added: the tree has grown, nothing else has changed.
AddedTo(s, t) ==
  /\ t = [s EXCEPT !.known = t.known, !.tip = t.tip]
  /\ s.known \subseteq t.known /\ ClosedDl(t.known) /\ t.tip \in t.known

LEMMA AddedToKeeps ==
  ASSUME NEW s, NEW P, Core(s, P), NEW t, AddedTo(s, t)
  PROVE  Core(t, P) /\ SameCells(s, t) /\ t.cells = s.cells
  <1>1. s \in DlSet /\ Asking(s.asked, s.known) /\ IsFiniteSet(DOMAIN s.good)
    BY DEF Core, Rooted, Asking, Alive
  <1>2. t.known \in SUBSET Block /\ t.tip \in Block
    BY DEF AddedTo, ClosedDl, ClosedIn
  <1>3. /\ t.cells = s.cells /\ t.chain = s.chain /\ t.start = s.start /\ t.client = s.client
        /\ t.total = s.total /\ t.sent = s.sent /\ t.ok = s.ok
        /\ t.good = s.good /\ t.asked = s.asked
        /\ t.importing = s.importing /\ t.work = s.work
    BY <1>1 DEF DlSet, AddedTo
  <1>4. t \in DlSet
    BY <1>1, <1>2 DEF DlSet, AddedTo
  <1>5. SameCells(s, t)
    BY <1>3, Zenon DEF SameCells
  <1>6. Asking(t.asked, t.known)
    <2> SUFFICES ASSUME NEW c \in Client, NEW n \in DOMAIN s.asked[c], s.asked[c][n].kind = "chain"
                 PROVE  s.asked[c][n].locator \in Seq(t.known)
      BY <1>3 DEF Asking
    <2>1. s.asked[c][n].locator \in Seq(s.known) /\ s.known \subseteq t.known
      BY <1>1 DEF Asking, AddedTo
    <2> QED
      BY <2>1
  <1>7. Grown(s, t)
    <2>1. t.importing => s.importing
      BY <1>3, Zenon
    <2>2. s.known \subseteq t.known /\ ClosedDl(t.known) /\ t.tip \in t.known
      BY DEF AddedTo
    <2> QED
      BY <1>1, <1>3, <1>6, <2>1, <2>2, Zenon DEF Grown
  <1>8. StillAwaited(s, t, P)
    BY <1>3, <1>5, AwaitedStill
  <1> QED
    BY <1>3, <1>4, <1>5, <1>7, <1>8, FrameKeeps

\* One block is added if its parent is there.
LEMMA AddKeeps ==
  ASSUME NEW s \in DlSet, ClosedDl(s.known), s.tip \in s.known, NEW b \in Block,
         NEW t, t = add_block(s, b)
  PROVE  /\ AddedTo(s, t) /\ t \in DlSet
         /\ b # Genesis /\ Parent[b] \in s.known => b \in t.known
  <1>1. s.known \subseteq Block /\ s.tip \in Block
    BY DEF DlSet
  <1>2. CASE b \in s.known \/ Parent[b] \notin s.known
    <2>1. t = s
      BY <1>2 DEF add_block
    <2>2. s = [s EXCEPT !.known = s.known, !.tip = s.tip]
      BY DEF DlSet
    <2> QED
      BY <1>2, <2>1, <2>2 DEF AddedTo
  <1>3. CASE ~(b \in s.known \/ Parent[b] \notin s.known)
    <2>1. t = [s EXCEPT !.known = s.known \cup {b},
                        !.tip = IF Height[b] > Height[s.tip] THEN b ELSE s.tip]
      BY <1>3 DEF add_block
    <2>2. t.known = s.known \cup {b} /\ t.tip \in {b, s.tip}
      BY <2>1 DEF DlSet
    <2>3. t = [s EXCEPT !.known = t.known, !.tip = t.tip]
      BY <2>1 DEF DlSet
    <2>4. ClosedDl(t.known)
      BY <1>1, <1>3, <2>2 DEF ClosedDl, ClosedIn
    <2>5. t.known \in SUBSET Block /\ t.tip \in Block /\ t.tip \in t.known
      BY <1>1, <2>2
    <2>6. t \in DlSet
      BY <2>3, <2>5 DEF DlSet
    <2> QED
      BY <2>2, <2>3, <2>4, <2>5, <2>6 DEF AddedTo
  <1> QED
    BY <1>2, <1>3

\* A line of blocks is added one by one.
LineFrom(S, blocks) ==
  \A k \in 1 .. Len(blocks) :
    /\ blocks[k] # Genesis
    /\ IF k = 1 THEN Parent[blocks[k]] \in S ELSE Parent[blocks[k]] = blocks[k - 1]

AddingAt(u, s, blocks, n) ==
  /\ u \in DlSet /\ AddedTo(s, u)
  /\ LineFrom(s.known, blocks) => \A k \in 1 .. n : blocks[k] \in u.known

Adding(f, s, blocks) ==
  f = [n \in 0 .. Len(blocks) |-> IF n = 0 THEN s ELSE add_block(f[n - 1], blocks[n])]

LEMMA AddNext ==
  ASSUME NEW s \in DlSet, ClosedDl(s.known), s.tip \in s.known, NEW blocks \in Seq(Block),
         NEW n \in 1 .. Len(blocks), NEW u, AddingAt(u, s, blocks, n - 1),
         NEW t, t = add_block(u, blocks[n])
  PROVE  AddingAt(t, s, blocks, n)
  <1>1. u \in DlSet /\ AddedTo(s, u) /\ ClosedDl(u.known) /\ u.tip \in u.known
        /\ s.known \subseteq u.known
    BY DEF AddingAt, AddedTo
  <1>2. blocks[n] \in Block /\ n \in Nat
    OBVIOUS
  <1>3. /\ AddedTo(u, t) /\ t \in DlSet
        /\ blocks[n] # Genesis /\ Parent[blocks[n]] \in u.known => blocks[n] \in t.known
    BY <1>1, <1>2, AddKeeps
  <1>4. AddedTo(s, t)
    <2>1. u = [s EXCEPT !.known = u.known, !.tip = u.tip]
      BY <1>1 DEF AddedTo
    <2>2. t = [u EXCEPT !.known = t.known, !.tip = t.tip]
      BY <1>3 DEF AddedTo
    <2>3. t = [s EXCEPT !.known = t.known, !.tip = t.tip]
      BY <2>1, <2>2 DEF DlSet
    <2> QED
      BY <1>1, <1>3, <2>3 DEF AddedTo
  <1>5. ASSUME LineFrom(s.known, blocks), NEW k \in 1 .. n
        PROVE  blocks[k] \in t.known
    <2>1. \A j \in 1 .. n - 1 : blocks[j] \in u.known
      BY <1>5 DEF AddingAt
    <2>2. u.known \subseteq t.known
      BY <1>3 DEF AddedTo
    <2>3. CASE k # n
      <3>1. k \in 1 .. n - 1
        BY <1>2, <2>3
      <3> QED
        BY <2>1, <2>2, <3>1
    <2>4. CASE k = n
      <3>1. blocks[n] # Genesis
            /\ IF n = 1 THEN Parent[blocks[n]] \in s.known ELSE Parent[blocks[n]] = blocks[n - 1]
        BY <1>5 DEF LineFrom
      <3>2. Parent[blocks[n]] \in u.known
        <4>1. CASE n = 1
          BY <1>1, <3>1, <4>1
        <4>2. CASE n # 1
          <5>1. n - 1 \in 1 .. n - 1
            BY <1>2, <4>2
          <5> QED
            BY <2>1, <3>1, <4>2, <5>1
        <4> QED
          BY <4>1, <4>2
      <3> QED
        BY <1>3, <2>4, <3>1, <3>2
    <2> QED
      BY <2>3, <2>4
  <1> QED
    BY <1>3, <1>4, <1>5 DEF AddingAt

LEMMA AddFirst ==
  ASSUME NEW s \in DlSet, ClosedDl(s.known), s.tip \in s.known, NEW blocks
  PROVE  AddingAt(s, s, blocks, 0)
  <1>1. s = [s EXCEPT !.known = s.known, !.tip = s.tip]
    BY DEF DlSet
  <1>2. \A k \in 1 .. 0 : FALSE
    OBVIOUS
  <1> QED
    BY <1>1, <1>2 DEF AddingAt, AddedTo

LEMMA AddingExists ==
  ASSUME NEW s \in DlSet, ClosedDl(s.known), s.tip \in s.known, NEW blocks \in Seq(Block)
  PROVE  \E f : Adding(f, s, blocks)
  <1>1. PICK k : k = Len(blocks)
    OBVIOUS
  <1>2. k \in Nat
    BY <1>1
  <1>3. PICK W : W = [n \in 0 .. k |-> {u \in DlSet : AddingAt(u, s, blocks, n)}]
    OBVIOUS
  <1>4. PICK step : step = [n \in 1 .. k |-> [u \in DlSet |-> add_block(u, blocks[n])]]
    OBVIOUS
  <1>5. PICK f : Repetition(f, k, s, step)
    BY <1>2, RepeatExists
  <1>6. f = [n \in 0 .. k |-> IF n = 0 THEN s ELSE step[n][f[n - 1]]]
    BY <1>5 DEF Repetition
  <1>7. f[0] \in W[0]
    <2>1. AddingAt(s, s, blocks, 0)
      BY AddFirst
    <2> QED
      BY <1>2, <1>3, <1>6, <2>1
  <1>8. ASSUME NEW n \in 1 .. k, f[n - 1] \in W[n - 1]
        PROVE  f[n] \in W[n] /\ f[n] = add_block(f[n - 1], blocks[n])
    <2>1. n - 1 \in 0 .. k /\ n \in 0 .. k /\ n # 0 /\ n \in 1 .. Len(blocks)
      BY <1>1, <1>2
    <2>2. f[n - 1] \in DlSet /\ AddingAt(f[n - 1], s, blocks, n - 1)
      BY <1>3, <1>8, <2>1
    <2>3. f[n] = add_block(f[n - 1], blocks[n])
      BY <1>4, <1>6, <2>1, <2>2
    <2>4. AddingAt(f[n], s, blocks, n)
      BY <2>1, <2>2, <2>3, AddNext
    <2>5. f[n] \in DlSet
      BY <2>4 DEF AddingAt
    <2> QED
      BY <1>3, <2>1, <2>3, <2>4, <2>5
  <1>9. \A n \in 0 .. k : f[n] \in W[n]
    BY <1>2, <1>7, <1>8, RepeatIn
  <1>10. ASSUME NEW n \in 0 .. k
         PROVE  f[n] = IF n = 0 THEN s ELSE add_block(f[n - 1], blocks[n])
    <2>1. CASE n = 0
      BY <1>6, <2>1
    <2>2. CASE n # 0
      <3>1. n \in 1 .. k /\ n - 1 \in 0 .. k
        BY <1>2, <2>2
      <3> QED
        BY <1>8, <1>9, <2>2, <3>1
    <2> QED
      BY <2>1, <2>2
  <1>11. f = [n \in 0 .. k |-> IF n = 0 THEN s ELSE add_block(f[n - 1], blocks[n])]
    BY <1>6, <1>10
  <1>12. Adding(f, s, blocks)
    BY <1>1, <1>11, Zenon DEF Adding
  <1> QED
    BY <1>12

\* What add_blocks does.
LEMMA AddedOneByOne ==
  ASSUME NEW s \in DlSet, ClosedDl(s.known), s.tip \in s.known, NEW blocks \in Seq(Block)
  PROVE  AddingAt(add_blocks(s, blocks), s, blocks, Len(blocks))
  <1>1. PICK f : f = CHOOSE g : Adding(g, s, blocks)
    OBVIOUS
  <1>2. Adding(f, s, blocks)
    BY <1>1, AddingExists
  <1>3. PICK k : k = Len(blocks)
    OBVIOUS
  <1>4. k \in Nat
    BY <1>3
  <1>5. add_blocks(s, blocks) = f[k]
    BY <1>1, <1>3 DEF add_blocks, Adding
  <1>6. PICK W : W = [n \in 0 .. k |-> {u \in DlSet : AddingAt(u, s, blocks, n)}]
    OBVIOUS
  <1>7. f[0] \in W[0]
    <2>1. f[0] = s
      BY <1>2, <1>3, <1>4 DEF Adding
    <2>2. AddingAt(f[0], s, blocks, 0)
      BY <2>1, AddFirst
    <2> QED
      BY <1>4, <1>6, <2>1, <2>2
  <1>8. ASSUME NEW n \in 1 .. k, f[n - 1] \in W[n - 1]
        PROVE  f[n] \in W[n]
    <2>1. n - 1 \in 0 .. k /\ n \in 0 .. k /\ n # 0 /\ n \in 1 .. Len(blocks)
      BY <1>3, <1>4
    <2>2. AddingAt(f[n - 1], s, blocks, n - 1)
      BY <1>6, <1>8, <2>1
    <2>3. f[n] = add_block(f[n - 1], blocks[n])
      BY <1>2, <1>3, <2>1 DEF Adding
    <2>4. AddingAt(f[n], s, blocks, n)
      BY <2>1, <2>2, <2>3, AddNext
    <2>5. f[n] \in DlSet
      BY <2>4 DEF AddingAt
    <2> QED
      BY <1>6, <2>1, <2>4, <2>5
  <1>9. \A n \in 0 .. k : f[n] \in W[n]
    BY <1>4, <1>7, <1>8, RepeatIn
  <1>10. AddingAt(f[k], s, blocks, k)
    BY <1>4, <1>6, <1>9
  <1> QED
    BY <1>3, <1>5, <1>10

(***************************************************************************)
(* The answers to requests for blocks                                      *)
(***************************************************************************)
Unasked(s, c) == [s EXCEPT !.asked[c] = Tail(@)]

\* What the first request of c leaves when it is taken off.
TakenOff(asked, rest, c) ==
  /\ rest \in [Client -> Seq(Requests)]
  /\ \A d \in Client : d # c => rest[d] = asked[d]
  /\ \A b : BlockAwaited(asked, c, b) /\ Head(asked[c]) # BlockRequest(b) => BlockAwaited(rest, c, b)
  /\ ChainAwaited(asked, c) /\ Head(asked[c]).kind # "chain" => ChainAwaited(rest, c)
  /\ \A S : Asking(asked, S) => Asking(rest, S)

LEMMA RequestTaken ==
  ASSUME NEW asked \in [Client -> Seq(Requests)], NEW c \in Client, asked[c] # <<>>,
         NEW rest, rest = [asked EXCEPT ![c] = Tail(@)]
  PROVE  TakenOff(asked, rest, c)
  <1>1. PICK q : q = asked[c]
    OBVIOUS
  <1>2. q \in Seq(Requests) /\ q # <<>> /\ Len(q) \in Nat /\ Len(q) >= 1 /\ DOMAIN q = 1 .. Len(q)
    BY <1>1
  <1>3. /\ Tail(q) \in Seq(Requests) /\ DOMAIN Tail(q) = 1 .. Len(q) - 1
        /\ \A n \in 1 .. Len(q) - 1 : Tail(q)[n] = q[n + 1]
    BY <1>2
  <1>4. /\ rest \in [Client -> Seq(Requests)] /\ rest[c] = Tail(q)
        /\ \A d \in Client : d # c => rest[d] = asked[d]
    BY <1>1, <1>3
  <1>5. ASSUME NEW n \in DOMAIN q, n # 1
        PROVE  n - 1 \in DOMAIN rest[c] /\ rest[c][n - 1] = q[n]
    <2>1. n - 1 \in 1 .. Len(q) - 1 /\ (n - 1) + 1 = n
      BY <1>2, <1>5
    <2> QED
      BY <1>3, <1>4, <2>1
  <1>6. q[1] = Head(q)
    BY <1>2
  <1>7. ASSUME NEW b, BlockAwaited(asked, c, b), Head(asked[c]) # BlockRequest(b)
        PROVE  BlockAwaited(rest, c, b)
    <2>1. PICK n \in DOMAIN q : q[n] = BlockRequest(b)
      BY <1>1, <1>7 DEF BlockAwaited
    <2>2. n # 1
      BY <1>1, <1>6, <1>7, <2>1
    <2> QED
      BY <1>5, <2>1, <2>2 DEF BlockAwaited
  <1>8. ASSUME ChainAwaited(asked, c), Head(asked[c]).kind # "chain"
        PROVE  ChainAwaited(rest, c)
    <2>1. PICK n \in DOMAIN q : q[n].kind = "chain"
      BY <1>1, <1>8 DEF ChainAwaited
    <2>2. n # 1
      BY <1>1, <1>6, <1>8, <2>1
    <2> QED
      BY <1>5, <2>1, <2>2 DEF ChainAwaited
  <1>9. ASSUME NEW S, Asking(asked, S)
        PROVE  Asking(rest, S)
    <2> SUFFICES ASSUME NEW d \in Client, NEW n \in DOMAIN rest[d], rest[d][n].kind = "chain"
                 PROVE  rest[d][n].locator \in Seq(S)
      BY DEF Asking
    <2>1. CASE d # c
      BY <1>4, <1>9, <2>1 DEF Asking
    <2>2. CASE d = c
      <3>1. n \in 1 .. Len(q) - 1
        BY <1>3, <1>4, <2>2
      <3>2. n + 1 \in DOMAIN q /\ rest[d][n] = q[n + 1]
        BY <1>2, <1>3, <1>4, <2>2, <3>1
      <3> QED
        BY <1>1, <1>9, <2>2, <3>2 DEF Asking
    <2> QED
      BY <2>1, <2>2
  <1> QED
    BY <1>4, <1>7, <1>8, <1>9 DEF TakenOff

\* A request that nothing waits for is taken off.
LEMMA UnaskedKeeps ==
  ASSUME NEW s, NEW P, Core(s, P), NEW c \in Client, s.asked[c] # <<>>,
         \A j \in AskedIn(s) :
           s.cells[j].client = c => Head(s.asked[c]) # BlockRequest(s.cells[j].bid),
         s.sent /\ s.client = c => Head(s.asked[c]).kind # "chain",
         NEW t, t = Unasked(s, c)
  PROVE  Core(t, P) /\ SameCells(s, t)
  <1>1. s \in DlSet /\ s.asked \in [Client -> Seq(Requests)] /\ Remembered(s, P) /\ Alive(s)
    BY DEF Core, DlSet
  <1>2. /\ t.cells = s.cells /\ t.chain = s.chain /\ t.start = s.start /\ t.client = s.client
        /\ t.total = s.total /\ t.sent = s.sent /\ t.ok = s.ok
        /\ t.good = s.good /\ t.known = s.known /\ t.tip = s.tip
        /\ t.importing = s.importing /\ t.work = s.work
        /\ t.asked = [s.asked EXCEPT ![c] = Tail(@)]
    BY <1>1 DEF Unasked, DlSet
  <1>3. PICK rest : rest = t.asked
    OBVIOUS
  <1>4. PICK ask : ask = s.asked
    OBVIOUS
  <1>5. TakenOff(ask, rest, c)
    <2>1. ask \in [Client -> Seq(Requests)] /\ ask[c] # <<>> /\ rest = [ask EXCEPT ![c] = Tail(@)]
      BY <1>1, <1>2, <1>3, <1>4
    <2> QED
      BY <2>1, RequestTaken
  <1>6. t \in DlSet
    <2>1. t = [s EXCEPT !.asked = t.asked]
      BY <1>1 DEF Unasked, DlSet
    <2>2. t.asked \in [Client -> Seq(Requests)]
      BY <1>3, <1>5 DEF TakenOff
    <2> QED
      BY <1>1, <2>1, <2>2 DEF DlSet
  <1>7. SameCells(s, t)
    BY <1>2, Zenon DEF SameCells
  <1>8. Grown(s, t)
    <2>1. Asking(s.asked, s.known) /\ ClosedDl(s.known) /\ s.tip \in s.known
          /\ IsFiniteSet(DOMAIN s.good)
      BY DEF Core, Rooted, Asking, Alive
    <2>2. Asking(t.asked, t.known)
      BY <1>2, <1>3, <1>4, <1>5, <2>1 DEF TakenOff
    <2> QED
      BY <1>2, <2>1, <2>2, Zenon DEF Grown
  <1>9. StillAwaited(s, t, P)
    <2>1. ASSUME NEW j \in AskedIn(s)
          PROVE  BlockAwaited(rest, s.cells[j].client, s.cells[j].bid)
      <3>1. BlockAwaited(ask, s.cells[j].client, s.cells[j].bid)
        BY <1>1, <1>4 DEF Remembered
      <3>2. s.cells[j].client \in Client
        <4>1. j \in DOMAIN s.cells /\ s.cells[j].client # NoClient
          BY DEF AskedIn, Asked
        <4> QED
          BY <1>1, <4>1, CellSets DEF Alive
      <3>3. CASE s.cells[j].client = c
        BY <1>4, <1>5, <3>1, <3>3 DEF TakenOff
      <3>4. CASE s.cells[j].client # c
        BY <1>5, <3>1, <3>2, <3>4 DEF TakenOff, BlockAwaited
      <3> QED
        BY <3>3, <3>4
    <2>2. s.sent => ChainAwaited(rest, s.client)
      <3> SUFFICES ASSUME s.sent PROVE ChainAwaited(rest, s.client)
        OBVIOUS
      <3>1. ChainAwaited(ask, s.client) /\ s.client # NoClient
        BY <1>1, <1>4, Zenon DEF Remembered, Alive
      <3>2. s.client \in Client
        BY <1>1, <3>1 DEF DlSet
      <3>3. CASE s.client = c
        BY <1>4, <1>5, <3>1, <3>3 DEF TakenOff
      <3>4. CASE s.client # c
        BY <1>5, <3>1, <3>2, <3>4 DEF TakenOff, ChainAwaited
      <3> QED
        BY <3>3, <3>4
    <2>3. \A j \in DOMAIN t.cells :
            t.cells[j].status = PREPARING => t.cells[j].bid \in Range(t.work) \cup P
      BY <1>1, <1>2 DEF Remembered
    <2> QED
      BY <1>3, <2>1, <2>2, <2>3, Zenon DEF StillAwaited
  <1> QED
    BY <1>6, <1>7, <1>8, <1>9, FrameKeeps

\* No two cells are for the same block.
LEMMA CellsDiffer ==
  ASSUME NEW s, NEW P, Core(s, P), NEW i \in DOMAIN s.cells, NEW j \in DOMAIN s.cells,
         s.cells[i].bid = s.cells[j].bid
  PROVE  i = j
  <1>1. DOMAIN s.cells = 1 .. Len(s.cells) /\ Len(s.cells) \in Nat
        /\ \A k \in DOMAIN s.cells : s.cells[k] \in CellSet
    BY CellSets DEF Core
  <1>2. /\ s.cells[i].height = Height[s.cells[i].bid] /\ s.cells[j].height = Height[s.cells[j].bid]
        /\ s.cells[i].height = s.cells[1].height + (i - 1)
        /\ s.cells[j].height = s.cells[1].height + (j - 1)
    BY DEF Core, Ordered
  <1>3. 1 \in DOMAIN s.cells
    BY <1>1
  <1>4. s.cells[1].height \in Nat
    BY <1>1, <1>3 DEF CellSet
  <1> QED
    BY <1>1, <1>2, <1>4

\* After stop_download for the answer b of c, the cell i waits again.
BlockStopped(u, s, P, i, b) ==
  /\ Core(u, P) /\ i \in DOMAIN u.cells /\ Waiting(u.cells[i]) /\ u.cells[i].bid = b
  /\ u.total < MaxDownload /\ Cardinality(Pending(u, i)) <= MaxDownload
  /\ u.client = s.client

LEMMA BlockTaken ==
  ASSUME NEW s, NEW P, Core(s, P), NEW c \in Client, s.asked[c] # <<>>,
         NEW b, Head(s.asked[c]) = BlockRequest(b), NEW v, v = Unasked(s, c)
  PROVE  /\ CellOf(v, c, b) = {} => Core(v, P)
         /\ CellOf(v, c, b) # {} =>
              BlockStopped(stop_download(v, Min(CellOf(v, c, b))), v, P, Min(CellOf(v, c, b)), b)
  <1>1. s \in DlSet /\ Head(s.asked[c]).kind # "chain"
        /\ DOMAIN s.cells = 1 .. Len(s.cells) /\ Len(s.cells) \in Nat
        /\ \A x, y : BlockRequest(x) = BlockRequest(y) => x = y
    BY CellSets DEF Core, BlockRequest
  <1>2. v.cells = s.cells /\ v.client = s.client
    BY <1>1 DEF Unasked, DlSet
  <1>3. CellOf(v, c, b) = {j \in AskedIn(s) : s.cells[j].client = c /\ s.cells[j].bid = b}
    BY <1>2 DEF CellOf, AskedIn
  <1>4. CASE CellOf(v, c, b) = {}
    <2>1. \A j \in AskedIn(s) :
            s.cells[j].client = c => Head(s.asked[c]) # BlockRequest(s.cells[j].bid)
      BY <1>1, <1>3, <1>4
    <2> QED
      BY <1>1, <1>4, <2>1, UnaskedKeeps
  <1>5. CASE CellOf(v, c, b) # {}
    <2>1. PICK i : i = Min(CellOf(v, c, b))
      OBVIOUS
    <2>2. i \in CellOf(v, c, b)
      <3>1. CellOf(v, c, b) \in SUBSET Nat
        BY <1>1, <1>3 DEF AskedIn
      <3> QED
        BY <1>5, <2>1, <3>1, DlMinMax
    <2>3. i \in AskedIn(s) /\ i \in DOMAIN s.cells /\ s.cells[i].client = c /\ s.cells[i].bid = b
          /\ Asked(s.cells[i])
      BY <1>3, <2>2 DEF AskedIn
    <2>4. PICK u : u = stop_download(s, i)
      OBVIOUS
    <2>5. /\ Core(u, P) /\ OnlyCell(s, u, i) /\ u.asked = s.asked
          /\ u.cells[i].client = NoClient /\ AskedIn(u) = AskedIn(s) \ {i}
      BY <2>3, <2>4, StopKeeps
    <2>6. PICK w : w = Unasked(u, c)
      OBVIOUS
    <2>7. Core(w, P) /\ SameCells(u, w)
      <3>1. \A j \in AskedIn(u) :
              u.cells[j].client = c => Head(u.asked[c]) # BlockRequest(u.cells[j].bid)
        <4> SUFFICES ASSUME NEW j \in AskedIn(u), Head(u.asked[c]) = BlockRequest(u.cells[j].bid)
                     PROVE  FALSE
          OBVIOUS
        <4>1. j \in DOMAIN s.cells /\ j # i
          BY <2>5 DEF AskedIn
        <4>2. s.cells[j].bid = b
          BY <1>1, <2>5, <4>1 DEF OnlyCell
        <4> QED
          BY <2>3, <4>1, <4>2, CellsDiffer
      <3> QED
        BY <1>1, <2>5, <2>6, <3>1, UnaskedKeeps
    <2>8. w = stop_download(v, i)
      BY <1>1, <2>3, <2>4, <2>6, ZenonT(40) DEF stop_download, Unasked, DlSet
    <2>9. i \in DOMAIN w.cells /\ Waiting(w.cells[i]) /\ w.cells[i].bid = b
      <3>1. u \in DlSet /\ s.cells[i].status = DOWNLOADING
        BY <2>3, <2>5 DEF Core, Asked
      <3>2. w.cells = u.cells
        BY <2>6, <3>1 DEF Unasked, DlSet
      <3> QED
        BY <2>3, <2>5, <3>1, <3>2 DEF OnlyCell, Waiting
    <2>10. w.total < MaxDownload
      <3>1. /\ IsFiniteSet(AskedIn(s)) /\ Cardinality(AskedIn(s)) \in Nat
            /\ s.total = Cardinality(AskedIn(s)) /\ s.total <= MaxDownload /\ MaxDownload \in Nat
        BY <1>1, CellSets, DownloadAssumption DEF Core, Counted, Limited
      <3>2. Cardinality(AskedIn(u)) = Cardinality(AskedIn(s)) - 1
        BY <2>3, <2>5, <3>1, FS_RemoveElement
      <3>3. u.total = Cardinality(AskedIn(u)) /\ w.total = u.total
        BY <2>5, <2>7 DEF Core, Counted, SameCells
      <3> QED
        BY <3>1, <3>2, <3>3
    <2>11. Cardinality(Pending(w, i)) <= MaxDownload
      <3>1. s \in DlSet /\ u \in DlSet /\ w.cells = u.cells
        BY <1>1, <2>5, <2>6 DEF Core, Unasked, DlSet
      <3>2. Pending(u, i) = Pending(s, i)
        BY <2>3, <2>5, <3>1, OnlyCellKeeps DEF LineKept
      <3>3. Pending(w, i) = Pending(u, i)
        BY <3>1 DEF Pending
      <3>4. Cardinality(Pending(s, i)) <= MaxDownload
        BY <2>3 DEF Core, Early
      <3> QED
        BY <3>2, <3>3, <3>4
    <2>12. w.client = v.client
      BY <1>2, <2>5, <2>7 DEF OnlyCell, SameCells
    <2>13. BlockStopped(w, v, P, i, b)
      BY <2>7, <2>9, <2>10, <2>11, <2>12 DEF BlockStopped
    <2> QED
      BY <1>5, <2>1, <2>8, <2>13
  <1> QED
    BY <1>4, <1>5

\* A block that came is handed to the threads.
LEMMA PrepareKeeps ==
  ASSUME NEW s, NEW P, Core(s, P), NEW i \in DOMAIN s.cells, Waiting(s.cells[i]),
         NEW b, s.cells[i].bid = b,
         NEW t, t = [s EXCEPT !.cells[i].status = PREPARING, !.work = Append(@, b)]
  PROVE  Core(t, P)
  <1>1. /\ s \in DlSet /\ s.cells \in Seq(CellSet) /\ s.cells[i] \in CellSet
        /\ s.work \in Seq(Block) /\ b \in Block /\ Remembered(s, P)
        /\ s.cells[i].client = NoClient
    BY CellSets DEF Core, DlSet, CellSet, Waiting
  <1>2. /\ t.chain = s.chain /\ t.start = s.start /\ t.client = s.client
        /\ t.total = s.total /\ t.sent = s.sent /\ t.ok = s.ok
        /\ t.good = s.good /\ t.known = s.known /\ t.tip = s.tip
        /\ t.importing = s.importing /\ t.asked = s.asked
        /\ t.work = Append(s.work, b)
        /\ t.cells = [s.cells EXCEPT ![i] = [s.cells[i] EXCEPT !.status = PREPARING]]
    BY <1>1 DEF DlSet
  <1>3. /\ DOMAIN t.cells = DOMAIN s.cells /\ Len(t.cells) = Len(s.cells)
        /\ \A j \in DOMAIN s.cells : j # i => t.cells[j] = s.cells[j]
        /\ t.cells[i] = [s.cells[i] EXCEPT !.status = PREPARING]
    BY <1>1, <1>2
  <1>4. /\ t.cells[i].bid = s.cells[i].bid /\ t.cells[i].height = s.cells[i].height
        /\ t.cells[i].status = PREPARING /\ t.cells[i].client = NoClient
        /\ t.cells[i] \in CellSet
    <2>1. PICK x : x = s.cells[i]
      OBVIOUS
    <2>2. PICK y : y = t.cells[i]
      OBVIOUS
    <2>3. x \in CellSet /\ x.client = NoClient /\ y = [x EXCEPT !.status = PREPARING]
      BY <1>1, <1>3, <2>1, <2>2
    <2>4. /\ y.bid = x.bid /\ y.height = x.height /\ y.status = PREPARING /\ y.client = NoClient
          /\ y \in CellSet
      BY <2>3 DEF CellSet, PREPARING, PREPARED, DOWNLOADING
    <2> QED
      BY <2>1, <2>2, <2>4
  <1>5. PREPARING # DOWNLOADING
    BY DEF PREPARING, DOWNLOADING
  <1>6. \A j \in DOMAIN s.cells :
          /\ t.cells[j].bid = s.cells[j].bid /\ t.cells[j].height = s.cells[j].height
          /\ t.cells[j].client = s.cells[j].client
          /\ t.cells[j].status = DOWNLOADING => s.cells[j].status = DOWNLOADING
          /\ s.cells[j].client # NoClient => t.cells[j].status = s.cells[j].status
    BY <1>1, <1>3, <1>4, <1>5
  <1>7. SameCells(s, t)
    BY <1>2, <1>3, <1>6, Zenon DEF SameCells
  <1>8. t \in DlSet
    <2>1. t.cells \in Seq(CellSet) /\ t.work \in Seq(Block)
      BY <1>1, <1>2, <1>3, <1>4
    <2>2. t = [s EXCEPT !.cells = t.cells, !.work = t.work]
      BY <1>1 DEF DlSet
    <2> QED
      BY <1>1, <2>1, <2>2 DEF DlSet
  <1>9. Grown(s, t)
    BY <1>2, UngrownIsGrown
  <1>10. Range(t.work) = Range(s.work) \cup {b}
    <2>1. PICK w : w = s.work
      OBVIOUS
    <2>2. w \in Seq(Block) /\ Len(w) \in Nat /\ DOMAIN w = 1 .. Len(w)
      BY <1>1, <2>1
    <2>3. /\ DOMAIN Append(w, b) = 1 .. Len(w) + 1 /\ Append(w, b)[Len(w) + 1] = b
          /\ \A k \in 1 .. Len(w) : Append(w, b)[k] = w[k]
      BY <1>1, <2>2
    <2>4. \A k \in 1 .. Len(w) + 1 : k = Len(w) + 1 \/ k \in 1 .. Len(w)
      BY <2>2
    <2>5. Len(w) + 1 \in 1 .. Len(w) + 1 /\ \A k \in 1 .. Len(w) : k \in 1 .. Len(w) + 1
      BY <2>2
    <2>6. Range(Append(w, b)) = Range(w) \cup {b}
      BY <2>2, <2>3, <2>4, <2>5 DEF Range
    <2> QED
      BY <1>2, <2>1, <2>6
  <1>11. StillAwaited(s, t, P)
    <2>1. \A j \in DOMAIN t.cells :
            t.cells[j].status = PREPARING => t.cells[j].bid \in Range(t.work) \cup P
      BY <1>1, <1>3, <1>4, <1>10 DEF Remembered
    <2>2. \A j \in AskedIn(s) : BlockAwaited(t.asked, s.cells[j].client, s.cells[j].bid)
      BY <1>1, <1>2 DEF Remembered
    <2>3. s.sent => ChainAwaited(t.asked, s.client)
      BY <1>1, <1>2, Zenon DEF Remembered
    <2> QED
      BY <2>1, <2>2, <2>3, Zenon DEF StillAwaited
  <1> QED
    BY <1>7, <1>8, <1>9, <1>11, FrameKeeps

\* on_block and on_missed of the answer keep the invariant.
LEMMA BlockKeeps ==
  ASSUME NEW s, NEW P, Core(s, P), NEW c \in Client, s.asked[c] # <<>>,
         NEW b, Head(s.asked[c]) = BlockRequest(b), NEW v, v = Unasked(s, c), NEW ch
  PROVE  Sound(on_block(v, c, b, ch), P)
  <1>1. CASE CellOf(v, c, b) = {}
    <2>1. Core(v, P)
      BY <1>1, BlockTaken
    <2> QED
      BY <1>1, <2>1, AdvanceKeeps DEF on_block
  <1>2. CASE CellOf(v, c, b) # {}
    <2>1. PICK i : i = Min(CellOf(v, c, b))
      OBVIOUS
    <2>2. PICK u : u = stop_download(v, i)
      OBVIOUS
    <2>3. BlockStopped(u, v, P, i, b)
      BY <1>2, <2>1, <2>2, BlockTaken
    <2>4. PICK t : t = [u EXCEPT !.cells[i].status = PREPARING, !.work = Append(@, b)]
      OBVIOUS
    <2>5. Core(t, P)
      BY <2>3, <2>4, PrepareKeeps DEF BlockStopped
    <2>6. on_block(v, c, b, ch) = advance_download(t, ch)
      BY <1>2, <2>1, <2>2, <2>4 DEF on_block
    <2> QED
      BY <2>5, <2>6, AdvanceKeeps
  <1> QED
    BY <1>1, <1>2

LEMMA MissedKeeps ==
  ASSUME NEW s, NEW P, Core(s, P), NEW c \in Client, s.asked[c] # <<>>,
         NEW b, Head(s.asked[c]) = BlockRequest(b), NEW v, v = Unasked(s, c), NEW ch
  PROVE  Sound(on_missed(v, c, b, ch), P)
  <1>1. CASE CellOf(v, c, b) = {}
    <2>1. Core(v, P)
      BY <1>1, BlockTaken
    <2> QED
      BY <1>1, <2>1, AdvanceKeeps DEF on_missed
  <1>2. CASE CellOf(v, c, b) # {}
    <2>1. PICK i : i = Min(CellOf(v, c, b))
      OBVIOUS
    <2>2. PICK u : u = stop_download(v, i)
      OBVIOUS
    <2>3. BlockStopped(u, v, P, i, b)
      BY <1>2, <2>1, <2>2, BlockTaken
    <2>4. CASE v.client \in {NoClient, c}
      <3>1. PICK t : t = Cleaned(u, i)
        OBVIOUS
      <3>2. Core(t, P)
        BY <2>3, <3>1, CleanKeeps DEF BlockStopped, CutAt
      <3>3. on_missed(v, c, b, ch) = advance_download(t, ch)
        BY <1>2, <2>1, <2>2, <2>4, <3>1 DEF on_missed
      <3> QED
        BY <3>2, <3>3, AdvanceKeeps
    <2>5. CASE v.client \notin {NoClient, c}
      <3>1. PICK t : t = start_download(u, i, v.client)
        OBVIOUS
      <3>2. v.client \in DOMAIN u.good
        BY <2>3, <2>5 DEF BlockStopped, Core, Alive
      <3>3. Core(t, P)
        BY <2>3, <3>1, <3>2, StartKeeps DEF BlockStopped
      <3>4. on_missed(v, c, b, ch) = advance_download(t, ch)
        BY <1>2, <2>1, <2>2, <2>5, <3>1 DEF on_missed
      <3> QED
        BY <3>3, <3>4, AdvanceKeeps
    <2> QED
      BY <2>4, <2>5
  <1> QED
    BY <1>1, <1>2

(***************************************************************************)
(* The answers to requests for a chain                                     *)
(***************************************************************************)
\* What is cut from an answer, when nothing is being downloaded: a known front.
LEMMA CutIsKnown ==
  ASSUME NEW s, s.cells = <<>>, NEW ids \in Seq(Block), ids # <<>> => ids[1] \in s.known
  PROVE  /\ Cut(s, ids) \in 0 .. Len(ids)
         /\ ids # <<>> => Cut(s, ids) >= 1 /\ ids[Cut(s, ids)] \in s.known
  <1>1. PICK have : have = s.known \cup {s.cells[i].bid : i \in DOMAIN s.cells}
    OBVIOUS
  <1>2. have = s.known
    BY <1>1
  <1>3. PICK K : K = {k \in 0 .. Len(ids) : \A i \in 1 .. k : ids[i] \in have}
    OBVIOUS
  <1>4. PICK n : n = Cut(s, ids)
    OBVIOUS
  <1>5. n = Max(K)
    BY <1>1, <1>3, <1>4 DEF Cut
  <1>6. Len(ids) \in Nat /\ K \in SUBSET (0 .. Len(ids)) /\ 0 \in K
    BY <1>3
  <1>7. n \in K /\ \A x \in K : x <= n
    <2>1. K # {}
      BY <1>6
    <2> QED
      BY <1>5, <1>6, <2>1, DlMinMax
  <1>8. ASSUME ids # <<>>
        PROVE  n >= 1 /\ ids[n] \in s.known
    <2>1. 1 \in K
      <3>1. Len(ids) >= 1 /\ ids[1] \in have
        BY <1>2, <1>8
      <3>2. \A i \in 1 .. 1 : ids[i] \in have
        BY <3>1
      <3> QED
        BY <1>3, <1>6, <3>1, <3>2
    <2>2. n >= 1
      BY <1>7, <2>1
    <2>3. n \in 1 .. n
      BY <1>6, <1>7, <2>2
    <2> QED
      BY <1>2, <1>3, <1>7, <2>2, <2>3
  <1> QED
    BY <1>4, <1>6, <1>7, <1>8

\* The rest of the answer becomes the chain.
LEMMA ChainTaken ==
  ASSUME NEW s, NEW P, Core(s, P), NEW c \in Client, s.asked[c] # <<>>,
         s.sent, s.client = c, NEW v, v = Unasked(s, c),
         NEW a, Answers(a, s.known), NEW n, n = Cut(v, a.ids),
         NEW t, t = [v EXCEPT !.sent = FALSE,
                              !.chain = SubSeq(a.ids, n + 1, Len(a.ids)),
                              !.start = a.start + n]
  PROVE  Core(t, P) /\ c \in DOMAIN t.good
  <1>0. /\ s \in DlSet /\ Counted(s) /\ Alive(s) /\ Limited(s) /\ Early(s)
        /\ Remembered(s, P) /\ Ordered(s) /\ Rooted(s) /\ Quiet(s)
        /\ s.asked \in [Client -> Seq(Requests)] /\ c # NoClient
    BY NoClientIsNone DEF Core, DlSet
  <1>1. s.cells = <<>> /\ s.chain = <<>> /\ ~s.importing
    BY <1>0, Zenon DEF Quiet
  <1>2. v.cells = s.cells /\ v.known = s.known /\ v \in DlSet
    <2>1. v = [s EXCEPT !.asked = v.asked] /\ v.asked = [s.asked EXCEPT ![c] = Tail(@)]
      BY <1>0 DEF Unasked, DlSet
    <2>2. PICK ask : ask = s.asked
      OBVIOUS
    <2>3. PICK rest : rest = v.asked
      OBVIOUS
    <2>4. ask \in [Client -> Seq(Requests)] /\ ask[c] # <<>> /\ rest = [ask EXCEPT ![c] = Tail(@)]
      BY <1>0, <2>1, <2>2, <2>3
    <2>5. TakenOff(ask, rest, c)
      BY <2>4, RequestTaken
    <2>6. rest \in [Client -> Seq(Requests)]
      BY <2>5 DEF TakenOff
    <2>7. v.cells = s.cells /\ v.known = s.known
      BY <1>0 DEF Unasked, DlSet
    <2>8. v \in DlSet
      <3>1. v = [s EXCEPT !.asked = v.asked] /\ s \in DlSet
        BY <1>0, <2>1
      <3>2. v.asked \in [Client -> Seq(Requests)]
        BY <2>3, <2>6
      <3> QED
        BY <3>1, <3>2 DEF DlSet
    <2> QED
      BY <2>7, <2>8
  <1>3. PICK ids : ids = a.ids
    OBVIOUS
  <1>4. PICK h : h = a.start
    OBVIOUS
  <1>5. /\ ids \in Seq(Block) /\ h \in Nat /\ Len(ids) \in Nat
        /\ \A i \in 1 .. Len(ids) :
             /\ Height[ids[i]] = h + (i - 1)
             /\ i > 1 => ids[i] # Genesis /\ Parent[ids[i]] = ids[i - 1]
        /\ ids # <<>> => ids[1] \in s.known
    BY <1>3, <1>4 DEF Answers
  <1>6. n \in 0 .. Len(ids) /\ (ids # <<>> => n >= 1 /\ ids[n] \in s.known)
    BY <1>1, <1>2, <1>3, <1>5, CutIsKnown
  <1>7. PICK chain : chain = SubSeq(ids, n + 1, Len(ids))
    OBVIOUS
  <1>8. /\ chain \in Seq(Block) /\ Len(chain) = Len(ids) - n /\ DOMAIN chain = 1 .. Len(ids) - n
        /\ \A k \in 1 .. Len(ids) - n : chain[k] = ids[n + k]
    BY <1>5, <1>6, <1>7
  <1>9. ASSUME NEW k \in 1 .. Len(ids) - n
        PROVE  /\ chain[k] # Genesis /\ Height[chain[k]] = (h + n) + (k - 1)
               /\ Parent[chain[k]] = ids[n + k - 1]
    <2>1. n + k \in 1 .. Len(ids) /\ n + k > 1 /\ ids # <<>> /\ n \in Nat
      <3>1. n + k \in 1 .. Len(ids) /\ n \in Nat
        BY <1>5, <1>6
      <3>2. ids # <<>>
        BY <1>5, <3>1
      <3> QED
        BY <1>6, <3>1, <3>2
    <2>2. chain[k] = ids[n + k]
      BY <1>8
    <2>3. Height[ids[n + k]] = h + ((n + k) - 1)
      BY <1>5, <2>1
    <2>4. ids[n + k] # Genesis /\ Parent[ids[n + k]] = ids[n + k - 1]
      BY <1>5, <2>1
    <2>5. h + ((n + k) - 1) = (h + n) + (k - 1)
      BY <1>5, <2>1
    <2> QED
      BY <2>2, <2>3, <2>4, <2>5
  <1>10. /\ t.cells = s.cells /\ t.client = s.client /\ t.total = s.total /\ t.ok = s.ok
         /\ t.good = s.good /\ t.known = s.known /\ t.tip = s.tip
         /\ t.importing = s.importing /\ t.work = s.work
         /\ t.sent = FALSE /\ t.chain = chain /\ t.start = h + n
         /\ t.asked = [s.asked EXCEPT ![c] = Tail(@)]
    BY <1>0, <1>3, <1>4, <1>7 DEF Unasked, DlSet
  <1>11. chain \in Seq(Block \ {Genesis})
    <2>1. PICK m \in Nat : m = Len(ids) - n
      BY <1>5, <1>6
    <2>2. \A k \in 1 .. m : chain[k] \in Block \ {Genesis}
      BY <1>8, <1>9, <2>1
    <2>3. chain = [k \in 1 .. m |-> chain[k]]
      BY <1>8, <2>1
    <2>4. chain \in [1 .. m -> Block \ {Genesis}]
      BY <2>2, <2>3
    <2> QED
      BY <2>1, <2>4
  <1>12. t \in DlSet
    <2>1. t = [v EXCEPT !.sent = FALSE, !.chain = chain, !.start = h + n]
      BY <1>3, <1>4, <1>7
    <2>2. h + n \in Nat
      BY <1>5, <1>6
    <2>3. chain \in Seq(Block \ {Genesis}) /\ v \in DlSet
      BY <1>2, <1>11
    <2> QED
      BY <2>1, <2>2, <2>3 DEF DlSet
  <1>13. /\ AskedIn(t) = {} /\ AskedIn(s) = {}
         /\ \A d : AskedOf(t, d) = AskedOf(s, d)
    BY <1>1, <1>10 DEF AskedIn, AskedOf
  <1>14. Counted(t)
    <2>1. t.ok
      BY <1>0, <1>10, Zenon DEF Counted
    <2>2. t.total = Cardinality(AskedIn(t))
      <3>1. s.total = Cardinality(AskedIn(s))
        BY <1>0, Zenon DEF Counted
      <3>2. AskedIn(t) = AskedIn(s) /\ t.total = s.total
        BY <1>10, <1>13
      <3> QED
        BY <3>1, <3>2
    <2>3. \A d \in DOMAIN t.good : t.good[d] = Cardinality(AskedOf(t, d))
      BY <1>0, <1>10, <1>13 DEF Counted
    <2> QED
      BY <2>1, <2>2, <2>3 DEF Counted
  <1>15. Alive(t)
    BY <1>0, <1>1, <1>10 DEF Alive
  <1>16. Limited(t) /\ Early(t)
    BY <1>0, <1>10, <1>13 DEF Limited, Early
  <1>17. Remembered(t, P)
    BY <1>1, <1>10, <1>13 DEF Remembered
  <1>18. Ordered(t)
    <2>1. ASSUME NEW i \in 1 .. Len(ids) - n
          PROVE  /\ Height[chain[i]] = (h + n) + (i - 1)
                 /\ i > 1 => Parent[chain[i]] = chain[i - 1]
      <3>1. i > 1 => chain[i - 1] = ids[n + i - 1]
        <4> SUFFICES ASSUME i > 1 PROVE chain[i - 1] = ids[n + i - 1]
          OBVIOUS
        <4>1. i - 1 \in 1 .. Len(ids) - n /\ n + (i - 1) = n + i - 1
          BY <1>5, <1>6
        <4> QED
          BY <1>8, <4>1
      <3> QED
        BY <1>9, <3>1
    <2>2. t.chain # <<>> => Parent[t.chain[1]] \in t.known
      <3> SUFFICES ASSUME chain # <<>> PROVE Parent[chain[1]] \in s.known
        BY <1>10
      <3>1. 1 \in 1 .. Len(ids) - n
        BY <1>5, <1>6, <1>8
      <3>2. ids # <<>> /\ n + 1 - 1 = n
        BY <1>5, <1>6, <3>1
      <3> QED
        BY <1>6, <1>9, <3>1, <3>2
    <2>3. t.chain = chain /\ t.start = h + n /\ DOMAIN chain = 1 .. Len(ids) - n
      BY <1>8, <1>10
    <2>4. \A i \in DOMAIN t.chain : Height[t.chain[i]] = t.start + (i - 1)
      BY <2>1, <2>3, Zenon
    <2>5. \A i \in DOMAIN t.chain : i > 1 => Parent[t.chain[i]] = t.chain[i - 1]
      BY <2>1, <2>3, Zenon
    <2>6. t.cells = <<>> /\ DOMAIN t.cells = {}
      BY <1>1, <1>10
    <2> QED
      BY <2>2, <2>4, <2>5, <2>6, Zenon DEF Ordered
  <1>19. Rooted(t)
    <2>1. PICK ask : ask = s.asked
      OBVIOUS
    <2>2. PICK rest : rest = t.asked
      OBVIOUS
    <2>3. ask \in [Client -> Seq(Requests)] /\ ask[c] # <<>> /\ rest = [ask EXCEPT ![c] = Tail(@)]
      BY <1>0, <1>10, <2>1, <2>2
    <2>4. TakenOff(ask, rest, c)
      BY <2>3, RequestTaken
    <2>5. Asking(s.asked, s.known) /\ ClosedDl(s.known) /\ s.tip \in s.known
      BY <1>0 DEF Rooted, Asking
    <2>6. Asking(t.asked, t.known)
      BY <1>10, <2>1, <2>2, <2>4, <2>5 DEF TakenOff
    <2> QED
      BY <1>10, <2>5, <2>6 DEF Rooted, Asking
  <1>20. Quiet(t)
    <2>1. ~t.importing /\ ~t.sent
      BY <1>1, <1>10, Zenon
    <2> QED
      BY <2>1, Zenon DEF Quiet
  <1>21. Core(t, P)
    BY <1>12, <1>14, <1>15, <1>16, <1>17, <1>18, <1>19, <1>20 DEF Core
  <1>22. c \in DOMAIN t.good
    BY <1>0, <1>10 DEF Alive
  <1> QED
    BY <1>21, <1>22

\* The same cells and counters serve the front as well.
LEMMA SameFront ==
  ASSUME NEW s, NEW t, FrontServed(s), t.cells = s.cells, t.total = s.total
  PROVE  FrontServed(t)
  BY DEF FrontServed, AskedIn

\* on_msg_notify_request_chain keeps the invariant.
LEMMA ChainKeeps ==
  ASSUME NEW s, NEW P, Sound(s, P), NEW c \in Client, s.asked[c] # <<>>,
         Head(s.asked[c]).kind = "chain", NEW v, v = Unasked(s, c),
         NEW kept, NEW tip \in Block, NEW ch
  PROVE  Sound(on_msg_notify_request_chain(v, c,
                 get_sync_headers_chain(kept, tip, Head(s.asked[c]).locator), ch), P)
  <1>0. /\ Core(s, P) /\ s \in DlSet /\ Rooted(s) /\ s.asked \in [Client -> Seq(Requests)]
        /\ FrontServed(s)
    BY DEF Sound, Core, DlSet
  <1>1. /\ v.client = s.client /\ v.sent = s.sent /\ v.cells = s.cells /\ v.total = s.total
    BY <1>0 DEF Unasked, DlSet
  <1>2. PICK a : a = get_sync_headers_chain(kept, tip, Head(s.asked[c]).locator)
    OBVIOUS
  <1>3. CASE v.client # c \/ ~v.sent
    <2>1. on_msg_notify_request_chain(v, c, a, ch) = v
      BY <1>3 DEF on_msg_notify_request_chain
    <2>2. \A b : BlockRequest(b).kind = "block"
      BY DEF BlockRequest
    <2>3. \A j \in AskedIn(s) :
            s.cells[j].client = c => Head(s.asked[c]) # BlockRequest(s.cells[j].bid)
      BY <2>2
    <2>4. ~(s.sent /\ s.client = c)
      BY <1>1, <1>3, Zenon
    <2>5. Core(v, P)
      BY <1>0, <2>3, <2>4, UnaskedKeeps
    <2>6. FrontServed(v)
      BY <1>0, <1>1, SameFront
    <2> QED
      BY <1>2, <2>1, <2>5, <2>6 DEF Sound
  <1>4. CASE ~(v.client # c \/ ~v.sent)
    <2>1. s.sent /\ s.client = c
      BY <1>1, <1>4, Zenon
    <2>2. Head(s.asked[c]).locator \in Seq(s.known)
      <3>1. PICK q : q = s.asked[c]
        OBVIOUS
      <3>2. q \in Seq(Requests) /\ q # <<>>
        BY <1>0, <3>1
      <3>3. 1 \in DOMAIN q /\ Head(q) = q[1]
        BY <3>2
      <3> QED
        BY <1>0, <3>1, <3>3 DEF Rooted
    <2>3. Answers(a, s.known)
      BY <1>0, <1>2, <2>2, AnswerIsKnown DEF Rooted
    <2>4. PICK n : n = Cut(v, a.ids)
      OBVIOUS
    <2>5. PICK t : t = [v EXCEPT !.sent = FALSE,
                                 !.chain = SubSeq(a.ids, n + 1, Len(a.ids)),
                                 !.start = a.start + n]
      OBVIOUS
    <2>6. Core(t, P) /\ c \in DOMAIN t.good
      BY <1>0, <2>1, <2>3, <2>4, <2>5, ChainTaken, ZenonT(40)
    <2>7. PICK x : x = IF a.ids = <<>> THEN on_disconnect(t, c, ch) ELSE t
      OBVIOUS
    <2>8. Core(x, P)
      BY <2>6, <2>7, OnDisconnectKeeps DEF Sound
    <2>9. on_msg_notify_request_chain(v, c, a, ch) = advance_download(x, ch)
      BY <1>4, <2>4, <2>5, <2>7, Zenon DEF on_msg_notify_request_chain
    <2> QED
      BY <1>2, <2>8, <2>9, AdvanceKeeps
  <1> QED
    BY <1>3, <1>4

(***************************************************************************)
(* Preparation and on_idle                                                 *)
(***************************************************************************)
\* More blocks that threads have.
LEMMA MoreHeld ==
  ASSUME NEW s, NEW P, Core(s, P), NEW Q, P \subseteq Q
  PROVE  Core(s, Q)
  <1>1. Remembered(s, P)
    BY DEF Core
  <1>2. Remembered(s, Q)
    <2>1. \A i \in DOMAIN s.cells :
            s.cells[i].status = PREPARING => s.cells[i].bid \in Range(s.work) \cup Q
      BY <1>1 DEF Remembered
    <2> QED
      BY <1>1, <2>1, Zenon DEF Remembered
  <1> QED
    BY <1>2 DEF Core

\* A thread takes a block.
LEMMA TakeKeeps ==
  ASSUME NEW s, NEW P, Core(s, P), s.work # <<>>, NEW Q, P \cup {Head(s.work)} \subseteq Q,
         NEW t, t = [s EXCEPT !.work = Tail(@)]
  PROVE  Core(t, Q) /\ t.cells = s.cells /\ t.total = s.total
  <1>1. s \in DlSet /\ s.work \in Seq(Block)
    BY DEF Core, DlSet
  <1>2. /\ t.cells = s.cells /\ t.chain = s.chain /\ t.start = s.start /\ t.client = s.client
        /\ t.total = s.total /\ t.sent = s.sent /\ t.ok = s.ok
        /\ t.good = s.good /\ t.known = s.known /\ t.tip = s.tip
        /\ t.importing = s.importing /\ t.asked = s.asked /\ t.work = Tail(s.work)
    BY <1>1 DEF DlSet
  <1>3. PICK w : w = s.work
    OBVIOUS
  <1>4. w \in Seq(Block) /\ w # <<>> /\ Len(w) \in Nat /\ Len(w) >= 1 /\ DOMAIN w = 1 .. Len(w)
    BY <1>1, <1>3
  <1>5. /\ Tail(w) \in Seq(Block) /\ DOMAIN Tail(w) = 1 .. Len(w) - 1
        /\ \A k \in 1 .. Len(w) - 1 : Tail(w)[k] = w[k + 1]
        /\ Head(w) = w[1]
    BY <1>4
  <1>6. Range(s.work) \cup P \subseteq Range(t.work) \cup Q
    <2> SUFFICES ASSUME NEW k \in 1 .. Len(w) PROVE w[k] \in Range(Tail(w)) \cup Q
      BY <1>2, <1>3, <1>4 DEF Range
    <2>1. CASE k = 1
      BY <1>3, <1>5, <2>1
    <2>2. CASE k # 1
      <3>1. k - 1 \in 1 .. Len(w) - 1 /\ (k - 1) + 1 = k
        BY <1>4, <2>2
      <3>2. Tail(w)[k - 1] = w[k] /\ k - 1 \in DOMAIN Tail(w)
        BY <1>5, <3>1
      <3> QED
        BY <3>2 DEF Range
    <2> QED
      BY <2>1, <2>2
  <1>7. t \in DlSet
    <2>1. t.work \in Seq(Block) /\ t = [s EXCEPT !.work = t.work]
      BY <1>1, <1>2, <1>3, <1>5
    <2> QED
      BY <1>1, <2>1 DEF DlSet
  <1>8. SameCells(s, t)
    BY <1>2, Zenon DEF SameCells
  <1>9. Grown(s, t)
    BY <1>2, UngrownIsGrown
  <1>10. StillAwaited(s, t, Q)
    BY <1>2, <1>6, <1>8, AwaitedStill
  <1> QED
    BY <1>2, <1>7, <1>8, <1>9, <1>10, FrameKeeps

\* The prepared blocks R go to their cells.
MatchedIn(s, R) ==
  [s EXCEPT !.cells = [i \in DOMAIN @ |->
     IF @[i].status = PREPARING /\ @[i].bid \in R
     THEN [@[i] EXCEPT !.status = PREPARED] ELSE @[i]]]

LEMMA MatchedKeeps ==
  ASSUME NEW s, NEW P, Core(s, P), NEW R, NEW Q, P \subseteq Q \cup R,
         NEW t, t = MatchedIn(s, R)
  PROVE  Core(t, Q) /\ (FrontServed(s) => FrontServed(t))
  <1>1. s \in DlSet /\ s.cells \in Seq(CellSet) /\ Remembered(s, P) /\ Alive(s)
        /\ PREPARED # DOWNLOADING /\ PREPARED # PREPARING /\ PREPARING # DOWNLOADING
    BY DEF Core, DlSet, PREPARED, DOWNLOADING, PREPARING
  <1>2. /\ t.chain = s.chain /\ t.start = s.start /\ t.client = s.client
        /\ t.total = s.total /\ t.sent = s.sent /\ t.ok = s.ok
        /\ t.good = s.good /\ t.known = s.known /\ t.tip = s.tip
        /\ t.importing = s.importing /\ t.asked = s.asked /\ t.work = s.work
        /\ t.cells = [i \in DOMAIN s.cells |->
             IF s.cells[i].status = PREPARING /\ s.cells[i].bid \in R
             THEN [s.cells[i] EXCEPT !.status = PREPARED] ELSE s.cells[i]]
    BY <1>1 DEF MatchedIn, DlSet
  <1>3. ASSUME NEW i \in DOMAIN s.cells
        PROVE  /\ t.cells[i] \in CellSet
               /\ t.cells[i].bid = s.cells[i].bid /\ t.cells[i].height = s.cells[i].height
               /\ t.cells[i].client = s.cells[i].client
               /\ t.cells[i].status = IF s.cells[i].status = PREPARING /\ s.cells[i].bid \in R
                                      THEN PREPARED ELSE s.cells[i].status
    <2>1. PICK x : x = s.cells[i]
      OBVIOUS
    <2>2. PICK y : y = t.cells[i]
      OBVIOUS
    <2>3. x \in CellSet
          /\ y = IF x.status = PREPARING /\ x.bid \in R THEN [x EXCEPT !.status = PREPARED] ELSE x
      BY <1>1, <1>2, <2>1, <2>2
    <2>4. /\ y \in CellSet /\ y.bid = x.bid /\ y.height = x.height /\ y.client = x.client
          /\ y.status = IF x.status = PREPARING /\ x.bid \in R THEN PREPARED ELSE x.status
      <3>1. CASE x.status = PREPARING /\ x.bid \in R
        BY <2>3, <3>1 DEF CellSet, PREPARED, DOWNLOADING, PREPARING
      <3>2. CASE ~(x.status = PREPARING /\ x.bid \in R)
        BY <2>3, <3>2 DEF CellSet
      <3> QED
        BY <3>1, <3>2
    <2> QED
      BY <2>1, <2>2, <2>4
  <1>4. DOMAIN t.cells = DOMAIN s.cells /\ t.cells \in Seq(CellSet) /\ Len(t.cells) = Len(s.cells)
    <2>1. PICK N \in Nat : N = Len(s.cells)
      BY <1>1
    <2>2. DOMAIN s.cells = 1 .. N
      BY <1>1, <2>1
    <2>3. t.cells \in [1 .. N -> CellSet]
      BY <1>2, <1>3, <2>2
    <2> QED
      BY <2>1, <2>2, <2>3
  <1>5. t \in DlSet
    <2>1. t = [s EXCEPT !.cells = t.cells]
      BY <1>1 DEF MatchedIn, DlSet
    <2> QED
      BY <1>1, <1>4, <2>1 DEF DlSet
  <1>6. \A i \in DOMAIN s.cells :
          /\ t.cells[i].status = DOWNLOADING => s.cells[i].status = DOWNLOADING
          /\ s.cells[i].client # NoClient => t.cells[i].status = s.cells[i].status
    BY <1>1, <1>3 DEF Alive
  <1>7. SameCells(s, t)
    BY <1>2, <1>3, <1>4, <1>6, Zenon DEF SameCells
  <1>8. Grown(s, t)
    BY <1>2, UngrownIsGrown
  <1>9. StillAwaited(s, t, Q)
    <2>1. \A j \in DOMAIN t.cells :
            t.cells[j].status = PREPARING => t.cells[j].bid \in Range(t.work) \cup Q
      BY <1>1, <1>2, <1>3, <1>4 DEF Remembered
    <2>2. \A j \in AskedIn(s) : BlockAwaited(t.asked, s.cells[j].client, s.cells[j].bid)
      BY <1>1, <1>2 DEF Remembered
    <2>3. s.sent => ChainAwaited(t.asked, s.client)
      BY <1>1, <1>2, Zenon DEF Remembered
    <2> QED
      BY <2>1, <2>2, <2>3, Zenon DEF StillAwaited
  <1>10. ASSUME FrontServed(s)
         PROVE  FrontServed(t)
    <2>1. AskedIn(t) = AskedIn(s)
      BY <1>1, <1>7, SameCellsSets
    <2>2. \A i \in DOMAIN t.cells : i \in DOMAIN s.cells /\ (Waiting(t.cells[i]) => Waiting(s.cells[i]))
      BY <1>3, <1>4, <1>6 DEF Waiting
    <2>3. t.total = s.total
      BY <1>2
    <2> QED
      BY <1>10, <2>1, <2>2, <2>3 DEF FrontServed
  <1> QED
    BY <1>5, <1>7, <1>8, <1>9, <1>10, FrameKeeps

MovedBy(S, n) == {x - n : x \in S}

LEMMA AsMany ==
  ASSUME NEW n \in Nat, NEW S \in SUBSET Nat, IsFiniteSet(S)
  PROVE  Cardinality(MovedBy(S, n)) = Cardinality(S)
  <1>1. PICK T : T = MovedBy(S, n)
    OBVIOUS
  <1>2. T = {x - n : x \in S}
    BY <1>1 DEF MovedBy
  <1>3. Cardinality(T) = Cardinality(S)
    BY <1>2, Moved, Zenon
  <1> QED
    BY <1>1, <1>3

\* The first n cells, prepared and stored, leave the window.
LEMMA FrontCutKeeps ==
  ASSUME NEW s, NEW P, Core(s, P), NEW n \in 1 .. Len(s.cells),
         \A i \in 1 .. n : s.cells[i].status = PREPARED /\ s.cells[i].bid \in s.known,
         NEW t, t = [s EXCEPT !.cells = SubSeq(@, n + 1, Len(@))]
  PROVE  Core(t, P)
  <1>0. /\ s \in DlSet /\ Counted(s) /\ Alive(s) /\ Limited(s) /\ Early(s)
        /\ Remembered(s, P) /\ Ordered(s) /\ Rooted(s) /\ Quiet(s)
    BY DEF Core
  <1>1. PICK N : N = Len(s.cells)
    OBVIOUS
  <1>2. /\ N \in Nat /\ n \in 1 .. N /\ n \in Nat /\ DOMAIN s.cells = 1 .. N
        /\ s.cells \in Seq(CellSet) /\ PREPARED # DOWNLOADING
    BY <1>0, <1>1 DEF DlSet, PREPARED, DOWNLOADING
  <1>21. N \in Nat /\ n \in Nat /\ n >= 1 /\ n <= N
    BY <1>2
  <1>3. /\ t.cells = SubSeq(s.cells, n + 1, N)
        /\ t.chain = s.chain /\ t.start = s.start /\ t.client = s.client /\ t.total = s.total
        /\ t.good = s.good /\ t.known = s.known /\ t.tip = s.tip /\ t.asked = s.asked
        /\ t.work = s.work
        /\ t.sent = s.sent /\ t.ok = s.ok /\ t.importing = s.importing
    BY <1>0, <1>1 DEF DlSet
  <1>4. /\ t.cells \in Seq(CellSet) /\ Len(t.cells) = N - n /\ DOMAIN t.cells = 1 .. N - n
        /\ \A j \in 1 .. N - n : t.cells[j] = s.cells[n + j]
    <2>1. PICK z : z = s.cells
      OBVIOUS
    <2>2. PICK w : w = SubSeq(z, n + 1, N)
      OBVIOUS
    <2>3. z \in Seq(CellSet) /\ Len(z) = N
      BY <1>1, <1>2, <2>1
    <2>4. /\ w \in Seq(CellSet) /\ Len(w) = N - n /\ DOMAIN w = 1 .. N - n
          /\ \A j \in 1 .. N - n : w[j] = z[n + j]
      BY <1>2, <2>2, <2>3
    <2> QED
      BY <1>3, <2>1, <2>2, <2>4
  <1>5. \A j \in 1 .. N - n : n + j \in 1 .. N
    BY <1>2
  <1>6. \A i \in 1 .. N : i \in 1 .. n \/ (i - n \in 1 .. N - n /\ n + (i - n) = i)
    BY <1>2
  <1>7. ASSUME NEW i \in DOMAIN s.cells, s.cells[i].status = DOWNLOADING
        PROVE  i - n \in 1 .. N - n /\ t.cells[i - n] = s.cells[i]
    <2>1. i \notin 1 .. n
      BY <1>2, <1>7
    <2>2. i - n \in 1 .. N - n /\ n + (i - n) = i
      BY <1>2, <1>6, <2>1
    <2> QED
      BY <1>4, <2>2
  <1>8. AskedIn(t) = {i - n : i \in AskedIn(s)}
    <2>1. ASSUME NEW i \in AskedIn(s)
          PROVE  i - n \in AskedIn(t)
      <3>1. i \in DOMAIN s.cells /\ Asked(s.cells[i]) /\ s.cells[i].status = DOWNLOADING
        BY DEF AskedIn, Asked
      <3> QED
        BY <1>4, <1>7, <3>1 DEF AskedIn
    <2>2. ASSUME NEW j \in AskedIn(t)
          PROVE  n + j \in AskedIn(s) /\ j = (n + j) - n
      <3>1. j \in 1 .. N - n /\ Asked(t.cells[j])
        BY <1>4 DEF AskedIn
      <3>2. n + j \in DOMAIN s.cells /\ t.cells[j] = s.cells[n + j] /\ j = (n + j) - n
        BY <1>2, <1>4, <1>5, <3>1
      <3> QED
        BY <3>1, <3>2 DEF AskedIn
    <2> QED
      BY <2>1, <2>2
  <1>9. ASSUME NEW d
        PROVE  AskedOf(t, d) = {i - n : i \in AskedOf(s, d)}
    <2>1. ASSUME NEW i \in AskedOf(s, d)
          PROVE  i - n \in AskedOf(t, d)
      <3>1. i \in AskedIn(s) /\ i \in DOMAIN s.cells /\ s.cells[i].status = DOWNLOADING
            /\ s.cells[i].client = d
        BY DEF AskedOf, AskedIn, Asked
      <3>2. i - n \in AskedIn(t)
        BY <1>8, <3>1
      <3> QED
        BY <1>7, <3>1, <3>2 DEF AskedOf
    <2>2. ASSUME NEW j \in AskedOf(t, d)
          PROVE  \E i \in AskedOf(s, d) : j = i - n
      <3>1. j \in AskedIn(t) /\ t.cells[j].client = d
        BY DEF AskedOf
      <3>2. PICK i \in AskedIn(s) : j = i - n
        BY <1>8, <3>1
      <3>3. i \in DOMAIN s.cells /\ s.cells[i].status = DOWNLOADING
        BY <3>2 DEF AskedIn, Asked
      <3>4. t.cells[j] = s.cells[i]
        BY <1>7, <3>2, <3>3
      <3>5. i \in AskedOf(s, d)
        BY <3>1, <3>2, <3>4 DEF AskedOf
      <3> QED
        BY <3>2, <3>5
    <2> QED
      BY <2>1, <2>2
  <1>10. ASSUME NEW j \in 1 .. N - n
         PROVE  Pending(t, j) = {i - n : i \in Pending(s, n + j)}
    <2>1. n + j \in 1 .. N /\ j \in Nat
      BY <1>2, <1>5
    <2>2. ASSUME NEW i \in Pending(s, n + j)
          PROVE  i - n \in Pending(t, j)
      <3>1. i \in 1 .. n + j /\ s.cells[i].status = DOWNLOADING
        BY DEF Pending
      <3>2. i \in DOMAIN s.cells
        BY <1>2, <2>1, <3>1
      <3>3. i - n \in 1 .. N - n /\ t.cells[i - n] = s.cells[i]
        BY <1>7, <3>1, <3>2
      <3>4. i - n \in 1 .. j
        BY <1>2, <2>1, <3>1, <3>3
      <3> QED
        BY <3>1, <3>3, <3>4 DEF Pending
    <2>3. ASSUME NEW k \in Pending(t, j)
          PROVE  n + k \in Pending(s, n + j) /\ k = (n + k) - n
      <3>1. k \in 1 .. j /\ t.cells[k].status = DOWNLOADING
        BY DEF Pending
      <3>2. k \in 1 .. N - n /\ n + k \in 1 .. n + j /\ k = (n + k) - n
        <4>1. k \in 1 .. j
          BY <3>1
        <4> QED
          BY <1>21, <4>1
      <3>3. t.cells[k] = s.cells[n + k]
        BY <1>4, <3>2
      <3> QED
        BY <3>1, <3>2, <3>3 DEF Pending
    <2> QED
      BY <2>2, <2>3
  <1>11. /\ IsFiniteSet(AskedIn(s)) /\ AskedIn(s) \in SUBSET Nat
         /\ \A d : IsFiniteSet(AskedOf(s, d)) /\ AskedOf(s, d) \in SUBSET Nat
         /\ \A j \in 1 .. N : IsFiniteSet(Pending(s, j)) /\ Pending(s, j) \in SUBSET Nat
    <2>1. /\ IsFiniteSet(AskedIn(s))
          /\ \A d : IsFiniteSet(AskedOf(s, d))
          /\ \A j \in 1 .. N : IsFiniteSet(Pending(s, j))
      BY <1>0, <1>2, CellSets
    <2>2. AskedIn(s) \in SUBSET Nat
      BY <1>2 DEF AskedIn
    <2>3. \A d : AskedOf(s, d) \in SUBSET Nat
      BY <2>2 DEF AskedOf
    <2>4. \A j \in 1 .. N : Pending(s, j) \in SUBSET Nat
      BY <1>2 DEF Pending
    <2> QED
      BY <2>1, <2>2, <2>3, <2>4
  <1>12. t \in DlSet
    <2>1. t = [s EXCEPT !.cells = t.cells]
      BY <1>0 DEF DlSet
    <2> QED
      BY <1>0, <1>4, <2>1 DEF DlSet
  <1>13. Counted(t)
    <2>1. t.ok
      BY <1>0, <1>3, Zenon DEF Counted
    <2>2. s.total = Cardinality(AskedIn(s)) /\ \A d \in DOMAIN s.good : s.good[d] = Cardinality(AskedOf(s, d))
      BY <1>0, Zenon DEF Counted
    <2>3. t.total = Cardinality(AskedIn(t))
      <3>1. Cardinality(AskedIn(t)) = Cardinality(AskedIn(s))
        <4>1. PICK A : A = AskedIn(s)
          OBVIOUS
        <4>2. PICK T : T = AskedIn(t)
          OBVIOUS
        <4>3. A \in SUBSET Nat /\ IsFiniteSet(A) /\ T = MovedBy(A, n)
          BY <1>8, <1>11, <4>1, <4>2 DEF MovedBy
        <4> QED
          BY <1>21, <4>1, <4>2, <4>3, AsMany
      <3> QED
        BY <1>3, <2>2, <3>1
    <2>4. ASSUME NEW d \in DOMAIN t.good
          PROVE  t.good[d] = Cardinality(AskedOf(t, d))
      <3>1. Cardinality(AskedOf(t, d)) = Cardinality(AskedOf(s, d))
        <4>1. PICK A : A = AskedOf(s, d)
          OBVIOUS
        <4>2. PICK T : T = AskedOf(t, d)
          OBVIOUS
        <4>3. A \in SUBSET Nat /\ IsFiniteSet(A) /\ T = MovedBy(A, n)
          BY <1>9, <1>11, <4>1, <4>2 DEF MovedBy
        <4> QED
          BY <1>21, <4>1, <4>2, <4>3, AsMany
      <3> QED
        BY <1>3, <2>2, <3>1
    <2> QED
      BY <2>1, <2>3, <2>4 DEF Counted
  <1>14. Alive(t)
    <2>1. IsFiniteSet(DOMAIN t.good) /\ t.client \in DOMAIN t.good \cup {NoClient}
      BY <1>0, <1>3 DEF Alive
    <2>2. \A i \in DOMAIN t.cells : t.cells[i].client # NoClient =>
            t.cells[i].client \in DOMAIN t.good /\ t.cells[i].status = DOWNLOADING
      BY <1>0, <1>2, <1>3, <1>4, <1>5 DEF Alive
    <2>3. t.sent => t.client # NoClient
      BY <1>0, <1>3, Zenon DEF Alive
    <2> QED
      BY <2>1, <2>2, <2>3, Zenon DEF Alive
  <1>15. Limited(t)
    <2>1. Window \in Nat
      BY DownloadAssumption
    <2> QED
      BY <1>0, <1>1, <1>2, <1>3, <1>4, <2>1 DEF Limited
  <1>16. Early(t)
    <2> SUFFICES ASSUME NEW j \in AskedIn(t) PROVE Cardinality(Pending(t, j)) <= MaxDownload
      BY DEF Early
    <2>1. j \in 1 .. N - n
      BY <1>4 DEF AskedIn
    <2>2. n + j \in AskedIn(s)
      <3>1. PICK i \in AskedIn(s) : j = i - n
        BY <1>8
      <3>2. n + j = i
        BY <1>2, <1>11, <3>1
      <3> QED
        BY <3>2
    <2>3. n + j \in 1 .. N /\ Pending(t, j) = {i - n : i \in Pending(s, n + j)}
      BY <1>5, <1>10, <2>1
    <2>4. Cardinality(Pending(t, j)) = Cardinality(Pending(s, n + j))
      <3>1. PICK A : A = Pending(s, n + j)
        OBVIOUS
      <3>2. PICK T : T = Pending(t, j)
        OBVIOUS
      <3>3. A \in SUBSET Nat /\ IsFiniteSet(A) /\ T = MovedBy(A, n)
        BY <1>11, <2>3, <3>1, <3>2 DEF MovedBy
      <3> QED
        BY <1>21, <3>1, <3>2, <3>3, AsMany
    <2> QED
      BY <1>0, <2>2, <2>4 DEF Early
  <1>17. Remembered(t, P)
    <2>1. ASSUME NEW j \in AskedIn(t)
          PROVE  BlockAwaited(t.asked, t.cells[j].client, t.cells[j].bid)
      <3>1. PICK i \in AskedIn(s) : j = i - n
        BY <1>8
      <3>2. i \in DOMAIN s.cells /\ s.cells[i].status = DOWNLOADING
        BY DEF AskedIn, Asked
      <3>3. t.cells[j] = s.cells[i]
        BY <1>7, <3>1, <3>2
      <3> QED
        BY <1>0, <1>3, <3>3 DEF Remembered
    <2>2. t.sent => ChainAwaited(t.asked, t.client)
      BY <1>0, <1>3, Zenon DEF Remembered
    <2>3. \A j \in DOMAIN t.cells :
            t.cells[j].status = PREPARING => t.cells[j].bid \in Range(t.work) \cup P
      BY <1>0, <1>2, <1>3, <1>4, <1>5 DEF Remembered
    <2> QED
      BY <2>1, <2>2, <2>3, Zenon DEF Remembered
  <1>18. Ordered(t)
    <2>1. \A i \in 1 .. N :
            /\ s.cells[i].height = Height[s.cells[i].bid]
            /\ s.cells[i].height = s.cells[1].height + (i - 1)
            /\ i > 1 => Parent[s.cells[i].bid] = s.cells[i - 1].bid
      BY <1>0, <1>2 DEF Ordered
    <2>2. PICK h \in Nat : h = s.cells[1].height
      <3>1. s.cells[1] \in CellSet
        BY <1>2, <1>21
      <3> QED
        BY <3>1 DEF CellSet
    <2>3. ASSUME NEW j \in 1 .. N - n
          PROVE  /\ t.cells[j].height = Height[t.cells[j].bid]
                 /\ t.cells[j].height = t.cells[1].height + (j - 1)
                 /\ j > 1 => Parent[t.cells[j].bid] = t.cells[j - 1].bid
      <3>1. n + j \in 1 .. N /\ n + 1 \in 1 .. N /\ 1 \in 1 .. N - n /\ j \in Nat
        BY <1>2
      <3>2. t.cells[j] = s.cells[n + j] /\ t.cells[1] = s.cells[n + 1]
        BY <1>4, <3>1
      <3>3. t.cells[j].height = Height[t.cells[j].bid]
        BY <2>1, <3>1, <3>2
      <3>4. t.cells[j].height = h + ((n + j) - 1) /\ t.cells[1].height = h + ((n + 1) - 1)
        BY <2>1, <2>2, <3>1, <3>2
      <3>5. t.cells[j].height = t.cells[1].height + (j - 1)
        <4>1. h + ((n + j) - 1) = (h + ((n + 1) - 1)) + (j - 1)
          <5>1. n \in Nat /\ j \in Nat /\ h \in Nat
            BY <1>21, <2>2, <3>1
          <5> QED
            BY <5>1
        <4> QED
          BY <3>4, <4>1
      <3>6. j > 1 => Parent[t.cells[j].bid] = t.cells[j - 1].bid
        <4> SUFFICES ASSUME j > 1 PROVE Parent[t.cells[j].bid] = t.cells[j - 1].bid
          OBVIOUS
        <4>1. j - 1 \in 1 .. N - n /\ n + (j - 1) = (n + j) - 1 /\ n + j > 1
          BY <1>2, <3>1
        <4>2. t.cells[j - 1] = s.cells[(n + j) - 1]
          BY <1>4, <4>1
        <4> QED
          BY <2>1, <3>1, <3>2, <4>1, <4>2
      <3> QED
        BY <3>3, <3>5, <3>6
    <2>4. \A j \in DOMAIN t.chain :
            /\ Height[t.chain[j]] = t.start + (j - 1)
            /\ j > 1 => Parent[t.chain[j]] = t.chain[j - 1]
      BY <1>0, <1>3 DEF Ordered
    <2>5. t.cells # <<>> => Parent[t.cells[1].bid] \in t.known
      <3> SUFFICES ASSUME t.cells # <<>> PROVE Parent[t.cells[1].bid] \in t.known
        OBVIOUS
      <3>1. 1 \in 1 .. N - n /\ n + 1 \in 1 .. N /\ (n + 1) - 1 = n /\ n + 1 > 1
        BY <1>2, <1>4
      <3>2. t.cells[1] = s.cells[n + 1]
        BY <1>4, <3>1
      <3>3. Parent[s.cells[n + 1].bid] = s.cells[n].bid
        BY <2>1, <3>1
      <3>4. n \in 1 .. n
        BY <1>2
      <3> QED
        BY <1>3, <3>2, <3>3, <3>4
    <2>6. t.chain # <<>> => IF t.cells = <<>> THEN Parent[t.chain[1]] \in t.known
                            ELSE Parent[t.chain[1]] = t.cells[Len(t.cells)].bid
      <3> SUFFICES ASSUME t.chain # <<>>
                   PROVE  IF t.cells = <<>> THEN Parent[t.chain[1]] \in t.known
                          ELSE Parent[t.chain[1]] = t.cells[Len(t.cells)].bid
        OBVIOUS
      <3>1. Parent[t.chain[1]] = s.cells[N].bid
        <4>1. s.cells # <<>>
          BY <1>1, <1>2
        <4> QED
          BY <1>0, <1>1, <1>3, <4>1 DEF Ordered
      <3>2. CASE t.cells = <<>>
        <4>0. N - n = 0 /\ N \in Nat /\ n \in Nat /\ n >= 1
          <5>1. Len(t.cells) = 0
            BY <3>2
          <5> QED
            BY <1>2, <1>4, <5>1
        <4>1. n = N /\ N \in 1 .. n
          BY <4>0
        <4> QED
          BY <1>3, <3>1, <3>2, <4>1
      <3>3. CASE t.cells # <<>>
        <4>1. N - n \in 1 .. N - n /\ n + (N - n) = N
          <5>1. N - n # 0
            BY <1>4, <3>3
          <5> QED
            BY <1>21, <5>1
        <4> QED
          BY <1>4, <3>1, <3>3, <4>1
      <3> QED
        BY <3>2, <3>3
    <2> QED
      BY <1>4, <2>3, <2>4, <2>5, <2>6 DEF Ordered
  <1>19. Rooted(t)
    BY <1>0, <1>3 DEF Rooted
  <1>20. Quiet(t)
    <2>1. s.cells # <<>>
      BY <1>1, <1>2
    <2>2. ~s.sent /\ ~s.importing
      BY <1>0, <2>1, Zenon DEF Quiet
    <2>3. ~t.sent /\ ~t.importing
      BY <1>3, <2>2, Zenon
    <2> QED
      BY <2>3, Zenon DEF Quiet
  <1> QED
    BY <1>12, <1>13, <1>14, <1>15, <1>16, <1>17, <1>18, <1>19, <1>20 DEF Core

\* on_idle adds the blocks of the first cells and drops the cells.
LEMMA AddedKeeps ==
  ASSUME NEW s, NEW P, Core(s, P), NEW n \in 1 .. Len(s.cells),
         \A i \in 1 .. n : s.cells[i].status = PREPARED
  PROVE  Core(Added(s, n), P)
  <1>0. s \in DlSet /\ Ordered(s) /\ ClosedDl(s.known) /\ s.tip \in s.known
    BY DEF Core, Rooted
  <1>1. PICK N : N = Len(s.cells)
    OBVIOUS
  <1>2. N \in Nat /\ n \in 1 .. N /\ n \in Nat /\ DOMAIN s.cells = 1 .. N
        /\ \A i \in 1 .. N : s.cells[i] \in CellSet
    BY <1>0, <1>1 DEF DlSet
  <1>3. PICK blocks : blocks = [i \in 1 .. n |-> s.cells[i].bid]
    OBVIOUS
  <1>4. ASSUME NEW i \in 1 .. n
        PROVE  i \in 1 .. N /\ blocks[i] = s.cells[i].bid /\ blocks[i] \in Block /\ blocks[i] # Genesis
    <2>1. i \in 1 .. N /\ blocks[i] = s.cells[i].bid
      BY <1>2, <1>3
    <2> QED
      BY <1>2, <2>1 DEF CellSet
  <1>5. blocks \in Seq(Block) /\ Len(blocks) = n
    <2>1. blocks \in [1 .. n -> Block]
      BY <1>3, <1>4
    <2> QED
      BY <1>2, <1>3, <2>1
  <1>6. LineFrom(s.known, blocks)
    <2> SUFFICES ASSUME NEW k \in 1 .. n
                 PROVE  /\ blocks[k] # Genesis
                        /\ IF k = 1 THEN Parent[blocks[k]] \in s.known
                           ELSE Parent[blocks[k]] = blocks[k - 1]
      BY <1>5 DEF LineFrom
    <2>1. CASE k = 1
      <3>1. s.cells # <<>>
        BY <1>1, <1>2
      <3>2. Parent[s.cells[1].bid] \in s.known
        BY <1>0, <3>1 DEF Ordered
      <3> QED
        BY <1>4, <2>1, <3>2
    <2>2. CASE k # 1
      <3>1. k - 1 \in 1 .. n /\ k > 1
        BY <1>2, <2>2
      <3>2. Parent[s.cells[k].bid] = s.cells[k - 1].bid
        BY <1>0, <1>2, <1>4, <3>1 DEF Ordered
      <3> QED
        BY <1>4, <2>2, <3>1, <3>2
    <2> QED
      BY <2>1, <2>2
  <1>7. PICK u : u = add_blocks(s, blocks)
    OBVIOUS
  <1>8. AddedTo(s, u) /\ \A k \in 1 .. n : blocks[k] \in u.known
    <2>1. AddingAt(u, s, blocks, n)
      BY <1>0, <1>5, <1>7, AddedOneByOne
    <2> QED
      BY <1>6, <2>1 DEF AddingAt
  <1>9. Core(u, P) /\ u.cells = s.cells
    BY <1>8, AddedToKeeps
  <1>10. \A i \in 1 .. n : u.cells[i].status = PREPARED /\ u.cells[i].bid \in u.known
    BY <1>4, <1>8, <1>9
  <1>11. Added(s, n) = [u EXCEPT !.cells = SubSeq(@, n + 1, Len(@))]
    BY <1>3, <1>7 DEF Added
  <1>12. n \in 1 .. Len(u.cells)
    BY <1>9
  <1> QED
    BY <1>9, <1>10, <1>11, <1>12, FrontCutKeeps

(***************************************************************************)
(* The steps of the downloader                                             *)
(***************************************************************************)
\* The blocks that threads have or have prepared.
Held == {b \in Block : b \in Range(thread) \cup prepared}

\* The inductive invariant.
DownloadInv ==
  /\ Sound(dl, Held)
  /\ thread \in [Thread -> Block \cup {Idle}]
  /\ prepared \subseteq Block
  /\ DOMAIN peer = Client
  /\ \A c \in Client : peer[c].tip \in Block

\* A step of the main thread only.
LEMMA MainStep ==
  ASSUME DownloadInv, UNCHANGED <<thread, prepared, peer>>, Sound(dl', Held)
  PROVE  DownloadInv'
  <1>1. Held' = Held
    BY DEF Held
  <1>2. Sound(dl, Held)'
    BY <1>1
  <1> QED
    BY <1>2 DEF DownloadInv

\* The invariant of dl as it stands.
LEMMA InvOfDl ==
  ASSUME DownloadInv
  PROVE  /\ Core(dl, Held) /\ FrontServed(dl) /\ dl \in DlSet
         /\ ClosedDl(dl.known) /\ dl.tip \in dl.known
         /\ DOMAIN dl.good \subseteq Client
  <1>1. Core(dl, Held) /\ FrontServed(dl)
    BY DEF DownloadInv, Sound
  <1>2. dl \in DlSet /\ ClosedDl(dl.known) /\ dl.tip \in dl.known
    BY <1>1 DEF Core, Rooted
  <1> QED
    BY <1>1, <1>2, CellSets

LEMMA ImportStep ==
  ASSUME DownloadInv, NEW b \in Imported, NEW more \in BOOLEAN, Import(b, more)
  PROVE  DownloadInv'
  <1>1. PICK ch \in Choice(DOMAIN dl.good) :
          dl' = advance_download([add_blocks(dl, Path[b]) EXCEPT !.importing = more], ch)
    BY DEF Import
  <1>2. PICK u : u = add_blocks(dl, Path[b])
    OBVIOUS
  <1>3. Path[b] \in Seq(Block)
    <2>1. b \in Block
      BY DownloadAssumption
    <2> QED
      BY <2>1, DlTree, Branches DEF BranchOf
  <1>4. AddedTo(dl, u)
    <2>1. AddingAt(u, dl, Path[b], Len(Path[b]))
      BY <1>2, <1>3, InvOfDl, AddedOneByOne
    <2> QED
      BY <2>1 DEF AddingAt
  <1>5. Core(u, Held)
    BY <1>4, InvOfDl, AddedToKeeps
  <1>6. u.importing
    <2>1. u = [dl EXCEPT !.known = u.known, !.tip = u.tip]
      BY <1>4 DEF AddedTo
    <2>2. u.importing = dl.importing
      BY <2>1, InvOfDl DEF DlSet
    <2> QED
      BY <2>2, Zenon DEF Import
  <1>7. PICK t : t = [u EXCEPT !.importing = more]
    OBVIOUS
  <1>8. Core(t, Held)
    BY <1>5, <1>6, <1>7, ImportedKeeps
  <1>9. Sound(dl', Held)
    BY <1>1, <1>2, <1>7, <1>8, AdvanceKeeps
  <1> QED
    BY <1>9, MainStep DEF Import

LEMMA ConnectStep ==
  ASSUME DownloadInv, NEW c \in Client, on_connect(c)
  PROVE  DownloadInv'
  <1>1. PICK t : t = [dl EXCEPT !.good = [d \in DOMAIN @ \cup {c} |-> IF d = c THEN 0 ELSE @[d]],
                                !.sync[c] = Tipped(peer[c].tip)]
    OBVIOUS
  <1>2. \E ch : dl' = advance_download(t, ch)
    BY <1>1 DEF on_connect, Tipped
  <1>3. c \notin DOMAIN dl.good /\ UNCHANGED <<thread, prepared, peer>>
    BY DEF on_connect
  <1>4. peer[c].tip \in Block
    BY DEF DownloadInv
  <1>5. Core(t, Held)
    BY <1>1, <1>3, <1>4, InvOfDl, ConnectedKeeps
  <1>6. Sound(dl', Held)
    BY <1>2, <1>5, AdvanceKeeps
  <1> QED
    BY <1>3, <1>6, MainStep

LEMMA LostStep ==
  ASSUME DownloadInv, NEW c \in Client, Lost(c)
  PROVE  DownloadInv'
  <1>1. /\ c \in DOMAIN dl.good /\ UNCHANGED <<thread, prepared, peer>>
        /\ \E ch : dl' = on_disconnect(dl, c, ch)
    BY DEF Lost
  <1>2. Sound(dl', Held)
    BY <1>1, InvOfDl, OnDisconnectKeeps
  <1> QED
    BY <1>1, <1>2, MainStep

LEMMA AnswerChainStep ==
  ASSUME DownloadInv, NEW c \in Client, AnswerChain(c)
  PROVE  DownloadInv'
  <1>1. /\ dl.asked[c] # <<>> /\ Head(dl.asked[c]).kind = "chain"
        /\ UNCHANGED <<thread, prepared, peer>>
    BY DEF AnswerChain
  <1>2. PICK v : v = Unasked(dl, c)
    OBVIOUS
  <1>3. PICK ch : dl' = on_msg_notify_request_chain(v, c,
                          get_sync_headers_chain(peer[c].stored, peer[c].tip,
                                                 Head(dl.asked[c]).locator), ch)
    BY <1>2 DEF AnswerChain, Served, Unasked
  <1>4. Sound(dl, Held) /\ peer[c].tip \in Block
    BY DEF DownloadInv
  <1>5. Sound(dl', Held)
    BY <1>1, <1>2, <1>3, <1>4, ChainKeeps
  <1> QED
    BY <1>1, <1>5, MainStep

LEMMA AnswerBlockStep ==
  ASSUME DownloadInv, NEW c \in Client, AnswerBlock(c)
  PROVE  DownloadInv'
  <1>1. /\ dl.asked[c] # <<>> /\ Head(dl.asked[c]).kind = "block"
        /\ UNCHANGED <<thread, prepared, peer>>
    BY DEF AnswerBlock
  <1>2. PICK v : v = Unasked(dl, c)
    OBVIOUS
  <1>3. PICK b : b = Head(dl.asked[c]).bid
    OBVIOUS
  <1>4. PICK ch : dl' = IF b \in peer[c].stored THEN on_block(v, c, b, ch)
                                                ELSE on_missed(v, c, b, ch)
    BY <1>2, <1>3 DEF AnswerBlock, Served, Unasked
  <1>5. Head(dl.asked[c]) = BlockRequest(b)
    <2>1. PICK q : q = dl.asked[c]
      OBVIOUS
    <2>2. q \in Seq(Requests) /\ q # <<>>
      BY <1>1, <2>1, InvOfDl DEF DlSet
    <2>3. PICK h : h = Head(q)
      OBVIOUS
    <2>4. h \in Requests
      BY <2>2, <2>3
    <2>5. h.kind = "block" /\ b = h.bid
      BY <1>1, <1>3, <2>1, <2>3
    <2>6. h = BlockRequest(h.bid)
      BY <2>4, <2>5 DEF Requests, BlockRequest
    <2> QED
      BY <2>1, <2>3, <2>5, <2>6
  <1>6. Sound(on_block(v, c, b, ch), Held)
    BY <1>1, <1>2, <1>5, InvOfDl, BlockKeeps
  <1>7. Sound(on_missed(v, c, b, ch), Held)
    BY <1>1, <1>2, <1>5, InvOfDl, MissedKeeps
  <1>8. Sound(dl', Held)
    BY <1>4, <1>6, <1>7
  <1> QED
    BY <1>1, <1>8, MainStep

LEMMA SyncStep ==
  ASSUME DownloadInv, NEW c \in Client, on_msg_timed_sync(c)
  PROVE  DownloadInv'
  <1>1. PICK t : t = [dl EXCEPT !.sync[c] = Tipped(peer[c].tip)]
    OBVIOUS
  <1>2. /\ \E ch : dl' = advance_download(t, ch)
        /\ UNCHANGED <<thread, prepared, peer>> /\ peer[c].tip \in Block
    BY <1>1 DEF on_msg_timed_sync, Tipped, DownloadInv
  <1>3. Core(t, Held)
    BY <1>1, <1>2, InvOfDl, HeardKeeps
  <1>4. Sound(dl', Held)
    BY <1>2, <1>3, AdvanceKeeps
  <1> QED
    BY <1>2, <1>4, MainStep

LEMMA NewBlockStep ==
  ASSUME DownloadInv, NEW c \in Client, on_msg_notify_new_block(c)
  PROVE  DownloadInv'
  <1>1. PICK u : u = add_block(dl, peer[c].tip)
    OBVIOUS
  <1>2. PICK t : t = [u EXCEPT !.sync[c] = Tipped(peer[c].tip)]
    OBVIOUS
  <1>3. /\ \E ch : dl' = advance_download(t, ch)
        /\ UNCHANGED <<thread, prepared, peer>> /\ peer[c].tip \in Block
    BY <1>1, <1>2 DEF on_msg_notify_new_block, Tipped, DownloadInv
  <1>4. Core(u, Held)
    <2>1. AddedTo(dl, u)
      BY <1>1, <1>3, InvOfDl, AddKeeps
    <2> QED
      BY <2>1, InvOfDl, AddedToKeeps
  <1>5. Core(t, Held)
    BY <1>2, <1>3, <1>4, HeardKeeps
  <1>6. Sound(dl', Held)
    BY <1>3, <1>5, AdvanceKeeps
  <1> QED
    BY <1>3, <1>6, MainStep

LEMMA RelayedStep ==
  ASSUME DownloadInv, NEW b \in PeerTips, Relayed(b)
  PROVE  DownloadInv'
  <1>1. PICK u : u = add_block(dl, b)
    OBVIOUS
  <1>2. /\ \E ch : dl' = advance_download(u, ch)
        /\ UNCHANGED <<thread, prepared, peer>> /\ b \in Block
    BY <1>1, DownloadAssumption DEF Relayed
  <1>3. AddedTo(dl, u)
    BY <1>1, <1>2, InvOfDl, AddKeeps
  <1>4. Core(u, Held)
    BY <1>3, InvOfDl, AddedToKeeps
  <1>5. Sound(dl', Held)
    BY <1>2, <1>4, AdvanceKeeps
  <1> QED
    BY <1>2, <1>5, MainStep

LEMMA ChainTimerStep ==
  ASSUME DownloadInv, on_chain_timer
  PROVE  DownloadInv'
  <1>1. /\ \E ch : dl' = on_disconnect(dl, dl.client, ch)
        /\ UNCHANGED <<thread, prepared, peer>>
    BY DEF on_chain_timer
  <1>2. dl.client # NoClient
    BY InvOfDl, Zenon DEF Core, Alive, on_chain_timer
  <1>3. dl.client \in DOMAIN dl.good
    BY <1>2, InvOfDl DEF Core, Alive
  <1>4. Sound(dl', Held)
    BY <1>1, <1>3, InvOfDl, OnDisconnectKeeps
  <1> QED
    BY <1>1, <1>4, MainStep

LEMMA DownloadTimerStep ==
  ASSUME DownloadInv, on_download_timer
  PROVE  DownloadInv'
  <1>1. PICK c : c = dl.cells[1].client
    OBVIOUS
  <1>2. /\ \E ch : dl' = on_disconnect(dl, c, ch)
        /\ UNCHANGED <<thread, prepared, peer>>
        /\ dl.cells # <<>> /\ Asked(dl.cells[1])
    BY <1>1 DEF on_download_timer
  <1>3. 1 \in DOMAIN dl.cells
    BY <1>2, InvOfDl DEF DlSet
  <1>4. c \in DOMAIN dl.good
    BY <1>1, <1>2, <1>3, InvOfDl DEF Core, Alive, Asked
  <1>5. Sound(dl', Held)
    BY <1>2, <1>4, InvOfDl, OnDisconnectKeeps
  <1> QED
    BY <1>2, <1>5, MainStep

LEMMA LateStep ==
  ASSUME DownloadInv, NEW i \in 1 .. Window, Late(i)
  PROVE  DownloadInv'
  <1>1. PICK t : t = [dl EXCEPT !.cells[i].late = TRUE]
    OBVIOUS
  <1>2. i \in DOMAIN dl.cells /\ dl' = t /\ UNCHANGED <<thread, prepared, peer>>
    BY <1>1 DEF Late
  <1>3. dl \in DlSet /\ dl.cells \in Seq(CellSet) /\ DOMAIN dl.cells = 1 .. Len(dl.cells)
    BY InvOfDl DEF DlSet
  <1>4. t.cells = [dl.cells EXCEPT ![i] = [dl.cells[i] EXCEPT !.late = TRUE]]
        /\ t = [dl EXCEPT !.cells = t.cells] /\ t.total = dl.total
    BY <1>1, <1>3 DEF DlSet
  <1>5. ASSUME NEW j \in DOMAIN dl.cells
        PROVE  /\ t.cells[j] \in CellSet
               /\ t.cells[j].bid = dl.cells[j].bid /\ t.cells[j].height = dl.cells[j].height
               /\ t.cells[j].client = dl.cells[j].client /\ t.cells[j].status = dl.cells[j].status
    <2>1. PICK x : x = dl.cells[j]
      OBVIOUS
    <2>2. PICK y : y = t.cells[j]
      OBVIOUS
    <2>3. x \in CellSet /\ (y = x \/ y = [x EXCEPT !.late = TRUE])
      <3>1. x \in CellSet
        BY <1>3, <2>1
      <3>2. PICK z : z = dl.cells
        OBVIOUS
      <3>3. t.cells = [z EXCEPT ![i] = [z[i] EXCEPT !.late = TRUE]] /\ j \in DOMAIN z /\ x = z[j]
        BY <1>4, <2>1, <3>2
      <3>4. t.cells[j] = x \/ t.cells[j] = [x EXCEPT !.late = TRUE]
        BY <3>3
      <3> QED
        BY <2>2, <3>1, <3>4
    <2>4. /\ y \in CellSet /\ y.bid = x.bid /\ y.height = x.height
          /\ y.client = x.client /\ y.status = x.status
      BY <2>3 DEF CellSet
    <2> QED
      BY <2>1, <2>2, <2>4
  <1>6. DOMAIN t.cells = DOMAIN dl.cells /\ t.cells \in Seq(CellSet)
    <2>1. PICK z : z = dl.cells
      OBVIOUS
    <2>2. PICK w : w = t.cells
      OBVIOUS
    <2>3. z \in Seq(CellSet) /\ i \in DOMAIN z /\ w[i] \in CellSet /\ w = [z EXCEPT ![i] = w[i]]
      BY <1>2, <1>3, <1>4, <1>5, <2>1, <2>2
    <2>4. DOMAIN w = DOMAIN z /\ w \in Seq(CellSet)
      BY <2>3
    <2> QED
      BY <2>1, <2>2, <2>4
  <1>7. MarkedAlike(dl, t)
    BY <1>5, <1>6 DEF MarkedAlike
  <1>8. Core(t, Held) /\ SameCells(dl, t)
    BY <1>4, <1>7, InvOfDl, MarksKeep
  <1>9. FrontServed(t)
    <2>1. AskedIn(t) = AskedIn(dl)
      BY <1>3, <1>8, SameCellsSets
    <2>2. \A j \in DOMAIN t.cells :
            j \in DOMAIN dl.cells /\ (Waiting(t.cells[j]) => Waiting(dl.cells[j]))
      BY <1>5, <1>6 DEF Waiting
    <2> QED
      BY <1>4, <2>1, <2>2, InvOfDl DEF FrontServed
  <1>10. Sound(dl', Held)
    BY <1>2, <1>8, <1>9 DEF Sound
  <1> QED
    BY <1>2, <1>10, MainStep

LEMMA MoveStep ==
  ASSUME DownloadInv, NEW c \in Client, NEW b \in PeerTips, Move(c, b)
  PROVE  DownloadInv'
  <1>1. /\ peer' = [peer EXCEPT ![c] = [tip |-> b, stored |-> peer[c].stored \cup Range(Path[b])]]
        /\ UNCHANGED <<dl, thread, prepared>> /\ b \in Block
    BY DownloadAssumption DEF Move
  <1>2. DOMAIN peer' = Client /\ \A d \in Client : peer'[d].tip \in Block
    BY <1>1 DEF DownloadInv
  <1>3. Held' = Held
    BY <1>1 DEF Held
  <1>4. Sound(dl, Held)'
    BY <1>1, <1>3 DEF DownloadInv
  <1> QED
    BY <1>1, <1>2, <1>4 DEF DownloadInv

LEMMA TakeStep ==
  ASSUME DownloadInv, NEW t \in Thread, Take(t)
  PROVE  DownloadInv'
  <1>1. /\ thread[t] = Idle /\ dl.work # <<>>
        /\ thread' = [thread EXCEPT ![t] = Head(dl.work)]
        /\ dl' = [dl EXCEPT !.work = Tail(@)]
        /\ UNCHANGED <<prepared, peer>>
    BY DEF Take
  <1>2. thread \in [Thread -> Block \cup {Idle}] /\ prepared \subseteq Block /\ Idle \notin Block
    BY DownloadAssumption DEF DownloadInv
  <1>3. PICK b : b = Head(dl.work)
    OBVIOUS
  <1>4. b \in Block
    <2>1. dl.work \in Seq(Block)
      BY InvOfDl DEF DlSet
    <2> QED
      BY <1>1, <1>3, <2>1
  <1>5. thread' \in [Thread -> Block \cup {Idle}]
    BY <1>1, <1>2, <1>3, <1>4
  <1>6. Held \cup {b} \subseteq Held'
    <2>1. \A x \in Held : x \in prepared \/ \E u \in Thread : thread[u] = x
      BY <1>2 DEF Held, Range
    <2>2. \A u \in Thread : thread[u] \in Block => thread'[u] = thread[u]
      BY <1>1, <1>2
    <2>3. thread'[t] = b
      BY <1>1, <1>2, <1>3
    <2>4. \A u \in Thread : thread'[u] \in Range(thread')
      BY <1>5 DEF Range
    <2>5. ASSUME NEW x \in Held
          PROVE  x \in Held'
      <3>1. x \in Block
        BY DEF Held
      <3>2. x \in prepared' \/ x \in Range(thread')
        <4>1. CASE x \in prepared
          BY <1>1, <4>1
        <4>2. CASE x \notin prepared
          <5>1. PICK u \in Thread : thread[u] = x
            BY <2>1, <4>2
          <5>2. thread'[u] = x
            BY <2>2, <3>1, <5>1
          <5> QED
            BY <2>4, <5>2
        <4> QED
          BY <4>1, <4>2
      <3> QED
        BY <3>1, <3>2 DEF Held
    <2>6. b \in Held'
      BY <1>4, <2>3, <2>4 DEF Held
    <2> QED
      BY <2>5, <2>6
  <1>7. PICK Q : Q = Held'
    OBVIOUS
  <1>8. PICK s : s = dl'
    OBVIOUS
  <1>9. Core(s, Q) /\ s.cells = dl.cells /\ s.total = dl.total
    <2>1. Held \cup {Head(dl.work)} \subseteq Q
      BY <1>3, <1>6, <1>7
    <2> QED
      BY <1>1, <1>8, <2>1, InvOfDl, TakeKeeps
  <1>10. FrontServed(s)
    BY <1>9, InvOfDl, SameFront
  <1>11. Sound(dl, Held)'
    BY <1>7, <1>8, <1>9, <1>10 DEF Sound
  <1> QED
    BY <1>1, <1>2, <1>5, <1>11 DEF DownloadInv

LEMMA FinishStep ==
  ASSUME DownloadInv, NEW t \in Thread, Finish(t)
  PROVE  DownloadInv'
  <1>1. /\ thread[t] # Idle /\ prepared' = prepared \cup {thread[t]}
        /\ thread' = [thread EXCEPT ![t] = Idle]
        /\ UNCHANGED <<dl, peer>>
    BY DEF Finish
  <1>2. thread \in [Thread -> Block \cup {Idle}] /\ prepared \subseteq Block
    BY DEF DownloadInv
  <1>3. thread' \in [Thread -> Block \cup {Idle}] /\ prepared' \subseteq Block
    BY <1>1, <1>2
  <1>4. Held \subseteq Held'
    <2>1. \A x \in Held : x \in prepared \/ \E u \in Thread : thread[u] = x
      BY <1>2 DEF Held, Range
    <2>2. \A u \in Thread : thread[u] = thread'[u] \/ thread[u] \in prepared'
      BY <1>1, <1>2
    <2>3. \A u \in Thread : thread'[u] \in Range(thread')
      BY <1>3 DEF Range
    <2> SUFFICES ASSUME NEW x \in Held PROVE x \in Held'
      OBVIOUS
    <2>4. x \in Block
      BY DEF Held
    <2>5. x \in prepared' \/ x \in Range(thread')
      BY <1>1, <2>1, <2>2, <2>3
    <2> QED
      BY <2>4, <2>5 DEF Held
  <1>5. PICK Q : Q = Held'
    OBVIOUS
  <1>6. Core(dl, Q) /\ FrontServed(dl)
    BY <1>4, <1>5, InvOfDl, MoreHeld
  <1>7. Sound(dl, Held)'
    BY <1>1, <1>5, <1>6 DEF Sound
  <1> QED
    BY <1>1, <1>3, <1>7 DEF DownloadInv

LEMMA IdleStep ==
  ASSUME DownloadInv, on_idle
  PROVE  DownloadInv'
  <1>1. PICK n \in 0 .. Window : Idling(n)
    BY DEF on_idle
  <1>2. prepared' = {} /\ UNCHANGED <<thread, peer>>
    BY DEF on_idle
  <1>3. PICK s : s = Matched
    OBVIOUS
  <1>4. PICK Q : Q = Held'
    OBVIOUS
  <1>5. Core(s, Q) /\ FrontServed(s)
    <2>1. s = MatchedIn(dl, prepared)
      BY <1>3 DEF Matched, MatchedIn
    <2>2. Held \subseteq Q \cup prepared
      BY <1>2, <1>4 DEF Held
    <2> QED
      BY <2>1, <2>2, InvOfDl, MatchedKeeps
  <1>6. Sound(dl', Q)
    <2>1. CASE n = 0
      <3>1. dl' = s
        BY <1>1, <1>3, <2>1 DEF Idling
      <3> QED
        BY <1>5, <3>1 DEF Sound
    <2>2. CASE n # 0
      <3>1. /\ n <= Len(s.cells) /\ \A i \in 1 .. n : s.cells[i].status = PREPARED
            /\ \E ch : dl' = advance_download(Added(s, n), ch)
        BY <1>1, <1>3, <2>2 DEF Idling
      <3>2. n \in 1 .. Len(s.cells)
        <4>1. Len(s.cells) \in Nat
          BY <1>5, CellSets DEF Core
        <4>2. n \in Nat
          BY DownloadAssumption
        <4> QED
          BY <2>2, <3>1, <4>1, <4>2
      <3>3. Core(Added(s, n), Q)
        BY <1>5, <3>1, <3>2, AddedKeeps
      <3> QED
        BY <3>1, <3>3, AdvanceKeeps
    <2> QED
      BY <2>1, <2>2
  <1>7. Sound(dl, Held)'
    BY <1>4, <1>6
  <1> QED
    BY <1>2, <1>7 DEF DownloadInv

(***************************************************************************)
(* The invariants of the downloader                                        *)
(***************************************************************************)
LEMMA DownloadInit == Init => DownloadInv
  <1> SUFFICES ASSUME Init PROVE DownloadInv
    OBVIOUS
  <1>1. /\ dl = [good |-> <<>>, total |-> 0, cells |-> <<>>, chain |-> <<>>,
                 start |-> 0, client |-> NoClient, sent |-> FALSE, work |-> <<>>,
                 asked |-> [c \in Client |-> <<>>], sync |-> [c \in Client |-> NoSync],
                 known |-> {Genesis}, tip |-> Genesis, importing |-> TRUE, ok |-> TRUE]
        /\ thread = [t \in Thread |-> Idle] /\ prepared = {}
        /\ peer \in [Client -> {[tip |-> b, stored |-> Range(Path[b])] : b \in PeerTips}]
    BY DEF Init
  <1>2. /\ dl.good = <<>> /\ dl.total = 0 /\ dl.cells = <<>> /\ dl.chain = <<>>
        /\ dl.start = 0 /\ dl.client = NoClient /\ dl.sent = FALSE /\ dl.work = <<>>
        /\ dl.asked = [c \in Client |-> <<>>] /\ dl.sync = [c \in Client |-> NoSync]
        /\ dl.known = {Genesis} /\ dl.tip = Genesis /\ dl.importing = TRUE /\ dl.ok = TRUE
    BY <1>1
  <1>3. Genesis \in Block /\ MaxDownload \in Nat /\ Window \in Nat
    BY DlTree, DownloadAssumption
  <1>4. dl \in DlSet
    <2>1. <<>> \in Counts
      <3>1. <<>> \in [{} -> Nat] /\ {} \in SUBSET Client
        OBVIOUS
      <3> QED
        BY <3>1 DEF Counts
    <2>2. NoSync \in [height : Nat, top : Block]
      BY <1>3 DEF NoSync
    <2>3. /\ [c \in Client |-> <<>>] \in [Client -> Seq(Requests)]
          /\ [c \in Client |-> NoSync] \in [Client -> [height : Nat, top : Block]]
          /\ <<>> \in Seq(CellSet) /\ <<>> \in Seq(Block \ {Genesis}) /\ <<>> \in Seq(Block)
      BY <2>2
    <2> QED
      BY <1>1, <1>3, <2>1, <2>3 DEF DlSet
  <1>5. AskedIn(dl) = {} /\ DOMAIN dl.good = {}
    BY <1>2 DEF AskedIn
  <1>6. Counted(dl)
    <2>1. dl.total = Cardinality(AskedIn(dl))
      BY <1>2, <1>5, FS_EmptySet
    <2> QED
      BY <1>2, <1>5, <2>1 DEF Counted
  <1>7. Alive(dl)
    BY <1>2, <1>5, FS_EmptySet DEF Alive
  <1>8. Limited(dl) /\ Early(dl)
    BY <1>2, <1>3, <1>5 DEF Limited, Early
  <1>9. Remembered(dl, Held)
    BY <1>2, <1>5 DEF Remembered
  <1>10. Ordered(dl) /\ Quiet(dl)
    BY <1>2 DEF Ordered, Quiet
  <1>11. Rooted(dl)
    BY <1>2, <1>3 DEF Rooted, ClosedDl, ClosedIn
  <1>12. FrontServed(dl)
    BY <1>2 DEF FrontServed
  <1>13. Sound(dl, Held)
    BY <1>4, <1>6, <1>7, <1>8, <1>9, <1>10, <1>11, <1>12 DEF Sound, Core
  <1>14. DOMAIN peer = Client /\ \A c \in Client : peer[c].tip \in Block
    BY <1>1, DownloadAssumption
  <1> QED
    BY <1>1, <1>13, <1>14 DEF DownloadInv

LEMMA DownloadStep == DownloadInv /\ [Next]_vars => DownloadInv'
  <1> SUFFICES ASSUME DownloadInv, [Next]_vars PROVE DownloadInv'
    OBVIOUS
  <1>1. CASE UNCHANGED vars
    <2>1. Sound(dl', Held) /\ UNCHANGED <<thread, prepared, peer>>
      BY <1>1 DEF vars, DownloadInv
    <2> QED
      BY <2>1, MainStep
  <1>2. CASE \E b \in Imported, more \in BOOLEAN : Import(b, more)
    BY <1>2, ImportStep
  <1>3. CASE \E c \in Client : on_connect(c) \/ Lost(c)
    BY <1>3, ConnectStep, LostStep
  <1>4. CASE \E c \in Client : AnswerChain(c) \/ AnswerBlock(c)
    BY <1>4, AnswerChainStep, AnswerBlockStep
  <1>5. CASE \E c \in Client : on_msg_timed_sync(c) \/ on_msg_notify_new_block(c)
    BY <1>5, SyncStep, NewBlockStep
  <1>6. CASE \E c \in Client, b \in PeerTips : Move(c, b)
    BY <1>6, MoveStep
  <1>7. CASE \E b \in PeerTips : Relayed(b)
    BY <1>7, RelayedStep
  <1>8. CASE \E i \in 1 .. Window : Late(i)
    BY <1>8, LateStep
  <1>9. CASE on_chain_timer \/ on_download_timer
    BY <1>9, ChainTimerStep, DownloadTimerStep
  <1>10. CASE \E t \in Thread : Take(t) \/ Finish(t)
    BY <1>10, TakeStep, FinishStep
  <1>11. CASE on_idle
    BY <1>11, IdleStep
  <1> QED
    BY <1>1, <1>2, <1>3, <1>4, <1>5, <1>6, <1>7, <1>8, <1>9, <1>10, <1>11, Zenon DEF Next

LEMMA InvIsRequestsSound == DownloadInv => RequestsSound
  <1> SUFFICES ASSUME DownloadInv PROVE RequestsSound
    OBVIOUS
  <1>1. /\ Counted(dl) /\ Alive(dl) /\ Limited(dl) /\ FrontServed(dl)
    BY InvOfDl DEF Core
  <1>2. AskedCells = AskedIn(dl)
    BY DEF AskedCells, Cells, AskedIn
  <1>3. \A c : {i \in AskedCells : dl.cells[i].client = c} = AskedOf(dl, c)
    BY <1>2 DEF AskedOf
  <1>4. CountersExact
    BY <1>1, <1>2, <1>3, Zenon DEF CountersExact, Counted
  <1>5. NoDeadClient
    <2>1. \A i \in AskedCells : dl.cells[i].client \in DOMAIN dl.good
      BY <1>1, <1>2 DEF Alive, AskedIn, Asked
    <2> QED
      BY <1>1, <2>1, Zenon DEF NoDeadClient, Alive
  <1>6. WindowBounded
    BY <1>1 DEF WindowBounded, Limited
  <1>7. FrontIsServed
    BY <1>1, <1>2 DEF FrontIsServed, FrontServed, Cells
  <1> QED
    BY <1>4, <1>5, <1>6, <1>7 DEF RequestsSound

LEMMA InvIsForgotten == DownloadInv => NothingForgotten
  <1> SUFFICES ASSUME DownloadInv PROVE NothingForgotten
    OBVIOUS
  <1>1. Remembered(dl, Held)
    BY InvOfDl DEF Core
  <1>2. ASSUME NEW i \in AskedCells
        PROVE  \E n \in DOMAIN dl.asked[dl.cells[i].client] :
                 dl.asked[dl.cells[i].client][n] = [kind |-> "block", bid |-> dl.cells[i].bid]
    <2>1. i \in AskedIn(dl)
      BY DEF AskedCells, Cells, AskedIn
    <2>2. BlockAwaited(dl.asked, dl.cells[i].client, dl.cells[i].bid)
      BY <1>1, <2>1 DEF Remembered
    <2> QED
      BY <2>2 DEF BlockAwaited, BlockRequest
  <1>3. dl.sent => \E n \in DOMAIN dl.asked[dl.client] : dl.asked[dl.client][n].kind = "chain"
    BY <1>1, Zenon DEF Remembered, ChainAwaited
  <1>4. \A i \in Cells : dl.cells[i].status = PREPARING =>
          dl.cells[i].bid \in Range(dl.work) \cup Range(thread) \cup prepared
    BY <1>1 DEF Remembered, Held, Cells
  <1> QED
    BY <1>2, <1>3, <1>4, Zenon DEF NothingForgotten

LEMMA InvIsInOrder == DownloadInv => InOrder
  <1> SUFFICES ASSUME DownloadInv PROVE InOrder
    OBVIOUS
  <1>0. dl \in DlSet /\ Ordered(dl)
    BY InvOfDl DEF Core
  <1>1. PICK N : N = Len(dl.cells)
    OBVIOUS
  <1>2. PICK z : z = dl.chain
    OBVIOUS
  <1>3. /\ N \in Nat /\ DOMAIN dl.cells = 1 .. N /\ (N = 0 <=> dl.cells = <<>>)
        /\ z \in Seq(Block) /\ Len(z) \in Nat /\ DOMAIN z = 1 .. Len(z)
        /\ \A i \in 1 .. N : dl.cells[i] \in CellSet
    BY <1>0, <1>1, <1>2 DEF DlSet
  <1>4. PICK w : w = [i \in Cells |-> dl.cells[i].bid]
    OBVIOUS
  <1>5. w = [i \in 1 .. N |-> dl.cells[i].bid]
    BY <1>3, <1>4 DEF Cells
  <1>6. w \in Seq(Block) /\ Len(w) = N
    <2>1. \A i \in 1 .. N : dl.cells[i].bid \in Block
      BY <1>3 DEF CellSet
    <2>2. w \in [1 .. N -> Block]
      BY <1>5, <2>1
    <2> QED
      BY <1>3, <1>5, <2>2
  <1>7. PICK line : line = w \o z
    OBVIOUS
  <1>8. /\ Len(line) = N + Len(z)
        /\ \A i \in 1 .. N : line[i] = w[i]
        /\ \A i \in 1 .. Len(z) : line[N + i] = z[i]
    <2>5. w \in Seq(Block) /\ z \in Seq(Block) /\ Len(w) = N /\ N \in Nat /\ line = w \o z
      BY <1>3, <1>6, <1>7
    <2>1. Len(line) = N + Len(z)
      <3>1. Len(w \o z) = Len(w) + Len(z)
        <4>1. w \in Seq(Block) /\ z \in Seq(Block)
          BY <2>5
        <4> QED
          BY <4>1
      <3> QED
        BY <2>5, <3>1
    <2>2. \A i \in 1 .. N + Len(z) : line[i] = IF i <= N THEN w[i] ELSE z[i - N]
      BY <2>5
    <2>3. \A i \in 1 .. N : i \in 1 .. N + Len(z) /\ i <= N
      BY <1>3
    <2>4. \A i \in 1 .. Len(z) : N + i \in 1 .. N + Len(z) /\ ~(N + i <= N) /\ (N + i) - N = i
      BY <1>3
    <2> QED
      BY <2>1, <2>2, <2>3, <2>4
  <1>9. /\ \A i \in 1 .. N :
             /\ dl.cells[i].height = Height[dl.cells[i].bid]
             /\ i > 1 => Parent[w[i]] = w[i - 1]
        /\ \A i \in 1 .. Len(z) :
             /\ Height[z[i]] = dl.start + (i - 1)
             /\ i > 1 => Parent[z[i]] = z[i - 1]
        /\ N # 0 => Parent[w[1]] \in dl.known
        /\ z # <<>> => IF N = 0 THEN Parent[z[1]] \in dl.known ELSE Parent[z[1]] = w[N]
    <2>1. \A i \in 1 .. N : i > 1 => i - 1 \in 1 .. N
      BY <1>3
    <2>2. N # 0 => 1 \in 1 .. N /\ N \in 1 .. N
      BY <1>3
    <2>3. \A i \in 1 .. N : w[i] = dl.cells[i].bid
      BY <1>5
    <2>4. /\ \A i \in 1 .. N :
               /\ dl.cells[i].height = Height[dl.cells[i].bid]
               /\ i > 1 => Parent[dl.cells[i].bid] = dl.cells[i - 1].bid
          /\ dl.cells # <<>> => Parent[dl.cells[1].bid] \in dl.known
          /\ dl.chain # <<>> => IF dl.cells = <<>> THEN Parent[dl.chain[1]] \in dl.known
                                ELSE Parent[dl.chain[1]] = dl.cells[Len(dl.cells)].bid
      BY <1>0, <1>3 DEF Ordered
    <2>5. \A i \in 1 .. N : i > 1 => Parent[w[i]] = w[i - 1]
      BY <2>1, <2>3, <2>4
    <2>6. \A i \in 1 .. Len(z) :
             /\ Height[z[i]] = dl.start + (i - 1)
             /\ i > 1 => Parent[z[i]] = z[i - 1]
      BY <1>0, <1>2, <1>3 DEF Ordered
    <2>7. N # 0 => Parent[w[1]] \in dl.known
      BY <1>3, <2>2, <2>3, <2>4
    <2>8. z # <<>> => IF N = 0 THEN Parent[z[1]] \in dl.known ELSE Parent[z[1]] = w[N]
      BY <1>1, <1>2, <1>3, <2>2, <2>3, <2>4
    <2> QED
      BY <2>4, <2>5, <2>6, <2>7, <2>8
  <1>10. line # <<>> => Parent[line[1]] \in dl.known
    <2> SUFFICES ASSUME line # <<>> PROVE Parent[line[1]] \in dl.known
      OBVIOUS
    <2>1. CASE N # 0
      <3>1. 1 \in 1 .. N
        BY <1>3, <2>1
      <3> QED
        BY <1>8, <1>9, <2>1, <3>1
    <2>2. CASE N = 0
      <3>1. w = <<>>
        BY <1>6, <2>2
      <3>2. line = z
        BY <1>3, <1>7, <3>1
      <3> QED
        BY <1>9, <2>2, <3>2
    <2> QED
      BY <2>1, <2>2
  <1>11. ASSUME NEW i \in 2 .. Len(line)
         PROVE  Parent[line[i]] = line[i - 1]
    <2>1. i \in Nat /\ i >= 2 /\ i <= N + Len(z)
      BY <1>3, <1>8
    <2>2. CASE i <= N
      <3>1. i \in 1 .. N /\ i - 1 \in 1 .. N /\ i > 1
        BY <1>3, <2>1, <2>2
      <3> QED
        BY <1>8, <1>9, <3>1
    <2>3. CASE i = N + 1
      <3>1. 1 \in 1 .. Len(z) /\ N \in 1 .. N /\ i - 1 = N /\ N # 0 /\ z # <<>>
        BY <1>3, <2>1, <2>3
      <3>2. line[i] = z[1] /\ line[i - 1] = w[N]
        BY <1>8, <2>3, <3>1
      <3> QED
        BY <1>9, <3>1, <3>2
    <2>4. CASE i > N + 1
      <3>1. PICK k \in Nat : k = i - N
        BY <1>3, <2>1, <2>4
      <3>2. k \in 1 .. Len(z) /\ k - 1 \in 1 .. Len(z) /\ k > 1 /\ N + k = i /\ N + (k - 1) = i - 1
        BY <1>3, <2>1, <2>4, <3>1
      <3>3. line[i] = z[k] /\ line[i - 1] = z[k - 1]
        BY <1>8, <3>2
      <3> QED
        BY <1>9, <3>2, <3>3
    <2> QED
      BY <1>3, <2>1, <2>2, <2>3, <2>4
  <1>12. \A i \in Cells : dl.cells[i].height = Height[dl.cells[i].bid]
    BY <1>3, <1>9 DEF Cells
  <1>13. dl.chain # <<>> => dl.start = Height[dl.chain[1]]
    <2> SUFFICES ASSUME z # <<>> PROVE dl.start = Height[z[1]]
      BY <1>2
    <2>1. 1 \in 1 .. Len(z)
      BY <1>3
    <2>2. dl.start \in Nat
      BY <1>0 DEF DlSet
    <2> QED
      BY <1>9, <2>1, <2>2
  <1> QED
    BY <1>2, <1>4, <1>7, <1>10, <1>11, <1>12, <1>13, Zenon DEF InOrder

\* The counters of the blocks under way are those of the cells, no pointer to a
\* client outlives its connection, the limits hold, and the front of the window is
\* asked for first, in every reachable state (advance_download, on_disconnect).
THEOREM RequestsAlwaysSound == DownloadSpec => []RequestsSound
  <1>1. SyncInit /\ part = "download" => DownloadInv
    BY DownloadInit DEF SyncInit
  <1>2. DownloadInv /\ [Next /\ UNCHANGED <<part, tick, cs>>]_sync => DownloadInv'
    BY DownloadStep DEF sync
  <1>3. DownloadInv => RequestsSound
    BY InvIsRequestsSound
  <1> QED
    BY <1>1, <1>2, <1>3, PTL DEF DownloadSpec

\* Whatever the downloader waits for is under way, and its cells and its chain are
\* one line of blocks that begins on a stored block, in every reachable state
\* (on_idle, on_msg_notify_request_objects).
THEOREM DownloadAlwaysSound == DownloadSpec => []DownloadSound
  <1>1. SyncInit /\ part = "download" => DownloadInv
    BY DownloadInit DEF SyncInit
  <1>2. DownloadInv /\ [Next /\ UNCHANGED <<part, tick, cs>>]_sync => DownloadInv'
    BY DownloadStep DEF sync
  <1>3. DownloadInv => DownloadSound
    BY InvIsForgotten, InvIsInOrder DEF DownloadSound
  <1> QED
    BY <1>1, <1>2, <1>3, PTL DEF DownloadSpec

================================================================================
