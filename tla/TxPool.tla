------------------------------- MODULE TxPool -------------------------------
(***************************************************************************)
(* Go slices of transactions as the transaction pool and the blocks of a   *)
(* node use them (blockchain.go and miner.go): a slice is an array and a   *)
(* length; the pool and the blocks mined from it share arrays, and what    *)
(* one writes the other reads.                                             *)
(***************************************************************************)
EXTENDS Integers, Sequences

CONSTANT NoTx     \* nil, in the cells of an array that were never written

\* The slice of a struct that was never assigned: it has no array yet.
NilSlice == [arr |-> 0, len |-> 0]

\* What a slice s of the arrays of a heap holds.
Elements(heap, s) == IF s.arr = 0 THEN <<>> ELSE SubSeq(heap[s.arr], 1, s.len)

Capacity(heap, s) == IF s.arr = 0 THEN 0 ELSE Len(heap[s.arr])

\* append(s, x): in the array of s while it has room, so that every slice of
\* that array sees the write; otherwise in a copy twice as large.
Appended(heap, s, x) ==
  LET cap == Capacity(heap, s)
      fresh == [i \in 1..(IF cap = 0 THEN 1 ELSE 2 * cap) |->
                  IF i <= s.len THEN heap[s.arr][i]
                  ELSE IF i = s.len + 1 THEN x ELSE NoTx]
  IN  IF s.len < cap
        THEN [heap |-> [heap EXCEPT ![s.arr][s.len + 1] = x],
              slice |-> [s EXCEPT !.len = @ + 1]]
        ELSE [heap |-> Append(heap, fresh),
              slice |-> [arr |-> Len(heap) + 1, len |-> s.len + 1]]

\* A variant of the next definition, one element too long.
OneTooMany(heap, s, c, copy) == [heap |-> heap, slice |-> [s EXCEPT !.len = @ + 1]]

\* Another one: found is not reset, so what follows a confirmed element goes too.
FoundStays(heap, s, c, copy) ==
  LET names == IF c.arr = 0 THEN copy ELSE Elements(heap, c)
      kept == {k \in 0..s.len : \A i \in 1..k : \A j \in DOMAIN names :
                 names[j] # Elements(heap, s)[i]}
  IN  [heap |-> heap, slice |-> [s EXCEPT !.len = CHOOSE k \in kept : k + 1 \notin kept]]

\* The loop of removeConfirmedTx over slice s: what is not confirmed moves to
\* the front of the array.  The confirmed elements are those of slice c, when
\* it is in the same heap (c.arr # 0), or the sequence copy.
WithoutConfirmed(heap, s, c, copy) ==
  LET confirmed(h, x) == IF c.arr = 0 THEN \E k \in 1..Len(copy) : copy[k] = x
                         ELSE \E k \in 1..c.len : h[c.arr][k] = x
      after[i \in 0..s.len] ==  \* after the first i elements
        IF i = 0 THEN [heap |-> heap, kept |-> 0]
        ELSE LET acc == after[i - 1]
                 x == acc.heap[s.arr][i]
             IN  IF confirmed(acc.heap, x) THEN acc
                 ELSE [heap |-> [acc.heap EXCEPT ![s.arr][acc.kept + 1] = x],
                       kept |-> acc.kept + 1]
  IN  [heap |-> after[s.len].heap, slice |-> [s EXCEPT !.len = after[s.len].kept]]

\* The loop over the polls of slice s in checkTransactions (create = FALSE: the
\* n-th valid poll must have ID next + n - 1) and checkTransactionsCreate
\* (create = TRUE: a valid poll has ID 0, and gets the next one).  Valid polls
\* move to the front of the array, while the owner of s keeps its length.
CheckedPolls(heap, s, pollID, next, Blank, create) ==
  LET after[i \in 0..s.len] ==
        IF i = 0 THEN [heap |-> heap, pollID |-> pollID, kept |-> 0]
        ELSE LET acc == after[i - 1]
                 p == acc.heap[s.arr][i]
             IN  IF /\ acc.pollID[p] = (IF create THEN 0 ELSE next + acc.kept)
                    /\ p \notin Blank
                   THEN [heap |-> [acc.heap EXCEPT ![s.arr][acc.kept + 1] = p],
                         pollID |-> [acc.pollID EXCEPT ![p] = next + acc.kept],
                         kept |-> acc.kept + 1]
                   ELSE acc
      done == after[s.len]
  IN  [heap |-> done.heap, pollID |-> done.pollID,
       slice |-> [s EXCEPT !.len = done.kept], ok |-> done.kept = s.len]
=============================================================================
