-------------------------- MODULE IncrementRestore --------------------------
(***************************************************************************)
(* The way back, of lib/live-backup.js: mergeIncrements() lays a set of    *)
(* increments over a base, assertContiguous() refuses a chain with holes   *)
(* or with a number twice, and joinIncrements() or restoreFromIncrements() *)
(* put the blocks in place and join the heads.  The increments are those   *)
(* that LiveBackup uploads; S is a set of their ids, in the order of their *)
(* sequence numbers once merged, and base the entries of the full backup.  *)
(***************************************************************************)
EXTENDS LiveBackup

Numbers(S) == {blobs[i].sequence : i \in S}

\* The numbers between two that are there.
Gaps(S) ==
  {n \in 1..Len(blobs) : /\ n \notin Numbers(S)
                         /\ \E m \in Numbers(S) : m < n
                         /\ \E m \in Numbers(S) : m > n}

Duplicates(S) == {blobs[i].sequence : i \in {j \in S :
                    \E k \in S \ {j} : blobs[k].sequence = blobs[j].sequence}}

\* assertContiguous(), without allowGaps.
Accepted(S) == Gaps(S) = {} /\ Duplicates(S) = {}

\* The union of the blocks, and every source's heads: a join is a merge.
Blocks(S, base) == base \cup UNION {blobs[i].entries : i \in S}
HeadsOf(S)      == UNION {blobs[i].heads : i \in S}

\* Every head named is found and joined with everything behind it; otherwise the
\* join searches the network for blocks that nobody has.
Restores(S, base) == Past(HeadsOf(S)) \subseteq Blocks(S, base)

-----------------------------------------------------------------------------
\* The chain that a state names, the one in the store or the one in memory, is
\* numbered from 1 without hole or duplicate, so a restore is not refused, and it
\* brings back everything that this state passes over.  Failed uploads, refused
\* pins, and a crash between the upload and the save leave increments beside the
\* chain, never in it.
NamedChainRestores ==
  \A s \in saved \cup {state} : s.previous # 0 =>
    LET S == Chain(s.previous) IN
    /\ Accepted(S) /\ Numbers(S) = 1..s.sequence
    /\ Restores(S, {})
    /\ \A d \in Db : Past(s.heads[d]) \subseteq Blocks(S, {})

=============================================================================
