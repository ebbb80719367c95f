----------------------------- MODULE MCKzgBatch -----------------------------
(***************************************************************************)
(* Instance of KzgBatch for TLC: the field of five elements, whose         *)
(* multiplicative group has order four, so that blobs have domains of one, *)
(* two and four points.  One blob of any shape at a time, and pairs of     *)
(* blobs of different lengths with errors that may cancel.                 *)
(***************************************************************************)
EXTENDS KzgBatch

MCRoots == <<1, 4, 2>>

Whole(chunks) == [chunks |-> chunks, rest |-> 0]
Item(blob, c, p) == [blob |-> blob, error |-> [commitment |-> c, proof |-> p]]
Request(items) ==
    [items |-> items, commitments |-> Len(items), proofs |-> Len(items)]

\* Every blob of one or two elements, many of three and four.
Blobs ==
    {Whole(b) : b \in UNION {[1..n -> 0..4] : n \in 0..2}
                        \cup [1..3 -> {0, 1, 3}] \cup [1..4 -> {0, 2}]}

\* Too long, not whole, an element that is out of range.
BadBlobs ==
    {Whole(<<1, 2, 3, 4, 1>>), [chunks |-> <<1, 2>>, rest |-> 1], Whole(<<1, 7>>)}

PairBlobs == {Whole(<<3>>), Whole(<<1, 2>>), Whole(<<1, 2, 4>>)}

Pairs ==
    {<<Item(a, c, p), Item(b, d, q)>> :
        a \in PairBlobs \cup {Whole(<< >>)}, b \in PairBlobs,
        c \in {0, 1}, p \in {0, 4}, d \in {0, 2}, q \in {0, 1}}

MCRequests ==
    {Request(<< >>)}
      \cup {Request(<<Item(b, c, p)>>) : b \in Blobs, c \in {0, 3}, p \in {0, 1}}
      \cup {Request(<<Item(b, 1, 1)>>) : b \in BadBlobs}
      \cup {Request(pair) : pair \in Pairs}
      \cup {[Request(<<Item(Whole(<<1, 2>>), 0, 0)>>) EXCEPT ![f] = 0] :
              f \in {"commitments", "proofs"}}

\* A blob of one element: its polynomial is constant, its proof is infinity.
MCShortRequests == {Request(<<Item(Whole(<<a>>), 0, 0)>>) : a \in Fr \ {0}}

=============================================================================
