------------------------------- MODULE Merkle -------------------------------
(***************************************************************************)
(* The commitments a snapshot publishes: the tree of lib/merkle.ts over    *)
(* the leaves of lib/merkleCore.ts, the proof published with each leaf,    *)
(* and the check a browser makes of it (lib/merkleVerify.ts, from the      *)
(* badge of components/BeaconNotarised.tsx).  SHA-256 is symbolic: a hash  *)
(* is what was hashed, so two hashes are equal only if that is.            *)
(***************************************************************************)
EXTENDS Integers, Sequences, FiniteSets, SequencesExt

CONSTANTS
    Key,        \* what identifies a row, in the order rows are sorted
    Decision,   \* what may be committed of it
    Unread

ASSUME MerkleAssumption == Key \subseteq Int /\ IsFiniteSet(Key)

\* What is committed of a row: its key and what was decided, and not the figures
\* that move (liquidity, volume, trades).
canonicalLeaf(row) == [key |-> row.key, decided |-> row.decided]

(* A fault: the leaf forgets what was decided of the pair. *)
canonicalLeafUndecided(row) == [key |-> row.key]

leafHashOf(preimage) == <<"leaf", preimage>>
hashNode(a, b) == <<"node", a, b>>

---------------------------------------------------------------------------
(* The tree. *)

(* A fault: the rows are committed as the database returned them. *)
entriesUnsorted(rows) == [i \in DOMAIN rows |-> leafHashOf(canonicalLeaf(rows[i]))]

\* How many rows are sorted no later than the j-th; of one key, the first comes first.
Place(rows, j) ==
    Cardinality({i \in DOMAIN rows : \/ rows[i].key < rows[j].key
                                     \/ rows[i].key = rows[j].key /\ i <= j})

\* Sorted by key; rows of one key stay in the order they came in.
entries(rows) ==
    [n \in DOMAIN rows |->
        leafHashOf(canonicalLeaf(rows[CHOOSE j \in DOMAIN rows : Place(rows, j) = n]))]

(* A fault: the odd one out moves up as it is. *)
NextLevelPromoting(level) ==
    [i \in 1 .. (Len(level) + 1) \div 2 |->
        IF 2 * i <= Len(level) THEN hashNode(level[2 * i - 1], level[2 * i])
        ELSE level[2 * i - 1]]

\* Pairs are hashed; the last of an odd level with itself.
NextLevel(level) ==
    [i \in 1 .. (Len(level) + 1) \div 2 |->
        hashNode(level[2 * i - 1], level[IF 2 * i <= Len(level) THEN 2 * i ELSE 2 * i - 1])]

Level(leaves, n) ==
    LET level[k \in 0 .. n] == IF k = 0 THEN leaves ELSE NextLevel(level[k - 1])
    IN level[n]

\* Levels are added until one has a single node.
Height(leaves) ==
    CHOOSE n \in 0 .. Len(leaves) :
        /\ Len(Level(leaves, n)) <= 1
        /\ \A m \in 0 .. n - 1 : Len(Level(leaves, m)) > 1

EmptyRoot == <<>>
rootOf(leaves) ==
    IF leaves = <<>> THEN EmptyRoot ELSE Level(leaves, Height(leaves))[1]

\* The sibling at every level, and the side it is on; a level's last node may be
\* its own.
proofForIndex(leaves, index) ==
    LET idx[k \in 0 .. Height(leaves)] == IF k = 0 THEN index ELSE (idx[k - 1] + 1) \div 2
        sibling(k) == IF idx[k] % 2 = 0 THEN idx[k] - 1
                      ELSE IF idx[k] < Len(Level(leaves, k)) THEN idx[k] + 1 ELSE idx[k]
    IN [k \in 1 .. Height(leaves) |->
           [hash |-> Level(leaves, k - 1)[sibling(k - 1)],
            position |-> IF idx[k - 1] % 2 = 0 THEN "left" ELSE "right"]]

\* The preimages are kept by key: of the rows of one key, the last one's.
preimageFor(rows, key) ==
    canonicalLeaf(rows[CHOOSE j \in DOMAIN rows :
        rows[j].key = key /\ \A h \in j + 1 .. Len(rows) : rows[h].key # key])

\* What the endpoint answers for one item; findLeaf takes the first of its key.
Published(rows) ==
    LET leaves == entries(rows)
        key(i) == leaves[i][2].key
    IN {[preimage |-> preimageFor(rows, key(i)), proof |-> proofForIndex(leaves, i),
         root |-> rootOf(leaves)] :
            i \in {j \in DOMAIN leaves : \A h \in 1 .. j - 1 : key(h) # key(j)}}

---------------------------------------------------------------------------
(* The check in the browser. *)

traceLeafPreimage(preimage, proof) ==
    LET h[k \in 0 .. Len(proof)] ==
          IF k = 0 THEN leafHashOf(preimage)
          ELSE IF proof[k].position = "left" THEN hashNode(proof[k].hash, h[k - 1])
          ELSE hashNode(h[k - 1], proof[k].hash)
    IN h[Len(proof)]

verifyLeafPreimage(preimage, proof, root) ==
    root # EmptyRoot /\ traceLeafPreimage(preimage, proof) = root

---------------------------------------------------------------------------
(* What the root is worth. *)

\* Every way the database may hold some of the keys, decided one way or another.
Facts == UNION {[keys -> Decision] : keys \in SUBSET Key}

\* The rows of these facts as a query may return them.
Answers(facts) ==
    {[i \in DOMAIN order |-> [key |-> order[i], decided |-> facts[order[i]], liquidity |-> i]] :
        order \in SetToSeqs(DOMAIN facts)}

VARIABLE facts  \* what the snapshot at hand commits to, if it has been read

\* A snapshot is of the rows read for it.
SnapshotInit == facts \in Facts \cup {Unread}
SnapshotSpec == SnapshotInit /\ [][UNCHANGED facts]_facts

\* The root depends on the committed facts and on nothing else: not on the order
\* of the query's answer nor on the figures that move, and no two sets of facts
\* share one (lib/merkle.ts:39-66, an anchor that matches the feed it was made of).
RootIsDetermined ==
    LET roots(f) == {rootOf(entries(rows)) : rows \in Answers(f)}
        aRoot(f) == rootOf(entries(CHOOSE rows \in Answers(f) : TRUE))
    IN facts # Unread =>
       /\ roots(facts) = {aRoot(facts)}
       /\ \A others \in Facts : aRoot(others) = aRoot(facts) => others = facts

\* Every item of a published tree has a proof that the browser accepts against
\* its root, and rejects for the item decided otherwise (lib/merkleVerify.ts:45-58,
\* lib/merkle.ts:69-83, the duplicated last node of an odd level).
ProofsVerify ==
    LET rows == CHOOSE answer \in Answers(facts) : TRUE
        leaves == Published(rows)
    IN facts # Unread =>
       /\ {leaf.preimage.key : leaf \in leaves} = DOMAIN facts
       /\ \A leaf \in leaves : verifyLeafPreimage(leaf.preimage, leaf.proof, leaf.root)
       /\ \A leaf \in leaves, d \in Decision :
            verifyLeafPreimage([leaf.preimage EXCEPT !.decided = d], leaf.proof, leaf.root)
                => d = leaf.preimage.decided
=============================================================================
