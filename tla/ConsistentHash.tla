--------------------------- MODULE ConsistentHash --------------------------
(***************************************************************************)
(* The hash ring of MyCache/consistenthash: a Map is its sorted list of    *)
(* hashes, keys, and hashMap, which takes a hash to the peer that put it   *)
(* there.  The hash function is a parameter of Add: hash[p][i] is the hash *)
(* of strconv.Itoa(i) + p, the i-th virtual node of peer p.                *)
(***************************************************************************)
EXTENDS Integers, Sequences, SequencesExt

CONSTANTS
    Nobody,         \* the empty string that Get returns for an empty ring
    SortInts(_)     \* sort.Ints of a list

New == [keys |-> << >>, hashMap |-> << >>]

\* What sort.Ints promises: the same integers, in ascending order.
SortedVersion(t, s) ==
    /\ Len(t) = Len(s) /\ Range(t) = Range(s)
    /\ \A i, j \in 1 .. Len(t) : i < j => t[i] <= t[j]

\* Mutant: the hashes are appended and not sorted.
Sorted_Not(s) == s

\* sort.Ints, of all hashes of the ring.
Sorted(s) == SortInts(s)

\* The hashes that Add appends for a list of peers, in its order.
Hashes(hash, peers) ==
    LET n == IF peers = << >> THEN 0 ELSE Cardinality(DOMAIN hash[peers[1]])
    IN  [j \in 1 .. n * Len(peers) |-> hash[peers[((j - 1) \div n) + 1]][(j - 1) % n]]

\* Add.  A hash that is already there gets a second place in keys, and belongs
\* to the peer that was added last.
Add(m, hash, peers) ==
    LET new == Hashes(hash, peers)
        last(h) == CHOOSE i \in 1 .. Len(peers) :
                      /\ h \in Range(hash[peers[i]])
                      /\ \A j \in i + 1 .. Len(peers) : h \notin Range(hash[peers[j]])
    IN  [keys |-> Sorted(m.keys \o new),
         hashMap |-> [h \in DOMAIN m.hashMap \cup Range(new) |->
                        IF h \in Range(new) THEN peers[last(h)] ELSE m.hashMap[h]]]

\* Mutants: the first hash greater than the key's; the hash modulo the number
\* of virtual nodes.
Search_Greater(keys, h) == SelectInSeq(keys, LAMBDA k : k > h)
Search_Modulo(keys, h) == (h % Len(keys)) + 1

\* sort.Search: the first place whose hash is at least h, or 0 for none.
Search(keys, h) == SelectInSeq(keys, LAMBDA k : k >= h)

\* Get, of a key whose hash is h: past the last virtual node comes the first.
Get(m, h) ==
    IF m.keys = << >> THEN Nobody
    ELSE LET idx == Search(m.keys, h)
         IN  m.hashMap[m.keys[IF idx = 0 THEN 1 ELSE idx]]
=============================================================================
