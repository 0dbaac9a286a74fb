------------------------------ MODULE HashMap ------------------------------
(***************************************************************************)
(* hacksaw/map.c.  Insertion of a key that is there overwrites its data    *)
(* and leaks the reference to the old; removal hands the map's reference   *)
(* to the caller and takes nothing off n; growth counts every item again.  *)
(***************************************************************************)
EXTENDS RefObject

CONSTANTS
    Keys, Null,
    Hash,           \* map_get_hash of each key
    Sizes,          \* first sizes
    Threshold,      \* a fraction <<numerator, denominator>>
    MaxSize         \* bound on the growth

VARIABLES
    map,            \* the table, its size and n
    refs,           \* the counts of the objects
    leaked          \* references that nobody gives back

Bucket(key, size) == Hash[key] % size

\* size * threshold, converted to an integer
ReallocAt(size) == (size * Threshold[1]) \div Threshold[2]

\* map_new
New(size) == [size |-> size, n |-> 0, table |-> [i \in 0..(size - 1) |-> <<>>]]

Init == map \in {New(size) : size \in Sizes}

\* The items, by bucket and place in it, and the data of each.
Places == UNION {{b} \X DOMAIN map.table[b] : b \in DOMAIN map.table}
Item(p) == map.table[p[1]][p[2]]
Data == [p \in Places |-> Item(p).data]

First(places) == CHOOSE i \in places : \A j \in places : i <= j

Chain(key) == map.table[Bucket(key, map.size)]
PlaceOf(key) == {i \in DOMAIN Chain(key) : Chain(key)[i].key = key}

\* map_get: the first of the bucket
Get(key) ==
    IF PlaceOf(key) = {} THEN Null ELSE Chain(key)[First(PlaceOf(key))].data

\* map_realloc to twice the size: the items of a bucket are inserted from
\* the last to the first, each at the front of one of two buckets, and
\* counted once more.
Rebucketed(chain, size, b) ==
    LET last[n \in 0..Len(chain)] ==
            IF n = 0 THEN <<>>
            ELSE LET item == chain[Len(chain) - n + 1] IN
                 IF Bucket(item.key, size) = b THEN <<item>> \o last[n - 1] ELSE last[n - 1]
    IN  last[Len(chain)]

Grown(m) ==
    [size |-> 2 * m.size, n |-> m.n + Cardinality(Places),
     table |-> [b \in 0..(2 * m.size - 1) |->
                  Rebucketed(m.table[b % m.size], 2 * m.size, b)]]

\* prv_map_insert_item
ItemInserted(m, key, o) ==
    LET b == Bucket(key, m.size)
        places == {i \in DOMAIN m.table[b] : m.table[b][i].key = key}
    IN  IF places = {}
        THEN [m EXCEPT !.n = @ + 1, !.table[b] = <<[key |-> key, data |-> o]>> \o @]
        ELSE [m EXCEPT !.table[b][First(places)].data = o]

\* map_insert
Insert(key, o) ==
    LET full == map.n + 1 >= ReallocAt(map.size) IN
    /\ full => 2 * map.size <= MaxSize
    /\ map' = ItemInserted(IF full THEN Grown(map) ELSE map, key, o)
    /\ refs' = Increased(refs, o)
    /\ leaked' = Increased(leaked, Get(key))

\* Mutant: the item after the one that is removed goes with it.
DeleteRest(key) ==
    /\ PlaceOf(key) # {}
    /\ map' = [map EXCEPT !.table[Bucket(key, map.size)] = SubSeq(@, 1, First(PlaceOf(key)) - 1)]
    /\ UNCHANGED <<refs, leaked>>

\* map_remove; the caller has the reference that was the map's.
Delete(key) ==
    /\ PlaceOf(key) # {}
    /\ map' = [map EXCEPT !.table[Bucket(key, map.size)] =
                  SubSeq(@, 1, First(PlaceOf(key)) - 1)
                      \o SubSeq(@, First(PlaceOf(key)) + 1, Len(@))]
    /\ UNCHANGED <<refs, leaked>>

\* map_free, and a new map
Renew(size) ==
    /\ map' = New(size)
    /\ refs' = AllDecreased(refs, Data)
    /\ UNCHANGED leaked

\* map_all_keys: buckets are read until n keys were found.
AllKeys ==
    LET upTo[b \in 0..map.size] ==
            IF b = 0 THEN <<>>
            ELSE LET keys == upTo[b - 1] IN
                 IF Len(keys) >= map.n THEN keys
                 ELSE keys \o [i \in DOMAIN map.table[b - 1] |-> map.table[b - 1][i].key]
    IN  upTo[map.size]

----------------------------------------------------------------------------
\* Every item is found under its key, once, and map_all_keys finds it: what n
\* counts twice and does not count out is never fewer than the items there.
KeysFound ==
    /\ \A p \in Places : Get(Item(p).key) = Item(p).data
    /\ Len(AllKeys) = Cardinality(Places)
    /\ {AllKeys[i] : i \in DOMAIN AllKeys} = {k \in Keys : Get(k) # Null}

\* An insertion, a removal and the growth that comes with either leave the
\* data of every other key what they were.
OneKeyAtATime ==
    (\E k \in Keys : \A j \in Keys \ {k} : Get(j)' = Get(j)) \/ map'.n = 0
=============================================================================
