----------------------------- MODULE AddressBook -----------------------------
(***************************************************************************)
(* The peers a node knows of: the address manager with its tables of new   *)
(* and of tried addresses, the file it is saved to, the loop that makes    *)
(* outbound connections, and the relay of addresses between neighbours.    *)
(***************************************************************************)
EXTENDS Naturals, Sequences, SequencesExt, FiniteSets, FiniteSetsExt, Functions

CONSTANTS
    Host, Source, \* addresses, and the groups of peers they are heard of from
    NewCell,      \* get_new_bucket and the position in it, by host and source
    TriedCell,    \* get_tried_bucket and the position in it, by host
    MaxIds,       \* bound on the entries that are created
    MaxRefs,      \* NEW_BUCKETS_PER_ADDRESS
    MaxCollisions,\* TRIED_COLLISION_SIZE
    MaxSince,     \* bound on changes after the tables have been saved
    MaxTears,     \* bound on crashes while the tables are being saved
    MaxPending,   \* MAX_CONCURRENT_OUTBOUND_CONNECTIONS
    Neighbour,    \* full nodes that are connected to each other
    MaxRelays     \* bound on addresses that are relayed

VARIABLES
    book,     \* map_info, new_matrix, tried_matrix, random_pos, new_count, tried_count, id_count
    collide,  \* tried_collisions
    db,       \* the tables of the store
    saving,   \* serialize: the next table to write, with the lock of the manager
    since, tears,
    dialled, dialDone, \* pending_outbound_connections; some task of pending_tasks is done
    dialWait, \* the loop waits for a task of pending_tasks
    knownBy, relayQueue, \* by node: neighbour_known_peers, addresses to relay and to how many
    posted, relays      \* respond_peers messages with one address

bookVars == <<book, collide, db, saving, since, tears>>
dialVars == <<dialled, dialDone, dialWait>>
relayVars == <<knownBy, relayQueue, posted, relays>>
addressVars == <<bookVars, dialVars, relayVars>>

Free == 0
Cells == {NewCell[h][s] : h \in Host, s \in Source}
TriedCells == Range(TriedCell)
Empty ==
    [info |-> <<>>, new |-> [c \in Cells |-> Free], tried |-> [c \in TriedCells |-> Free],
     order |-> <<>>, newCount |-> 0, triedCount |-> 0, ids |-> 0]
NoDb == [newCount |-> Free, hasKey |-> FALSE, nodes |-> <<>>, table |-> {}]

Init ==
    /\ book = Empty /\ collide = {} /\ db = NoDb /\ saving = "no" /\ since = 0 /\ tears = 0
    /\ dialled = {} /\ dialDone = FALSE /\ dialWait = FALSE
    /\ knownBy = [n \in Neighbour |-> [m \in Neighbour |-> {}]] /\ relayQueue = [n \in Neighbour |-> <<>>]
    /\ posted = {} /\ relays = 0

-----------------------------------------------------------------------------
Ids(b) == DOMAIN b.info
IdOf(b, h) == {i \in Ids(b) : b.info[i].host = h}

\* create_: an entry, with its place in random_pos.
create_(b, h, s) ==
    LET i == b.ids + 1
    IN  [b EXCEPT !.ids = i, !.order = Append(@, i),
                  !.info = [j \in Ids(b) \cup {i} |->
                              IF j = i THEN [host |-> h, src |-> s, pos |-> Len(b.order) + 1, tried |-> FALSE, refs |-> 0]
                              ELSE b.info[j]]]

swap_random_(b, p, q) ==
    [b EXCEPT !.info = [i \in Ids(b) |-> [b.info[i] EXCEPT !.pos = CASE @ = p -> q [] @ = q -> p [] OTHER -> @]],
              !.order = [k \in DOMAIN @ |-> CASE k = p -> b.order[q] [] k = q -> b.order[p] [] OTHER -> b.order[k]]]

delete_new_entry_(b, i) ==
    LET s == swap_random_(b, b.info[i].pos, Len(b.order))
    IN  [s EXCEPT !.order = Front(@), !.info = RestrictDomain(@, LAMBDA j : j # i), !.newCount = @ - 1]

\* clear_new_: the entry of a cell loses a reference, and is deleted with the last one.
clear_new_(b, c) ==
    LET i == b.new[c]
        r == [b EXCEPT !.new[c] = Free, !.info[i].refs = @ - 1]
    IN  IF i = Free THEN b ELSE IF r.info[i].refs = 0 THEN delete_new_entry_(r, i) ELSE r

\* make_tried_: the references in the table of new addresses go; the entry evicted from the
\* cell takes the place of whatever its source gives it there.
Evict(b, t) ==
    LET old == b.tried[t]
        c   == NewCell[b.info[old].host][b.info[old].src]
        out == clear_new_([b EXCEPT !.info[old].tried = FALSE, !.tried[t] = Free, !.triedCount = @ - 1], c)
    IN  IF old = Free THEN b ELSE [out EXCEPT !.info[old].refs = 1, !.new[c] = old, !.newCount = @ + 1]

make_tried_(b, i) ==
    LET t    == TriedCell[b.info[i].host]
        gone == [b EXCEPT !.new = [c \in Cells |-> IF @[c] = i THEN Free ELSE @[c]],
                          !.info[i].refs = 0, !.newCount = @ - 1]
    IN  [Evict(gone, t) EXCEPT !.tried[t] = i, !.triedCount = @ + 1, !.info[i].tried = TRUE]

\* A mutant: an entry that gets no cell is not deleted.
PlaceLeaks(b, i, s, terrible) ==
    LET c == NewCell[b.info[i].host][s]
        e == b.new[c]
        cleared == clear_new_(b, c)
    IN  IF e = i THEN b
        ELSE IF e = Free \/ terrible \/ (b.info[e].refs > 1 /\ b.info[i].refs = 0)
        THEN [cleared EXCEPT !.new[c] = i, !.info[i].refs = @ + 1]
        ELSE b

\* The end of add_to_new_table_: the cell is free, or its entry is terrible, or has others.
Place(b, i, s, terrible) ==
    LET c == NewCell[b.info[i].host][s]
        e == b.new[c]
        cleared == clear_new_(b, c)
    IN  IF e = i THEN b
        ELSE IF e = Free \/ terrible \/ (b.info[e].refs > 1 /\ b.info[i].refs = 0)
        THEN [cleared EXCEPT !.new[c] = i, !.info[i].refs = @ + 1]
        ELSE IF b.info[i].refs = 0 THEN delete_new_entry_(b, i) ELSE b

\* The manager's lock is free.
Unlocked == saving = "no" /\ (db.hasKey => since < MaxSince) /\ since' = IF db.hasKey THEN since + 1 ELSE 0

\* add_to_new_table_: an entry that is tried, or has all its references, stays as it is; others
\* may get one more, if the timestamp is news.
add_to_new_table_(h, s) ==
    /\ Unlocked
    /\ \E terrible \in BOOLEAN :
         IF IdOf(book, h) = {}
         THEN /\ book.ids < MaxIds
              /\ LET b == [create_(book, h, s) EXCEPT !.newCount = @ + 1]
                 IN  book' = Place(b, b.ids, s, terrible)
         ELSE \E i \in IdOf(book, h) :
                ~book.info[i].tried /\ book.info[i].refs < MaxRefs /\ book' = Place(book, i, s, terrible)
    /\ UNCHANGED <<collide, db, saving, tears, dialVars, relayVars>>

\* mark_good_, after a connection: with test_before_evict an occupied cell is a collision.
mark_good_(b, i) == IF b.info[i].tried THEN b ELSE make_tried_(b, i)

MarkGood(h) ==
    /\ Unlocked
    /\ \E i \in IdOf(book, h) :
         /\ ~book.info[i].tried
         /\ IF book.tried[TriedCell[h]] # Free
            THEN /\ collide' = IF Cardinality(collide) < MaxCollisions THEN collide \cup {i} ELSE collide
                 /\ UNCHANGED book
            ELSE book' = make_tried_(book, i) /\ UNCHANGED collide
    /\ UNCHANGED <<db, saving, tears, dialVars, relayVars>>

\* resolve_tried_collisions_: of an entry that is still there, either the one in its cell has
\* been reached lately, and stays, or it is evicted, or it has yet to be tested.
resolve_tried_collisions_ ==
    /\ Unlocked /\ collide # {}
    /\ \E evicts \in SUBSET (collide \cap Ids(book)) : \E stays \in SUBSET ((collide \cap Ids(book)) \ evicts) :
         /\ book' = FoldSeq(LAMBDA i, b : IF i \in Ids(b) THEN mark_good_(b, i) ELSE b, book, SetToSeq(evicts))
         /\ collide' = (collide \cap Ids(book)) \ (evicts \cup stays)
    /\ UNCHANGED <<db, saving, tears, dialVars, relayVars>>

\* cleanup: cells whose entry is old and fails are cleared.
cleanup ==
    /\ Unlocked
    /\ \E old \in SUBSET {c \in Cells : book.new[c] # Free} :
         /\ old # {} /\ book' = FoldSeq(LAMBDA c, b : clear_new_(b, c), book, SetToSeq(old))
    /\ UNCHANGED <<collide, db, saving, tears, dialVars, relayVars>>

\* get_peers_ shuffles the start of random_pos.
get_peers_ ==
    /\ Unlocked /\ \E p \in 2..Len(book.order) : book' = swap_random_(book, 1, p)
    /\ UNCHANGED <<collide, db, saving, tears, dialVars, relayVars>>

-----------------------------------------------------------------------------
\* serialize: new entries are numbered from 0, then those that are tried.
NewIds(b) == SetToSortSeq({i \in Ids(b) : b.info[i].refs > 0}, <)
TriedIds(b) == SetToSortSeq({i \in Ids(b) : b.info[i].tried}, <)
NodesOf(b) ==
    [k \in 1..(Len(NewIds(b)) + Len(TriedIds(b))) |->
       LET i == (NewIds(b) \o TriedIds(b))[k] IN [host |-> b.info[i].host, src |-> b.info[i].src]]
TableOf(b) ==
    {<<CHOOSE k \in DOMAIN NewIds(b) : NewIds(b)[k] = b.new[c], c>> : c \in {d \in Cells : b.new[d] # Free}}

Saved(b) == [hasKey |-> TRUE, newCount |-> Len(NewIds(b)), nodes |-> NodesOf(b), table |-> TableOf(b)]

\* deserialize: the count of new entries is that of the metadata.
Loaded(d) ==
    LET n     == Min({d.newCount, Len(d.nodes)})
        infos == [k \in DOMAIN d.nodes |->
                    [host |-> d.nodes[k].host, src |-> d.nodes[k].src, pos |-> k, tried |-> k > d.newCount,
                     refs |-> Cardinality({e \in d.table : e[1] = k})]]
        b     == [info |-> infos, order |-> [k \in DOMAIN d.nodes |-> k], ids |-> Len(d.nodes),
                  newCount |-> d.newCount, triedCount |-> Len(d.nodes) - n,
                  new |-> [c \in Cells |-> LET at == {e \in d.table : e[2] = c}
                                           IN  IF at = {} THEN Free ELSE (CHOOSE e \in at : TRUE)[1]],
                  tried |-> [t \in TriedCells |->
                               LET at == {k \in DOMAIN d.nodes : k > d.newCount /\ TriedCell[d.nodes[k].host] = t}
                               IN  IF at = {} THEN Free ELSE Min(at)]]
    IN  FoldSeq(LAMBDA k, r : delete_new_entry_(r, k), b,
                SetToSeq({k \in DOMAIN infos : ~infos[k].tried /\ infos[k].refs = 0}))

\* _periodically_serialize, with the lock: every table is committed on its own.
Serialize ==
    /\ CASE saving = "no"    -> Ids(book) # {} /\ saving' = "meta" /\ db' = NoDb
         [] saving = "meta"  -> saving' = "nodes" /\ db' = [db EXCEPT !.hasKey = TRUE, !.newCount = Saved(book).newCount]
         [] saving = "nodes" -> saving' = "table" /\ db' = [db EXCEPT !.nodes = Saved(book).nodes]
         [] saving = "table" -> saving' = "no" /\ db' = [db EXCEPT !.table = Saved(book).table]
    /\ since' = 0 /\ UNCHANGED <<book, collide, tears, dialVars, relayVars>>

is_empty == ~db.hasKey \/ (db.newCount = 0 /\ Len(db.nodes) = 0)

\* initialize_address_manager: the node starts again, perhaps after a crash in serialize.
Restart ==
    /\ saving # "no" => tears < MaxTears /\ db # Saved(book)
    /\ tears' = IF saving = "no" THEN tears ELSE tears + 1
    /\ saving' = "no" /\ since' = 0 /\ collide' = {} /\ book' = IF is_empty THEN Empty ELSE Loaded(db)
    /\ UNCHANGED <<db, dialVars, relayVars>>

BookNext ==
    \/ \E h \in Host : MarkGood(h) \/ \E s \in Source : add_to_new_table_(h, s)
    \/ resolve_tried_collisions_ \/ cleanup \/ get_peers_ \/ Serialize \/ Restart

-----------------------------------------------------------------------------
\* select_peer_: an entry of the new table, or for other than feelers of either.
select_peer_(feeler) ==
    {book.info[i].host : i \in (Range(book.new) \cup (IF feeler THEN {} ELSE Range(book.tried))) \ {Free}}

\* select_tried_collision_: the entry that would be evicted is tested first.
select_tried_collision_ ==
    {book.info[book.tried[TriedCell[book.info[i].host]]].host : i \in collide \cap Ids(book)}

\* _connect_to_peers: with the limit reached, one task of pending_tasks is waited for; tasks
\* that are done stay in that set.
_connect_to_peers(h) ==
    /\ h \notin dialled /\ ~dialWait
    /\ \E feeler \in BOOLEAN : h \in select_peer_(feeler) \cup select_tried_collision_
    /\ IF Cardinality(dialled) >= MaxPending /\ ~dialDone THEN dialWait' = TRUE /\ UNCHANGED dialled
       ELSE dialled' = dialled \cup {h} /\ UNCHANGED dialWait
    /\ UNCHANGED <<dialDone, bookVars, relayVars>>

\* The connection is made or fails; what the manager is told of it is MarkGood.
start_client_async(h) ==
    /\ h \in dialled /\ dialled' = dialled \ {h} /\ dialDone' = TRUE /\ dialWait' = FALSE
    /\ UNCHANGED <<bookVars, relayVars>>

DialNext == \E h \in Host : _connect_to_peers(h) \/ start_client_async(h)

\* The number of connections that are being made is within its limit, by the log message "Max
\* concurrent outbound connections reached. waiting".
DialsBounded == Cardinality(dialled) <= MaxPending

-----------------------------------------------------------------------------
Others(n) == Neighbour \ {n}

\* What a neighbour knows it is not sent.
Learns(n, m, h) == knownBy' = [knownBy EXCEPT ![n][m] = @ \cup {h}]

\* respond_peers, of one fresh address: the sender knows it, two neighbours may have to be told.
\* Its additions to the tables are add_to_new_table_.
respond_peers(m, n, h) ==
    /\ <<m, n, h>> \in posted /\ posted' = posted \ {<<m, n, h>>}
    /\ Learns(n, m, h) /\ relayQueue' = [relayQueue EXCEPT ![n] = Append(@, <<h, 2>>)]
    /\ UNCHANGED <<relays, bookVars, dialVars>>

\* on_connect: the address of an inbound peer may have to be told to one neighbour.
on_connect(n, h) ==
    /\ relays < MaxRelays /\ relays' = relays + 1
    /\ relayQueue' = [relayQueue EXCEPT ![n] = Append(@, <<h, 1>>)]
    /\ UNCHANGED <<knownBy, posted, bookVars, dialVars>>

\* request_peers: the neighbour that asks knows the addresses it is sent.
request_peers(n, m) ==
    /\ \E h \in Host : h \notin knownBy[n][m] /\ Learns(n, m, h)
    /\ UNCHANGED <<relayQueue, posted, relays, bookVars, dialVars>>

\* _periodically_self_advertise_and_clean_data
SelfAdvertise(n, h) ==
    /\ relays < MaxRelays /\ relays' = relays + 1
    /\ knownBy' = [knownBy EXCEPT ![n] = [m \in Neighbour |-> {}]]
    /\ posted' = posted \cup {<<n, m, h>> : m \in Others(n)}
    /\ UNCHANGED <<relayQueue, bookVars, dialVars>>

\* A mutant: an address goes to all neighbours, also those that know it.
RelayToAll(n) ==
    /\ relayQueue[n] # <<>> /\ relayQueue' = [relayQueue EXCEPT ![n] = Tail(@)]
    /\ LET h == Head(relayQueue[n])[1]
       IN  /\ posted' = posted \cup {<<n, m, h>> : m \in Others(n)}
           /\ knownBy' = [knownBy EXCEPT ![n] = [m \in Neighbour |-> @[m] \cup {h}]]
    /\ UNCHANGED <<relays, bookVars, dialVars>>

\* _address_relay: the one or two neighbours whose hashes are least, if they do not know it.
_address_relay(n) ==
    /\ relayQueue[n] # <<>> /\ relayQueue' = [relayQueue EXCEPT ![n] = Tail(@)]
    /\ \E least \in SUBSET Others(n) :
         LET h  == Head(relayQueue[n])[1]
             to == {m \in least : h \notin knownBy[n][m]}
         IN  /\ Cardinality(least) = Min({Head(relayQueue[n])[2], Cardinality(Others(n))})
             /\ knownBy' = [knownBy EXCEPT ![n] = [m \in Neighbour |-> IF m \in to THEN @[m] \cup {h} ELSE @[m]]]
             /\ posted' = posted \cup {<<n, m, h>> : m \in to}
    /\ UNCHANGED <<relays, bookVars, dialVars>>

Relaying ==
    \E n \in Neighbour : _address_relay(n) \/ \E m \in Others(n), h \in Host : respond_peers(m, n, h)

RelayNext ==
    \/ Relaying
    \/ \E n \in Neighbour, h \in Host : on_connect(n, h) \/ SelfAdvertise(n, h)
    \/ \E n \in Neighbour : \E m \in Others(n) : request_peers(n, m)

Next == BookNext \/ DialNext \/ RelayNext

Spec == Init /\ [][Next]_addressVars

-----------------------------------------------------------------------------
\* The tables of the address manager agree, after any sequence of additions, successes,
\* evictions, clean-ups and restarts: an entry is tried and in its cell, or is referred to as
\* often as it counts; the counts are those of the entries; and each has its place in
\* random_pos.  The assertions of make_tried_ and clear_new_ follow, and that
\* select_tried_collision_ finds the entry that would be evicted.
BookSound ==
    LET Refs(i) == {c \in Cells : book.new[c] = i}
    IN  /\ \A i \in Ids(book) :
             LET e == book.info[i]
             IN  /\ e.refs = Cardinality(Refs(i)) /\ (e.tried <=> e.refs = 0)
                 /\ e.tried <=> book.tried[TriedCell[e.host]] = i
                 /\ e.pos \in DOMAIN book.order /\ book.order[e.pos] = i /\ IdOf(book, e.host) = {i}
        /\ Len(book.order) = Cardinality(Ids(book))
        /\ (Range(book.new) \cup Range(book.tried)) \ {Free} \subseteq Ids(book)
        /\ book.triedCount = Cardinality({i \in Ids(book) : book.info[i].tried})
        /\ tears = 0 => book.newCount = Cardinality({i \in Ids(book) : ~book.info[i].tried})
        /\ \A i \in collide \cap Ids(book) : book.tried[TriedCell[book.info[i].host]] # Free

\* The counts are those of the entries also after a crash while the tables were being saved:
\* all but the tables of the store "can be deduced ... instead it is recalculated", but the
\* count of new entries is read from the metadata, which are committed before the entries.
CountRecalculated == book.newCount = Cardinality({i \in Ids(book) : ~book.info[i].tried})

Entries(b) == {<<b.info[i].host, b.info[i].src, b.info[i].tried, {c \in Cells : b.new[c] = i}>> : i \in Ids(b)}

\* What is saved is what is loaded: the same entries, tried or referred to from the same cells.
SaveRestores == Entries(Loaded(Saved(book))) = Entries(book)

\* An address is not relayed for ever: nodes that are all neighbours of each other, and that
\* send an address on whenever they are sent it, stop once each knows who knows it, also when
\* some of them forget that for a new day.
NothingToRelay == posted = {} /\ \A n \in Neighbour : relayQueue[n] = <<>>
=============================================================================
