# PNEUMA-DB in TLA+

TLA+ specifications of PNEUMA-DB (`src/`): a key-value store kept in SQLite on
every node, a table layer and an SQL engine over it, and a distributed
interface that routes keys by consistent hashing to nodes that talk through a
WebSocket relay (or, in the mesh, through sound).  TLC checks each
specification on a small instance; TLAPS proves every safety property the runs
check, and the refinement of the store to a map, for every value of the constants.

`PROJECT.json` lists the components, the runs, the mutants that show each
property can be broken, the map from definitions to source lines, the findings,
the hazards and the theorems.

## 1. The system

### 1.1 Components

| Component | Source | State it keeps | Operations | Status |
|---|---|---|---|---|
| Local store | `pneuma_db/db.py:89-218` | one SQLite connection shared by all threads, a lock; a table of rows (value, expires_at), among them a counter row `_seq:<table>` per table | `put`, `get` (with lazy delete), `delete`, `cas`, `scan_prefix`, `next_id`, `count`, `expire_old` | modelled |
| Table ORM | `db.py:222-288` | rows `<table>:<id>`, the id list `_ids:<table>`, optional index rows | `insert`, `find`, `all`, `where`, `find_by`, `update`, `delete`, `add_index`, `count` | partly |
| Hash ring, peers | `pneuma_db/node.py` | `_ring`, `_sorted_keys`, `known_nodes` | `add_node`, `remove_node`, `get_node`, `get_nodes`, `add_peer`, `remove_peer` | modelled |
| Distributed interface | `db.py:291-573` | `_pending` futures by request id, the node's store, ring and sessions | `put`, `get`, `delete`, `cas`, `_replicate`, `_send_and_wait`, the packet and peer handlers | partly |
| Relay server | `pneuma_db/relay_server.py` | `_nodes`, counters; one coroutine per connection | register, announce, forward, broadcast, clean up; PING, PEERS, STATS | partly |
| Relay client | `pneuma_db/relay_client.py` | `_connected`, a send queue | connect, reconnect, send, receive | partly (environment of the two above) |
| Sessions, key exchange | `pneuma_db/crypto.py`, `node.py`, `pneuma_mesh/mesh_node.py:168-203` | keys per peer | initiate, accept, complete; encrypt, decrypt | partly |
| SQL store | `pneuma_sql/sql_engine.py:499-748` | schemas, rows, index rows, sequences in a key-value store; a schema cache per connection | create and drop table, create index, insert, select, update, delete | partly |
| SQL parser, DB-API | `sql_engine.py`, `pneuma_sql/__init__.py` | none, cursor | parse, execute, fetch | partly: WHERE clauses |
| Mesh node | `pneuma_mesh/mesh_node.py` | sessions, ring, outbox, `_pending`, `_replies` | discovery callback, transmit, receive, prune; remote put/get/delete/cas, key exchange | partly |
| Discovery | `pneuma_mesh/discovery.py` | known peers, keys, last seen | beacon, absorb, prune | partly: without timing |
| TDMA | `pneuma_mesh/tdma.py` | node list, slot | add, remove, slot timing | partly: without timing |
| Framing | `pneuma_db/framing.py` | reassembly buffers | fragment, feed, expire | partly: without the transport's timing |
| Error correction | `error_correction.py` | none | a wrapper of reedsolo | not modelled: external library |
| Acoustic transport | `transport.py` | sound-card buffers | FSK modulation | not modelled: signal processing |
| REST server, CLI, launcher, dashboard | `server.py`, `cli.py`, `pneuma_mesh/run.py`, `tui.py` | none of their own | pass calls on | not modelled: I/O |

### 1.2 How they interact

- Application threads (among them the thread pool of the REST server) call
  `PNEUMA_DB`; each call either uses the node's `LocalStore` or schedules a
  coroutine on the node's event loop and blocks for its result.
- The event loop sends encrypted requests through `RelayClient`, handles the
  packets that arrive, and resolves the futures in `_pending`.
- The relay forwards packets by node id and tells the clients who joins and
  leaves; those messages change a node's ring and sessions.
- The ring decides where a key lives; two nodes agree on a key's owner only if
  they know the same peers.
- `Table` and the SQL store are sequences of `put`/`get`/`delete` calls; nothing
  makes such a sequence atomic.
- In the mesh every node runs five threads: discovery's beacon and listen loops,
  the node's transmit, receive and prune loops.  The listen and the receive loop
  both handle beacons.  Discovery's lock covers its own lists only, not the ring
  or the sessions, which its callback and the prune loop change.
- The schedule decides who listens when, and is computed by each node from the
  peers it happens to know.
- Messages of the mesh go through the framer, the node's outbox, the air and the
  reassembly buffer of everyone who listens.

### 1.3 What is hard, and what would make it correct

| Part | Hard | Correct means |
|---|---|---|
| Local store | a lock per statement, not per operation; `get` acts on a stale row; a failed commit leaves an open transaction that the next commit completes; crashes | an acknowledged write survives; ids are never repeated; every call takes effect at one instant |
| Table | read-modify-write of the id list and of records; a `put` that fails and is ignored; crashes between row and list | a record is wrong only through its own calls; no id listed twice |
| Ring | virtual nodes, wrap-around, add and remove in any order | the ring depends on membership only; a change moves as few keys as possible |
| Relay | handlers interleave at every await; a broken connection's cleanup runs after the node is back, or without its handler having registered | the table names live handlers; the counter counts them; what clients are told of one another settles |
| Distributed interface | lost, late and overtaking packets, timeouts, sessions and rings that change under way, falling back to the local store | answers reach their own call; futures are freed; a cas is won once; replicas follow; every call returns |
| Mesh | every node schedules by its own list; transitive discovery without ring or session; pruning in several steps beside discovery; key exchanges that cross | rings follow discovery; nodes hear one another; the same keys on both sides |
| Framing | loss, messages of one sender interleaved, same fragment counts, expiry | a message that is put together is one that was sent, once |
| SQL | check-then-write of UNIQUE, index rows left behind, cached schemas, ids counted by connections with a lock each, statements of several writes, failed puts, crashes | tables hold what the statements say; UNIQUE and AUTOINCREMENT hold |

`PROJECT.json` gives these hazards line by line with the properties that cover
them.

## 2. The modules

| Module | Models | State | Actions |
|---|---|---|---|
| `KVMap` | what the local store promises: a map without clock, rows or phases, in which a completed write is durable and only a key once given a time to live may be forgotten | `dict`, `durable`, `volatile`, `view`, `answer` | `Put`, `Delete`, `Cas`, `NextId`, reads, `Forget`, `Crash` |
| `LocalStore` | `db.py:89-218` | `store` (what the shared connection sees), `disk`, `now`, `call`, `answer`; history `volatile`, `acked`, `issued` | `PutBegin`, `PutCommit`, `GetSelect`, `GetCheck`, `GetPurge`, `Delete`, `Cas`, `NextId`, `ExpireOld`, `Tick`, `Crash` |
| `LocalStoreProofs` | proofs | | |
| `TableORM` | `insert`, `update`, `delete` of `db.py:222-288` in LOCAL mode | `store`, `disk` (rows, id list, which rows expire), `call`, `faults`; history `wanted` | one per store call: `InsertPut`, `InsertList`, `InsertWrite`, `DeleteRow`, `DeleteList`, `DeleteWrite`, `ListFails`, `UpdateFind`, `UpdateSave`; `FindExpired`, `Purge`; `Crash` |
| `TableProofs` | proofs | | |
| `HashRing` | `node.py:26-88`, `287-297` | `spots` (where the hash puts each node's points), `known`, `ring` | `AddPeer`, `RemovePeer`; `GetNode`, `GetNodes` are operators |
| `HashRingProofs` | proofs | | |
| `RelayServer` | `relay_server.py:70-259`, with the clients as environment | per connection `pc`, `who`, `open`, `todo`; `nodes`, `active`; what the clients have been sent `present`, `strays`; history `lost`, `uncounted` | one per stretch of a handler between two waits: `Register`, `RejectKey`, `JoinBegin`, `JoinTell`, `Forward`, `CastBegin`, `CastOne`, `Cleanup`, `LeaveTell`, `GiveUp`; the client's `Connect`, `Break` |
| `RelayServerProofs` | proofs | | |
| `PneumaDB` | `db.py:291-573` | `store`, `known`, `session`, `online`, `net`, `pending`, `call`, `made`; history `fate`, `got`, `swaps`, `erased`, `untidy` | `PutStart`, `GetStart`, `DeleteStart`, `CasStart`, `Replicate`, `Send`, `HandleRequest`, `HandleAnswer`, `Unreadable`, `Timeout`, `Lose`, `PeerJoined`, `PeerLeft`, `SwitchOnline` |
| `PneumaDBProofs` | proofs | | |
| `SQLWhere` | WHERE clauses: `_parse_literal`, `_parse_where`, `_parse_condition`, `RowEvaluator.match`, beside what SQL says of them | none | operators: `Literal`, `Holds`, `Match`; reference: `SQLHolds`, `SQLTrue` |
| `SQLStore` | `PneumaSQLStore` and what `Cursor` does with it | `schema`, `rows`, `index`, `seq` (rows of the key-value store), `cache`, `call`; history `wanted`, `gone`, `spoilt`, `doubtful`, `liberties` | one per call of the store, two for `next_id`: `Create`, `CreatePut`; `Insert`, `ReadSeq`, `NextId`, `Check`, `Refuse`, `StoreRow`, `IndexRow`; `Update`, `UpdateScan`, `Delete`, `DeleteScan`, `ChangeRow`; `Drop`, `DropScan`, `ClearRow`, `DropSchema`, `ScanIndex`, `UnindexRow`, `ForgetSchema`; `CreateIndex`, `AlterSchema`, `BuildScan`, `BuildRow`; `Fail`, `Crash` |
| `SQLStoreProofs` | proofs | | |
| `Framing` | `framing.py`, and the outbox, transmit and receive paths of `mesh_node.py:205-340` | `queueing`, `outbox`, `packets`, `age`; history `handed`, `sent`, `returned`, `lost`, `causes` | `Begin`, `Put`, `Lose`, `Receive`, `Tick` |
| `FramingProofs` | proofs | | |
| `Mesh` | `tdma.py`, `discovery.py`, and the ring, callback and prune loop of `mesh_node.py` | `clock`; per node `tdma`, `known`, `seen`, `ring`, `job`, `pruner`; `dead`; history `seed`, `causes` | `NextSlot`, `Hear`, `Meet`, `Absorb`, `FallSilent`, `PruneStale`, `PruneOne`, `PruneDies` |
| `MeshProofs` | proofs | | |
| `MC*` | the instances and their symmetry | | |

Choices that hold throughout:

- An action runs from one point where another thread, coroutine or process may
  come in to the next.  In the local store that is acquiring the lock; in the
  relay an `await`; in the distributed interface a call of the store, scheduling
  a coroutine, or waiting for a future.
- Values, keys, nodes and connections are model values.  What a property does
  not tell apart (timestamps, encodings, log lines) is left out.
- Variables called history in a module do not influence its steps; they remember
  what the properties speak of.

**LocalStore.**  `store` is what the shared connection shows, `disk` what a crash
leaves.  A block under the lock is one step.  A statement that fails may not
have run, may have run and stay in the connection's open transaction (so that
every thread sees it and the next commit makes it durable), or may have been
rolled back with the transaction (`Fail`).  `put` reads the clock before it takes
the lock (`PutBegin`, `PutCommit`); `get` releases the lock before it looks at the
clock, and deletes in a step of its own (`GetSelect`, `GetCheck`, `GetPurge`).
`KVMap` describes a read that spans those steps by the value it saw (`view`); the
refinement maps `dict` and `durable` to the values in `store` and `disk`.

**TableORM.**  Every `self.db.put/get/delete` is one step (justified by
`LocalStore` and its refinement of `KVMap`), and each may fail: a `put` returns
False, which `insert` and `delete` ignore, so that the method goes on; a `get` or a
`delete` raises, and the method ends there.  What a failed statement leaves in
`store` (the shared connection's view) and `disk` is as in `LocalStore`.  A crash
falls between any two steps.  The history variable `wanted` says what each record
should be: what its calls made it, `Expiring` once it has a time to live, and
`Doubtful` from the moment one of its calls fails, is cut by a crash or overlaps
another method, until an insert or a delete that does none of these puts it right.
`SettledRecordsAreKept` is about every record that is not doubtful, whatever
happens to the records beside it: their overlapping calls write the list from stale
copies, their rolled-back transactions undo what nobody committed.
`NoDuplicateIds` holds without any premise.

**HashRing.**  MD5 is an arbitrary placement without collisions: the initial
states range over all of them.  A key is its position.  The wrap-around of `get_node` and the walk of
`get_nodes` are translated as they stand.

**RelayServer.**  A connection number is used once; a node that reconnects takes a
new one.  A HELLO whose public key is no hexadecimal text raises after `node_id`
is set and before anything is registered (`RejectKey`): the finally block then runs
for a handler that never registered, pops whatever registration its node has and
counts down.  (`RelayClient` sends no such HELLO; another client may.)
`uncounted` remembers those handlers: `ActiveCounts` says that the counter falls
short of the handlers in service by exactly their number, so that it may go below
zero.  `lost` remembers the handlers whose node another handler has
registered, dropped or refused since: `ServedIsRegistered` says that a served node
is reached by its handler exactly when that has not happened, at any pace of
reconnection.  `reconnect` (chosen at the start, never changed) limits when a node
may come back: `"anytime"`, only after its old handler has `"unregistered"` it,
or only after it has `"finished"`.  The code enforces none of these; the two
properties about what clients are told, `ToldBeforeHeard` and `PresenceSettles`,
need `"finished"`: with `"unregistered"`, TLC finds the late PEER_LEFT of the old
connection overtaking the PEER_JOINED of the new one.  What clients are told is what
the server sends; of it, `RelayClient` only logs the list in a WELCOME.

**PneumaDB.**  The network is a set of packets that arrive in any order; this also
covers what the relay does to packets across reconnections.  `mode` is chosen at
the start: in `"reliable"` nothing is lost, nobody leaves and answers are in
time; in `"lossy"` anything may be lost, timers fire at any moment, peers join
and leave and clients go offline.  A session is `"none"`, `"own"` (a key this
node derived alone) or `"agreed"`.  On PEER_JOINED a node derives a key and sends
KEM_INIT unencrypted; the receiver treats every packet as encrypted and drops
it, so such a key is never shared.  Two nodes understand each other only when
the application has installed one key on both, as `tests/test_all.py:36-37`
does; both kinds of start are initial states.  `swaps` remembers each cas that expected
no value and returned True, with the node whose store made the swap; the action that
swaps records it in every case.  `CasIsExclusive` says that one store lets one win,
so that a key has as many winners as there are nodes that are taken for its owner.
`CasKeepsConsistency` is the README's promise that there is one, and fails.

**SQLWhere, SQLStore.**  A table has the column `id`, its INTEGER PRIMARY KEY (which
numbers itself), and a text column `u` that may be UNIQUE and may be given an
index.  `SQLWhere` states twice what a clause selects: once as the code parses and
matches it (the tokens 0 and 1 are truth values; a clause is cut at AND before
OR; what follows an OR inside an AND part becomes part of a value; absent values
compare as texts do), and once as SQL means it.  `SQLStore` runs each statement
call by call of the key-value store, each call being one step as in `LocalStore`,
but `next_id`, which is two: `connect` makes every connection a store of its own on
the one file, with a lock of its own, so that another connection may come between
its SELECT and its UPSERT.  Every call may fail: a `_put` without being noticed
(the `done` of the actions), any other with an exception that ends the statement
(`Fail`).  The history variable `wanted` is what SQL makes of the statements
(`SQLInsert`, `SQLUpdate`, `SQLDelete`): it accepts and refuses by itself, whatever
the engine does, so that an INSERT that the engine refuses for a leftover index row
is in it, and an UPDATE that doubles a unique value is not.  `spoilt`, `gone` and
`doubtful` say of which texts and ids a guarantee is off, and no action marks one but where
the code gives it up: two INSERTs that both pass the check before either is
indexed, a row cut off from its index row, an UPDATE of `u`, an id given by hand, a
sequence read twice before it is written, and the others that the properties' comments
list.  `liberties`
collects what the engine does not guard against (statements that overlap, crashes,
failures, stale cached schemas, tables whose names a LIKE pattern confuses, and
statements SQL would refuse or on which the engine and SQL differ).
`UniqueHeld` and `NumbersAreFresh` have no premise on the run, only on the text and
the id; `RefusedForCause` asks that statements do not overlap;
`TurnsKeepTheTables` asks that none of the liberties is taken: that is the list of
what a user has to avoid, such as giving a UNIQUE column a text again whose row was
deleted or updated, which SQL accepts and the engine refuses.

**Framing.**  A packet is a message and a place.  The buffer is keyed by sender and
number of fragments, so that two messages share one whenever the code lets them.
Threads put fragments into the bounded outbox one by one; a full outbox drops
one packet, not the message.  A packet is heard or lost; what a CRC stops
is lost.  `Receive` follows `add_packet`: the packet is stored, old
buffers are dropped, and only then is completeness tested, so a packet that
completes a buffer just dropped ends in a KeyError, which the receive loop
swallows.  What comes out of a mixture of fragments is a choice: the error
correction or the JSON parser may or may not stop it, and decryption does
(`Readings`).  A whole message in clear is handed up; a whole sealed one (`Sealed`:
there was a session with the peer when it was queued) is handed up or dropped, for the
listener may have no session with its sender, or one that does not open it.  Nobody checks the destination of a packet.

**Mesh.**  All clocks agree (the slots are computed from the time of day).  In a
slot, a node speaks if by its own list it is its turn, and listens otherwise; a
listener may hear any speaker's beacon or none.  Handling a beacon is three steps:
the lists and the schedule (`Hear`), the callback with the ring (`Meet`), and the
beacon's own list of peers (`Absorb`); between them run the other listener and the
prune thread.  `prune_stale` is one step under discovery's lock, and each removal
from the ring another; `remove_node` of a peer that is not on the ring raises
KeyError and ends the thread for good (`PruneDies`).  `Seedings` says what the
schedules hold when the nodes start: nothing but the node itself is what
`mesh_node.py:127` does; other starts are of programs that call `tdma.add_node`
themselves, as `tests/test_mesh.py` does with schedulers of its own.  `causes` records what parts a node's ring
from the peers it hears.

## 3. What the runs show

| Run | Instance | Shows |
|---|---|---|
| `local_store` | 2 threads, 1 key, 1 counter, 2 values, ttl 0 or 1, clock to 2, ids to 2; 234 thousand states | `AckedIsDurable`, `IdsDistinct`, and that the store implements `KVMap` (`ImplementsMap`) |
| `table_orm` | 2 threads, 2 ids, 2 fields, 2 values, 2 failing statements or crashes; 1.45 million states | `NoDuplicateIds`, `SettledRecordsAreKept` |
| `hash_ring` | 3 nodes with 2 points on 7 positions, all placements | `RingIsOfKnown`, `OwnerIsFirstReplica`, `ReplicasAreDistinct`, `OnlyTheirKeysMove`, `ReplicasMoveLittle` |
| `relay_server` | 3 nodes, 3 connections; 406 thousand states | `RegisteredIsServing`, `ActiveCounts`, `ServedIsRegistered`, `ToldBeforeHeard`, `PresenceSettles` |
| `pneuma_db` | 2 nodes, 2 threads on each, 1 key, 2 values, 2 calls; 550 thousand states | `AnswersMatch`, `PendingIsWaited`, `CasIsExclusive`, `ReplicasFollowOwner` |
| `pneuma_returns` | 2 nodes, 1 thread on each, 1 value | liveness: `CallsReturn` |
| `pneuma_cas` | the same | violates `CasKeepsConsistency` |
| `sql_store` | 2 connections, 2 tables with alike names, 2 ids, 2 texts, 4 statements, 2 liberties; 1.58 million states | `UniqueHeld`, `NumbersAreFresh`, `RefusedForCause`, `TurnsKeepTheTables` |
| `sql_delete_by_id` | the same, with the clauses of the engine's own list | violates `SupportedStatementsWork` |
| `framing` | 2 nodes, 3 threads, 3 messages of 2 fragments and one of 3, two of the messages sealed, outboxes of 2 packets; 1.1 million states | `NoPacketTwice`, `MixedForCause`, `HeardIsHanded` |
| `mesh` | 3 nodes, 2 listeners, 2 starting schedules, a peer that falls silent twice; 1.58 million states | `RingIsHeard`, `PruneDiesForCause`, `LonersHearNobody` |
| `mesh_alone` | 3 nodes told of nobody | violates `NodesSelfOrganise` |

**Why the bounds are enough.**  Two threads are what the races in the store and
the table need (each is between one call's read and
another's write).
`MaxTime = 2` lets a row be alive, expire, and be replaced; `MaxId = 2` lets an
id be handed out, the process crash, and another be handed out.  Three nodes
with two points each make a ring with interleaved points and a wrap-around, and
a removal that leaves more than one candidate.  Three connections let one node
come back while another listens, or let three nodes meet; a fourth would only
repeat a reconnection.  Two calls in the distributed interface, on any threads of
either node, give every race of two requests and their replication, a request
and a late answer of an earlier one, and a swap against a swap.  Two faults in the table
are a failing statement and one more, or a crash that rolls it back.  `MaxTime`,
`MaxId`, `MaxConn`, `MaxCalls` and `MaxFaults` are bounds of the models; they stand in guards
and are what stops the runs.  The theorems are for every value of them.

Four SQL statements make and fill a table, and then let two statements of two
connections race, or drop the table and make it anew; two of the liberties at once
(`MaxLiberties`) are what every property's premise needs to be seen to matter, one
being the overlap or the failure and one what is done in it.  A clause with AND, one with IN and
LIKE, and comparisons of numbers and of texts are among the `Clauses`.  In
`framing`, two messages of one key from two threads and a third of another count
give every crossing, and an outbox of two is full halfway through a message;
a timeout of one tick lets a buffer be young, old enough and too old.  In `mesh`,
three nodes are what absorbing takes (one tells another of a third); one of them
may fall silent twice (`MaxSilences`), so that it is heard, pruned, heard again and
pruned again; one node handles beacons at a time (`MaxBusy = 1`), but with both
listeners, and the prune threads of all.  `Cycle = 6` is a multiple of every number of nodes a
schedule can have, so that the slot numbers modulo 6 say what unbounded ones do.

`CHECK_DEADLOCK FALSE` stands only where the number of connections or calls is
bounded and the model therefore comes to rest.

**Symmetry.**  Threads and values (in `relay_server`, nodes) are interchangeable
where only safety is checked; the refinement `ImplementsMap` is a safety property,
and its abstract specification treats them alike too.  That run also
explores states that differ in `answer` alone only once (`AllButAnswer`): no step of
either specification looks at the last answer, and TLC checks a step against the
abstract specification whether or not it leads to a new state.  In `sql_store` the connections
are interchangeable, in `framing` the two threads of node `a` and its two messages
of two fragments in clear, in `mesh` the two listeners (nodes are ordered by name and are
not).  The liveness runs use none.

**Fairness.**  `PneumaDB` has it for `CallsReturn`: weak fairness of a
thread's own steps (the operating system and the event loop go on), of its timer
(`asyncio.wait_for` fires after ten seconds), and of handling some packet (the
event loop takes the next one).  No fairness is assumed of any particular
packet being delivered: packets may be lost one and all.  `Mesh` has fairness
for `NodesSelfOrganise`, which the run `mesh_alone` refutes: weak fairness of time and of
handling a beacon once heard, and strong fairness of hearing a node in a slot in which
nobody else speaks.  The code does not give the last (section 6), and no run
claims anything that needs it; it makes the refutation the stronger, for not even a
room in which every beacon gets through in the end helps nodes that never listen.
The other modules state safety only.

## 4. Where the code and its documents disagree

Shown by runs:

- **DELETE by id deletes nothing** (`sql_engine.py:271`, run `sql_delete_by_id`).  The
  engine lists `DELETE FROM users WHERE id = 1` as supported SQL.  The token `1` is
  read as `True`, and the row's `1` is compared with it as text.  Every `id = 1`
  and `id = 0` is affected, parameters included, for they are pasted into the
  text; `id = 2` is not.
- **Mesh nodes never hear one another** (`mesh_node.py:127`, `tdma.py:79`, run
  `mesh_alone`; theorem `UnseededNodesNeverMeet` for any number of nodes).  A node
  starts with a schedule of itself alone; it is always its turn, so no loop
  ever listens, so no peer is ever added to the schedule.
- **A cas without a quorum** (`db.py:532`, run `pneuma_cas`).  README.md:676 promises
  that a cas fails if no quorum can be reached.  An offline node swaps in its own
  store, whoever owns the key, and two nodes that know one another both win.

Met while modelling, and visible in what the properties that hold except:

- **A lazy delete removes a fresh row** (`db.py:149`).
  `get` reads an expired row, another thread puts a new value and is told True,
  and `get` then deletes that row.  This is why `AckedIsDurable` speaks of keys
  that never had a time to live.
- **A record is listed nowhere** (`db.py:245`).  Two overlapping inserts each append
  to the list they read, and one id is lost; so it is when the list's `put` fails,
  which `insert` ignores, or when the process dies before it.
  `SettledRecordsAreKept` is of records none of whose calls met that.
- **Connected and unreachable** (`relay_server.py:142`).
  The cleanup of an old connection, or of one whose HELLO was refused, pops whatever
  registration the node has; nothing puts it back, and nothing puts the counter
  right that a refused HELLO leaves one short.  `ServedIsRegistered` and `ActiveCounts` say
  exactly when.
- **A delete that leaves the replicas** (`db.py:514-520`).  The docstring says it
  propagates to replicas; it goes to the owner at most.  `ReplicasFollowOwner` excludes
  deleted keys.
- **UNIQUE** (`sql_engine.py:602-626`) holds neither across overlapping inserts, nor
  after a crash or a failed `_put` between a row and its index row, nor against UPDATE, and it goes on
  refusing values whose rows are deleted or changed; dropping the table clears that.
- **One id twice** (`db.py:196-207`).  `next_id` reads, adds in Python and writes under a lock of its
  own store; two connections to one file, each with a store of its own, can draw one
  number, and the second INSERT replaces the first one's row.
- **Sealed and unread** (`mesh_node.py:268-274`).  A sealed message that nothing opens is
  dropped without a word to its sender.
- **Absorbed peers** (`discovery.py:179-184`) are known and scheduled, but get no
  place on the ring when they are heard, since they are not new by then; pruning
  such a peer ends the node's prune thread.  `RingIsHeard` and `PruneDiesForCause`
  name this and the race of pruning with hearing as the only causes.
- **Mixed messages** (`framing.py:172`).  The comment in the buffer calls the second
  part of its key `seq_0`; it is the number of fragments, so a message that is heard with a
  hole in it lends the rest of its fragments to the next of its length.

## 5. What is proved

Every invariant and every action property of the passing runs, and the refinement,
is a theorem: for any sets of threads, keys, values, nodes, connections, messages
and clauses, under the named assumptions of the modules.  These say what the
code or the reading of it as a model gives anyway: sets are finite where something
is counted or walked (nodes, positions on the circle), special values differ from
ordinary ones (`Idle` from every call and every view of a read, `NoRow` from every
row, the marks "unsent" and "sent" from every answer), bounds are natural numbers, no two
nodes' points are in one place, there is a node, and a WHERE clause or an assignment
is one the parser can produce (`IsClause`, `Settings`).

An invariant is seldom inductive; what each proof adds to it is the argument why
the code is right.

- `LocalStoreProofs`: `TypeCorrect`, `AckedWritesAreDurable`, `IdsAreDistinct`,
  `ImplementsTheMap`.  The inductive invariant adds three facts to the properties.
  `ExpiringIsVolatile`: a row with an expiry sits only under a key that was once
  given a time to live, in `store`, on `disk` and in every call that carries a row,
  and only such a row is purged; without the part about calls, a lazy delete
  already decided upon would break `AckedIsDurable`.  `PutsAreTyped`: a put carries
  a row for a user key, so it cannot touch a counter.  `CounterCovers`: the counter
  covers every id handed out, in `store` and on `disk`, so that neither the next
  statement nor a crash brings one back.  The refinement goes through the actions
  one by one: a statement is the `KVMap` action of its name (a statement that fails is one that
  did or did not happen), a tick or an allowed expiry is a `Forget` or no step at all,
  and a read is linearised at its SELECT and remembered in `view`; that
  `ExpiringIsVolatile` holds is what makes a purge a permitted `Forget`.
- `TableProofs`: `TypeCorrect`, `IdsAreDistinct`, `RecordsAreKept`.  Ids stand in a
  list once because an insert looks before it appends, and every list in `store`, on `disk` and in a
  call's hands is distinct (`Distinct`).  For `RecordsAreKept` the invariant (`Settled`)
  has to speak of every place a stale copy may come from: the settled records are as
  wanted in `store` and on `disk` (`Orderly`), with the record of a method in progress
  allowed half of what it does; a call has in hand what its record is to become,
  and every list a call holds names the other settled records as they should be named
  (`CallsFit`), so that whoever writes last writes them right; and `store` and `disk` agree on
  whether the record of a call is listed, so that a rollback does not change that (`ListsAgree`).
  An overlap is what makes a list wrong, and by then the records it is wrong about are doubtful.
- `HashRingProofs`: `TypeCorrect`, `RingAgrees` (the ring is the set of the known
  peers' points after any sequence of changes), `KeysMoveMinimally`,
  `OwnersComeFirst`, `CopiesAreDistinct`, `FewCopiesMove`.  The key fact about `get_node`: the
  first point at or after a position, if it survives a change, remains the first
  unless the change adds a nearer one.  About `get_nodes`: its walk begins at that
  point (`BisectIsRank`), visits every point once (`WalkGoesRound`), and after each
  point has taken distinct nodes, the owner first, and n of them or all it met
  (`Good`).  It takes nodes in the order in which it first meets them (`Lined`), which is
  an order of the nodes' points alone (`Ahead`), whoever else is on the ring: hence a
  change of membership cannot reverse two replicas, and a node that was passed over
  becomes a replica only in the place of one that left.
- `RelayServerProofs`: `TypeCorrect`, `RegistrationsAreServed`,
  `ConnectionsAreCounted`, `ServedNodesAreRegistered`, `PeersAreAnnounced`,
  `PresenceIsTrue`.  The invariant adds that a connection has a node from its first
  frame on (`Named`), that no handler is lost before it has registered or uncounted before it has cleaned up (`Marked`),
  and that, when reconnections wait, no node is on two
  connections at once (`OneAtATime`), so that none is lost (`NoneLost`).  The counter is
  an integer: nothing keeps it from going below zero.  What clients are told needs
  that a node's handlers follow one another (`OthersAreDone`), that whoever is served
  beside a client has been announced to it or its handler is still at it (`Told`), and that
  what a client believes of a node is so, or the farewell is due (`Believed`).
- `PneumaDBProofs`: `TypeCorrect`, `FuturesAreWaitedFor`, `AnswersAreTheirOwn`,
  `SwapsAreExclusive`, `ReplicasAgree`.  They share a bookkeeping of request ids
  (`Book`): calls in progress have different numbers, a call sends to each node once, what it has
  yet to send has no fate, a request under way is not yet carried out and an
  answer under way says what its request met.  Packets may be lost, late or
  overtaken; ids are never reused, so none of it matters to whom an answer goes.
  `SwapsAreExclusive` needs `SwapsAreWon`: of those whose swap of a key from no
  value one node's store has carried out, whether they know it yet or not, there is at most one, and
  the key has had a value there since.  `ReplicasAgree` needs `TidyKeys`: of a key whose puts do not overlap,
  a replica that differs from the owner has its copy still to come, and every copy on its way
  carries the owner's value.
- `SQLStoreProofs`: `TypeCorrect`, `FreshNumbers`, `RefusalsHaveCause`,
  `UniqueColumns`, `StatementsAreKept`.  The first four hold through crashes, failures
  and stale schemas, and three of them through overlaps.  `Numbering`: a row
  is under the id it holds unless that id is doubtful, and of every id that is not, rows have it
  and updates write it back only when it has been drawn, and an INSERT has it alone (`Fresh`).  `Uniqueness`: of every text
  that is not spoilt, a table has one row at most, that row has its index row or its INSERT is
  about to write it, and no other INSERT of it is past its check (`Single`).
  `Accounting`: while statements do not overlap, every index row, and every text
  that the one running statement may still index, is of a text accounted for.
  `Meaning`: while no liberty is taken, what the running statement has still to do to its table
  is exactly what separates the table from what SQL wants it to hold (`Meant`); that the engine's
  refusals are SQL's follows from `Uniqueness` and `Accounting`, by which a
  text that is neither spoilt nor gone has an index row if and only if a row has it.  The last also rests on the lemma `PlainMatches`: on plain clauses
  (no NULL, no 0 or 1 in a comparison, no mixture of AND and OR) the engine's `Match` is
  SQL's `SQLTrue`.
- `FramingProofs`: `TypeCorrect`, `PacketsAreJoinedOnce`, `MixturesHaveCause`,
  `HeardMessagesAreHanded`.  That no packet is joined twice needs that a packet on its
  way (still to be put, in an outbox, in a buffer) has not been joined and is in one
  place only (`Once`).  The other two hold while nothing has spoiled the
  reassembly (`Unspoilt`): messages of one key leave an outbox in turns (`InTurns`), of a message not
  yet wholly sent all that was heard is in its buffer (`HeardIsKept`), and a
  buffer never holds a last packet, for that one is joined at once.  What a whole message
  is read as (`Readings`) decides between handed up and, if it is sealed, dropped (`CameThrough`).
- `MeshProofs`: `TypeCorrect`, `RingFollowsDiscovery`, `PruningDiesForCause`,
  `LonersStayAlone`, `UnseededNodesNeverMeet`.  The invariant adds that whoever's
  beacon is being handled was heard recently (`HandledIsRecent`, so it cannot be
  stale before its callback has run), that a node never prunes itself, and that at a node
  whose ring nothing has parted from its peers, those being pruned are on the ring
  and unheard since (`PrunedAreOnRing`): the removal cannot fail.  The last two theorems rest on the arithmetic of a schedule of one (`LonerSpeaks`):
  any slot number modulo 1 is the node's own place.

**Recursion.**  The walk of `get_nodes` (`Taken`) and the removal of an id from a list
(`Filtered`) are recursive functions.  What they compute is proved without
induction over data: a function that satisfies the recursion exists up to every
length, and a property that holds at the start and is kept by each step holds
throughout, for otherwise there would be a least place where it fails
(`LeastExists`, from the well-foundedness of the naturals).

**Only model-checked.**  Liveness (`CallsReturn`, `NodesSelfOrganise`): the proof
system does not reason about fairness and ENABLED.  And the three violations of
section 4, which are single counterexamples (the second has
`UnseededNodesNeverMeet` beside it).

## 6. What is not modelled

- Acoustic transport and error correction: signal processing and a library.
- REST, command line, dashboard: text and I/O without state of their own.
- In `SQLStore`: tables without a primary key, NOT NULL, defaults, more columns,
  SELECT beyond its scan and filter (it only reads), and the parsing of anything
  but a WHERE clause.  Over `PNEUMA_DB` with a relay the engine's ids and scans are
  those of the node's own store while its rows go to their owners, so two nodes
  number rows of one table alike; the model has one store for all connections.
- In `Framing`: the bytes of packets, and timing: whether a packet gets through the
  transport before the receive loop's deadline is a choice (heard or lost); who a message is for, which the code does not check either.
- In `Mesh`: sessions and the key exchange; remote calls (`mesh_node.py:343-394`) with
  `_pending` and `_replies`.  By reading: `encapsulate` derives the key with the
  peer's name and `decapsulate` with the sender's, so the two ends never hold one
  key, and a remote call to a peer with a session times out; a call that times out
  leaves its event, a late answer its value.  Clocks that differ and a `receive` that
  outlasts its slot are left out too.  So is whether a beacon can be received at all: `discovery.py:149-154`
  asks for 517 bytes within a second, a byte takes two symbols of 80 ms, and the slot is half a
  second long, so that `Hear` is what could be heard by the schedules alone.  Starts with schedules
  already filled (`Seedings`) are of no program in `src/`; `mesh` has them to say what
  discovery does once it hears anyone, and none of its properties says that anyone is heard.
- In `LocalStore`: `scan_prefix` and `count`, which only read; checksums.
- In `TableORM`: `add_index` and `find_by` (nothing in the repository calls
  `add_index`) and the readers.
- In `RelayServer`: byte counters, PING, PEERS, STATS, DELIVERY_FAIL (no client
  acts on it), a node id that is no string.
- In `PneumaDB`: restarts of a node, times to live, statements that fail (and with
  them a remote put answered True although the store failed), collisions of
  request ids; the caller's own limit of two seconds more (`db.py:454`), which only a
  stalled event loop reaches.

## 7. Plan

All safety properties are proved.  What is left is to model more, in this order:

1. Mesh sessions and remote calls, composed of `Mesh` (who is on the ring) and
   `Framing` (what is heard).
2. `TableORM` and `SQLStore` over `PneumaDB` instead of one store: ids counted on each node,
   rows on their owners.
3. An abstract specification of `PneumaDB` on a reliable network: a register per key
   with its replicas behind it, and the proof that `PneumaDB` implements it.
4. `RelayClient`: its queue across reconnections.

Runs stay few: one or two for each module, and one for a disagreement only where
there is one.
