# A verification of AutoGentoo in TLA+

AutoGentoo builds Gentoo systems from a server.  Its own logic is in four
places: a threaded message server written in C as a Python extension
(`src/autogentoo/network`), a package database written in C
(`src/autogentoo/cportage`) on containers of its own
(`src/autogentoo/hacksaw`), and a dependency resolver in Python
(`src/autogentoo/portage/resolve.py`).  This directory models them, checks the
models with TLC and proves theorems about them with TLAPS.

## Inventory

| component | state | operations | spoken to by |
|---|---|---|---|
| TCP server (`network/tcp_server.c`) | request queue, mutex and condition, `keep_alive`, `is_alive`, worker and acceptor threads, listening socket, callback | `start`, `stop`, `set_request_callback`, dealloc; the loops of the acceptor and of each worker | Python (with the interpreter lock), clients over sockets |
| client and messages (`network/tcp_client.c`, `message.c`, `module.c`) | one socket, a buffer at either side, units under way | conversion of a message, connect, three writes, three reads, conversion of the reply | the server's workers |
| lookup table (`hacksaw/lut.c`) | buckets of nodes, size | `lut_insert`, `lut_get_id`, `lut_get`, growth, free | portage tables, global use flags; atoms and ebuilds keep the identifiers |
| atoms and versions (`cportage/atom.c`) | version nodes, operator, key and its identifier | comparison, `matches`, parsing | packages, the resolver |
| package list (`cportage/package.c`) | list of ebuilds from newest to oldest | `add_ebuild`, `match_atom` | portage tables |
| portage tables (`cportage/portage.c`) | table of packages, table of flags, the global `Portage` | `initialize_repository`, `add_package`, `get_package`, `match_atom`, `init` | the resolver |
| ebuilds (`cportage/ebuild.c`) | metadata, read when needed and again after a failure | `ebuild_init`, `initialize_metadata`, iteration to older ebuilds | the tables, the resolver |
| dependencies, use flags, REQUIRED_USE (`depend.y`, `requireduse.y`, `use.c`) | lists and trees | parsing, evaluation | ebuilds, the resolver |
| resolver (`portage/resolve.py`) | selections per package and slot, flags and hooks of each, blocks, the session of resolved ebuilds, the Python stack | `select_atom`, `match_atom`, `regenerate`, `get_resolved`, `add_use_requirement`, `flush_use`, `clear` | the user |
| queue, stack, queue set (`linked_vector.c` and the files on it) | nodes, head and tail | add, push, pop, peek, iterate, free | the server (queue) |
| vector and set (`vector.c`, `set.c`) | array, count, options | add, insert, remove, extend, union, intersection, copy | their tests |
| map (`map.c`) | buckets of chains, size, n | insert, get, remove, growth, free | their tests |

What is hard in them, and so what the properties are for (PROJECT.json lists
each hazard at its line):

* **Server.**  Four kinds of threads, two locks (the mutex of the queue and
  the interpreter lock) and one condition variable.  `keep_alive` is tested
  outside the mutex; `stop` joins threads while it holds the interpreter lock;
  the broadcast comes after the mutex was released; `is_alive` is set by
  another thread than the one that reads it.  Correct means: a request has one
  owner and is served in order, nobody sleeps on queued work, a client is
  always answered before its connection is closed, and `stop` leaves nothing
  running.
* **Table.**  Callers keep identifiers while the table grows under them, and
  two keys may have one hash.  Correct means: an identifier leads to its key
  for the life of the table, and references are exact.
* **Package.**  Files come in any order and from several repositories.
  Correct means: the list is stably sorted and `match_atom` agrees with
  `atom.matches`.
* **Portage tables.**  A repository is loaded half-way, again, or after Python
  code has replaced a package; an atom keeps an identifier from before.
  Correct means: packages live exactly as long as they are referred to, and a
  loaded ebuild is found under its key.
* **Ebuild.**  The lines of a metadata file come in any order, a reading fails
  in the middle and is tried again.  Correct means: an ebuild is taken for read
  only when all of its file is in it, and REQUIRED_USE keeps its meaning
  through the grammar, the list and the counting.
* **Messages.**  The results of `read` are not looked at, buffers hold what the
  memory did, the server may end in `free`.  Correct means: what comes whole is
  what was sent, and the client returns.
* **Containers.**  Objects are shared, nodes are freed and allocated again,
  arrays grow one element ahead.  Correct means: counts are exact and order,
  membership and keys survive.
* **Resolver.**  Dependencies have cycles, metadata is read lazily, parents
  disagree on flags and versions, and an exception may leave any call.
  Correct means: what was resolved is closed under dependencies, in the state
  its parents required, and every request ends.

## Modules

| module | models | by |
|---|---|---|
| `TCPServer` | `tcp_server.c`, its clients, `queue.c` as a sequence | one action per stretch of code between two points where another thread can be seen |
| `RequestPool` | what the server promises | accept, take in order, answer, finish |
| `TCPServerProofs` | theorems about `TCPServer` | |
| `LUT` | `lut.c` for Python values | one action per call, made with the interpreter lock held |
| `IdTable` | what the table promises | add, replace, drop |
| `LUTProofs` | theorems about `LUT` | |
| `AtomText` | `atom_init`, `atom_version_init` | pure operators on the words of a text |
| `AtomVersion` | `atom_version_compare` | pure operators |
| `LeastNumber` | nothing: that a set of numbers has a least, and induction | lemmas for the proofs |
| `EbuildList` | `add_ebuild`, `match_atom`, `atom_matches` | pure operators on the list of a package |
| `Package` | one package | `add_ebuild`, one action per call |
| `Portage` | `portage.c`, `ebuild_init` | composes `LUT`, one `EbuildList` per object, and `AtomText`; one action per call, and one per file of a scan |
| `PortageProofs` | theorems about `AtomVersion`, `EbuildList` and `Portage` | |
| `RequiredUse` | `requireduse.y`, `use.c`, `RequiredUseHook.run_hook` | functions of texts and lists, level by level of their nesting |
| `EbuildMetadata` | `initialize_metadata` and flags set afterwards | one action per call, a recursive function of the lines of a file |
| `MetadataProofs` | theorems about `EbuildMetadata` and `RequiredUse` | |
| `Resolver` | `resolve.py` | one action per turn of a loop of `regenerate`, with an explicit stack |
| `ResolverProofs` | theorems about the calls and the selections of `Resolver` | |
| `MessageExchange` | `message.c`, `tcp_client.c`, `send_message`, a worker's reads and writes | one action per read, and per stretch of code between two |
| `MessageExchangeProofs` | a theorem about `MessageExchange` | |
| `RefObject` | `object.h` | operators on counts |
| `LinkedVector` | `linked_vector.c`, `queue.c`, `stack.c`, `queue_set.c` | one action per call |
| `Deque` | what a queue and a stack promise | add at either end, take, renew |
| `VectorSet` | `vector.c`, `set.c` | operators on a record |
| `HashMap` | `map.c` | one action per call |
| `Containers` | the containers over objects they share | composes `RefObject`, `LinkedVector`, `VectorSet` and `HashMap` |
| `ContainersProofs` | theorems about `Containers` | |
| `MC*` | instances for TLC | |

### TCPServer

`pc` holds the place of each thread: the Python thread `Main`, the `Acceptor`
and each worker.  A step is what a thread does between two points at which
another can see or change something it uses: taking or releasing `lock` (the
pthread mutex) or `gil` (the interpreter lock), a wait on the condition, a
blocking system call, a write to `keepAlive` or `isAlive`.  `queue` is the
request queue, `req` and `accepted` what a thread holds in local variables,
`sock`, `client` and `sent` the ends of each connection.  `Main` calls `start`,
`set_request_callback`, `stop` and drops the object, in the order that
`network_test.py` uses (start and stop in pairs: an unpaired call joins
handles that were never set).  A callback may be missing, raise, return
`None` or return a message, and may give the interpreter lock away and get it
back.  A client may die at any time.  Spurious wake-ups are a step of their
own.

### LUT and IdTable

The nodes of all chains are one sequence in the order of insertion; each node
carries the bucket it is chained in.  Growing may reverse nodes within a
bucket but not those of one hash, and only these are told apart by their order.
`held` is one caller (an atom or ebuild) that keeps what `lut_get_id` gave it.

### AtomVersion, EbuildList and Package

A version is the list of nodes `atom_version_init` makes.  `Compare` is the
comparison with its zero padding, its rule for letters, its 32-bit
differences and its stars.  It is *no* order on all versions: `1.6b` is newer
than `1.6`, `1.6` than `1.5.4`, and `1.5.4` than `1.6b`; `1b_p1` is not equal
to itself.  `Orderly` names the sets of versions on which it is one, and the
properties are stated for these: no stars (`1*` is equal to `1.5` and to
`1.6`), no two numbers one of which leaves 32 bits when it is padded to the
length of the other, and letters only behind the last of equally many nodes
that have no zero in front.  `EbuildList` has the place of a new ebuild and the
walk of `match_atom`; `Portage` uses them for each of its packages, `Package`
for one alone.

### AtomText

A text is a sequence of words between dashes, and a word a sequence of tokens
between dots and underscores, of which only what the code looks at is kept:
how many letters lead, whether the first is an `r`, the digits, the letter and
the star behind them.  `VersionStart` is the scan of `atom_init` for the dash
that ends the name, `ParseVersion` the list of nodes made of the rest.

### Portage

`Table` is an instance of `LUT` whose data are packages and whose `held` is an
atom that Python code has parsed; `lists[p]` is the list of ebuilds of each
package object.  `initialize_repository` is `StartScan`, one `LoadNew` or
`LoadExisting` for each file in any order, and `EndScan`, which may come early:
an ebuild that cannot be used ends the scan with what was loaded in place.
`scan` holds what is left of the call, and nothing runs between its steps, since
the call keeps the interpreter lock.  `NewPackage`, `AddEbuild`, `AddPackage`,
`GetPackage` and `Release` are what Python code does with packages of its own;
`Reset` is `init()` with a new `Portage`, whose table starts empty while atoms
keep their identifiers.

### RequiredUse and EbuildMetadata

Terms are built level by level: a term of `Level[n]` has terms of the level
below in its body, and `Depth` bounds the levels.  `Parsed` makes the list that
the grammar makes, with what its rules lose: the `next` of a group's first
object is overwritten by what follows the group (`Linked`).  `Accepted` is the
counting of `run_hook` (`Counts`), `Means` the meaning of `||`, `^^`, `??`,
groups and conditions (`Holds`).  `EbuildMetadata` reads the lines of a file into an
`Ebuild`: a dependency that is there already, or does not parse, sets the error
and the loop goes on; a REQUIRED_USE that does not parse leaves the loop;
keywords start from `none` at each call; flags are added to the dictionary.
`FlushUse` then changes flags in any order.

### Resolver

`regenerate` calls `get_resolved` of the dependencies, which calls their
`regenerate`: `stack` holds these calls.  `sels` are the `SelectedEbuild`
objects and `tree` their lists of generators and resolved children, `slots` the dictionary of each package in its order of insertion,
`session` the resolved set.  The iterator of a package is `PyEbuild_next`,
which never gives the newest ebuild and gives the second newest for ever; a
loop over it that never finds what it looks for is the status `"hung"`.  All
exceptions are one outcome, which empties the stack and undoes nothing.
`DepConditional` does what the code does with `flag? ( ... )`: it compares a
flag identifier with an operator, so that the dependency is hooked with the
state off and never resolved.

### MessageExchange

A frame is the head (a token of 32 bits, the parameters), the size and the
data; `Units` are the writes of it.  `up` and `down` are the units under way,
`reply` and `message` the buffers of the client and the worker, whose contents
before a read are any `Garbage`.  A read takes any number of units from one to
those it asks for, and none when the other side has closed; what is not taken
is left for the next part.  `WorkerFree` frees the request's data and, in place
of the response's, once more the request's: the second `free` ends the process
(`aborted`).  The server's threads, and clients that die, are in `TCPServer`,
where a frame is one step.

### Containers

All containers refer to the same objects, whose counts are `refs`; `owned` are
the references of the caller and `leaked` those that `map_insert` drops when it
overwrites.  `LinkedVector` keeps the memory of freed nodes and a `tail` that
`pop` does not move, as the code does, and implements `Deque`.  `VectorSet` has
the room of an array beside its elements, and the order that a removal keeps or
not.  `HashMap` keeps `n` as the code counts it: once more for every item at
each growth, and nothing less at a removal.  A loop over elements that changes
what it goes through (`vector_extend`, `set_union`, growth, `map_all_keys`) is a
recursive function of the number of turns; one that only counts references
(freeing a list, a map) is `Occurrences`, how often an object is there.

## Runs

| run | asks | instance | distinct states |
|---|---|---|---|
| `server_safety` | safety of every interleaving, and that the server implements `RequestPool` | 2 workers, 2 connections, 2 starts, symmetric workers and connections | 1,007,000 |
| `server_live` | a client that has sent its frame returns; `stop` returns or meets one of two named hangs; every accepted connection is finished, across a restart | 1 worker, 1 connection, 2 starts | 27,000 |
| `server_lostwakeup` (violated) | `stop` wakes every worker | 1 worker, no connection | |
| `server_gil` (violated) | a callback gets to run | 1 worker, 1 connection | |
| `message` | what is whole arrives; `send_message` returns | 5 messages, 2 values of garbage, 2 exchanges | 5,800 |
| `lut` | identifiers, references, growth, refinement of `IdTable` | 4 keys, 2 values, first size 1 | 3,100 |
| `portage` | life of packages, lookup, sorting, choice, identifiers of atoms, names taken apart | 2 repositories of 5 files, 3 packages, 2 keys of one hash, 3 ebuilds at a time, 7 atoms | 116,000 |
| `package_shortcircuit` (violated) | the early end of the walk misses nothing | 4 ebuilds | |
| `metadata` | an ebuild is read whole; REQUIRED_USE keeps its meaning | files of up to 4 lines of 18, 2 readings, flags in any order | 386,000 |
| `resolver` | closure, requirements, termination | 4 packages, 81 repositories, 3 requests, 1 reset | 301,000 |
| `resolver_retry` (violated) | a failed request fails again | the same | |
| `containers` | counts, membership, refinement of `Deque`, keys | 3 objects (2 of one class), 3 nodes, 2 vectors, 3 sets, 3 keys; 4 places, 1 reference owned and 1 leaked at most; one kind of container at a time | 49,000 |

Why the bounds are enough.

* *Server.*  Two workers are the fewest that can compete for a request and of
  which one can sleep while the other works; two connections the fewest that
  have an order; two starts the fewest that leave a connection from one to the
  other.  For liveness one worker is the harder case, since no other can take
  what it sleeps on; what two of them could do to each other is in
  `NoSleepOnWork`, which is proved for any number.
* *Message.*  Data of no units, of one and of two let a read end before, inside
  and after a part; the second exchange meets what the first left behind.
  `TokenRange` is 4 for 2^32, with a token on either side of it.
* *Table.*  Four keys from a first size of 1 make the table grow twice, have two
  keys of one hash, and one that leaves their bucket when it grows.
  `OverlapRange` is 2 for 2^16 in the code: the run meets its last value but
  never wraps, which the assumption `FewCollisions` excludes.
* *Portage.*  The files have a revision, a leading zero, a suffix, a name with a
  word that looks like a revision, a version two repositories share and an
  ebuild whose source is missing.  Each file may be loaded twice, three
  ebuilds can be in one list, so that each is first, last and in between.
  Three packages are one for each key and one to replace another.
  `WordRange` is 256 for 2^32; the numbers stay within it.
* *Metadata.*  Four lines hold the same dependency twice, a line that does not
  parse before and after others, and a text of REQUIRED_USE with the flags it
  names.  Two readings are a failure and its repetition.  `Depth` is 3, the
  nesting of the deepest text.
* *Resolver.*  Three requests are needed to meet a raised request again after
  another; one reset to meet metadata read before the `Emerge` was made, which
  `Earlier` also gives at the start.  Four packages have cycles of two and
  three, and two parents of one dependency.
* *Containers.*  Three nodes are taken, freed and given out again in any order;
  a first room of 2 makes a vector grow twice within four places; three keys
  share buckets before the first growth of the map and part at the second.  The
  kinds of containers meet only in the counts of their objects, to which each
  adds its own: one at a time shows each share.

Fairness.  In `TCPServer` each thread's step, the return of a callback and a
successful `accept` are strongly fair: the kernel runs every runnable thread
and gives a mutex to each of those that compete for it, and CPython makes the
holder of the interpreter lock drop it for a waiting thread, so that a thread
which can step again and again does.  A callback comes to an end and `accept`
does not fail for ever.  A connected client sends and reads (weakly fair) or
dies.  Nothing makes `Main` call a method, a client connect or die, or
`pthread_cond_wait` return by itself; a step of `Main` inside a method is fair.
In `Resolver` weak fairness of `Regenerate` says that Python runs a call to its
end.  In `MessageExchange` either process goes on while it can: `read` returns
once a unit is there or the other side has closed.  Nothing makes it return all
that was asked for, and nothing makes a user send.

Deadlock is not checked where a system may come to rest: the user may stop
calling, the bounds are reached, and two of the server's hangs are the subject
of runs of their own.

Refinements.  `server_safety` checks `TCPServer` against `RequestPool`, `lut`
checks `LUT` against `IdTable`, and `containers` checks `LinkedVector` against
`Deque`; all three are also proved.

### What the violated runs show

* `server_lostwakeup`: a worker that has tested `keep_alive` and takes the
  mutex after `stop`'s broadcast sleeps on the condition for ever, and `stop`
  joins it for ever (`tcp_server.c:92`).
* `server_gil`: `stop` holds the interpreter lock while it joins a worker
  that waits for that lock to run its callback (`tcp_server.c:322`).
* `package_shortcircuit`: the walk ends at the first ebuild *newer* than the
  atom's version, so that `=cat/pkg-1.5` finds nothing when `1.5-r1` is there
  (`package.c:122`).
* `resolver_retry`: an ebuild whose resolution raised stays in the session and
  the second request returns it as resolved (`resolve.py:407`).

### What the models do that the code perhaps should not

Each of these is in the model as it is in the code; the properties are stated
so that they say what remains true.

* Short reads are not noticed (`tcp_server.c:102`, `tcp_client.c:56`), although
  a message's data are of arbitrary size (`module.c:81`): `Delivered` says
  nothing of an exchange with one, and after one of the worker's the client may
  wait for ever.
* A request with data and a reply with data free the request's buffer twice and
  the reply's never (`tcp_server.c:168`).  The client never closes its socket
  (`tcp_client.c:67`).
* Two keys of one hash lead an atom that was parsed before its package was
  loaded to the other package (`AtomLeadsToKey` excepts it).
* An `.ebuild` file that is missing ends the scan (`portage.c:152`), with the
  packages loaded so far in the table.
* Numbers of a version are cut to 32 bits (`atom.c:460`).
* `REQUIRED_USE`: terms after a group are lost (`requireduse.y:78`), and a
  condition that is off counts as a term that is not met where terms are
  counted: `RequiredUseKept` is stated for texts without these.
* Conditional dependencies are hooked with the state off and resolved never
  (`resolve.py:102`).
* A selection is filed under the slot `None` before its metadata is read, and a
  second one of its slot is made (`resolve.py:632`).
* Blocks are kept and nothing reads them (`resolve.py:659`, against the
  docstring of `add_block`).
* The map grows at every insertion once it has grown, since growth counts each
  item again (`map.c:159`), and `map_insert` of a key that is there leaks the
  old data (`map.c:149`).
* `VECTOR_UNORDERED` is 0, so that every vector keeps its order unless
  `VECTOR_KEEP` keeps its gaps; `set_collapse` calls a function pointer that is
  never set.

## Proofs

For any finite set of workers, any connections and any number of starts
`TCPServerProofs` proves `TypeCorrect` first.  The other invariants are not
inductive as they stand; each is a conjunct of a stronger one that says what
the value of `pc` implies: which `pc` values hold the mutex and which the
interpreter lock (for `MutexNotHeldHolds`), which of `stop`'s steps have been
passed while a thread still runs (for `StopQuiescesHolds` and
`DropStopsThreadsHolds`), that a sleeping worker with work in the queue implies
an acceptor on its way to the broadcast (`NoSleepOnWorkHolds`), and that a
connection is in exactly one of the acceptor's hand, the queue and one
worker's hand, with what was sent on it fixed by the worker's `pc`
(`OneOwnerHolds`, `RepliedBeforeCloseHolds`).  Its last
part maps the server to `RequestPool` and shows, with that invariant, that each action is a
step of the pool or a stutter (`ServerImplementsPool`).

`LUTProofs` proves every property of the run `lut` and the refinement of
`IdTable` for any keys, objects, first size and any hash that gives one value
to at most `OverlapRange` keys (the assumption `FewCollisions`; 2^16 keys of
one 32-bit hash in the code).  The properties are not inductive: that two
identifiers differ follows from `Ranked`, which says that the overlap of a node
is the number of nodes of its hash before it, so that the count `lut_get_id`
makes at a lookup is the one no node has; that a count of references stays
positive follows from `RefsExact`.  `TableInv` is the conjunction.  Lemmas say
what each operation does to the nodes, one by one (`InsertNewNodes`,
`InsertExistingNodes`); with them `FindsNode` turns a lookup into the one node
it finds, and `Mapped` states the refinement mapping key by key.

`MessageExchangeProofs` proves `Delivered` for any messages, any memory and any
number of exchanges (the assumptions only say what a message, a token and a
unit are).  It is not inductive: what the callback is called with depends on
what three reads left in a buffer.  `Got` says what is still to be read for
each part of a frame, given what is under way; `ReadGot` that a read in full
leads from one part to the next with `Got` kept, whatever the memory held; and
`ExchangeInv` that, with no short read, the worker's buffer is on the way to
the request's frame, or the client's to the answer's.  `RoundTrip` turns the
whole frame back into the message that was sent.

`PortageProofs` begins with versions: it proves that `Compare` is a preorder on every set of versions
that is `Orderly` (`OrderlyIsOrdered`), whatever their number, their digits and
their nodes.  `ValueIsUpTo` and `PaddedIs` say what the zeroes do that
`atom_version_compare` adds to the shorter of two texts: with them the numbers
of two nodes compare as their digits do from the left, and without a leading
zero as numbers.  Then a node's order does not depend on what it is compared
with (`NodesInOrder`), `CompareDecides` reduces `Compare` to the first place at
which two versions differ, and `ComparableIsOrdered` compares first places.
The work found that `Orderly` had been too weak: it let stars through, and
numbers that fit until they are padded.  What depends on a recursive function
is shown with the least counterexample, from `HasLeast` of `LeastNumber`.

Then comes the list of a package, for any ebuilds: that `add_ebuild` keeps it sorted and stable and holds each ebuild once
(`InsertedIsWellFormed`), and that in a sorted list the first hit of the walk is
the best match, for all operators but `=` and `~`, for which the walk may end
early (`FirstHitIsBest`).

Last it proves every property of the run `portage`, for any files,
repositories, keys, packages and atoms.  Assumed is that a file's name has a
version and a key (the code ends the process otherwise), that atoms are of a
version and an operator, what `LUT` assumes of its hash, and that texts are made
of the tokens `AtomText` has.  The properties hold together or not at all:
`PortageInv` says with the invariant of the table that a list holds ebuilds of
its package's key and no other list holds them (`Lists`), that a node and the
package it leads to have one key and one identifier (`Linked`), that the
packages there are, are those of the table and of Python code (`Live`), that
what a scan has loaded is under its key (`LoadedKept`), and where a kept
identifier leads (`HeldKept`).  Each action is a call of the table and a change
of the packages: the table's step is taken from `LUTProofs`, and the lemmas
about `EbuildList` say what becomes of the list.  `NamesTakenApartHolds` is
about `AtomText` alone: the dash at which `VersionStart` ends a name is the one
before the version, since a version looks like one and the name does not.

`ResolverProofs` proves `StackIsPath` and `FinishedIsClosed` for any packages,
repositories and requests.  `ResolverInv` says besides how far each call under
way has come: `ChildrenOK` that a frame at its n-th child has resolved the
first n - 1, `PathOK` that a frame below the top waits for the child that is
above it, `FramesOK` that every call is of an ebuild of the session, so that
`get_resolved`, which passes over these, never starts one twice; `ObjectsOK`
that the indices in `slots` and `tree` are those of selections there are.
Whatever `resolve_single` answers is `Sound`: it makes at most one selection,
without generators, and touches the node of no other.  Then a step is a turn of
the top frame (`TurnKeeps`), a call (`DescendKeeps`), a return, or an exception.

Its second part proves the rest of the safety properties of `Resolver`:
`TypeOK`, `DependenciesMet` and `UseRequirementsKept`.  Assumed is that what
`match_atom` returns for an atom is the first ebuild of the package's list that
the atom matches (`IsAtom`; that is how `EbuildList` walks, and `BestMatch` of
`Portage` is proved), that lists are sequences, and that metadata that were read
have a slot (`SlotsAreNames`).  None of the properties is inductive, and
`SelectionInv` adds to `ResolverInv`:

* `SelsOK`: an ebuild is the one its first atom chose or the second of the list,
  which is all that `change_within_slot` can change it to, since the iterator
  gives no other; and it is filed once, under its package and the slot that was
  known when it was filed (`FiledRight`).
* `FlagsOK`: no selection breaks its hooks.  `ApplyUses` and `FlushUse` go
  through sequences of any length; `ApplyUsesKeeps` and `FlushUseKeeps` show by
  induction on the length (`Induction` of `LeastNumber`) that one that does not
  raise leaves every earlier requirement in force and adds its own.
* `GeneratorsOK` and `TurnOK`: while a call goes through the dependencies, its
  generators meet those it came by (`MetUpTo`), and all of them once it has come
  to the children.  A selection may be made dirty or changed by a call deeper in
  the recursion, so that `Later` says what such a step may do: a selection that
  is no longer as chosen never is again (`Follows`), generators of other nodes
  are only added to, and what is filed stays.
* `ResultsOK`: results and the value returned are selections there are.

`Answers` states of each choice of `resolve_single` (keep, add, change) that the
selection it gives serves the atom.  The case that is hard is a package whose
selections the atom does not match although the first was made for a version it
does match (`OtherIs`).  Then that selection was changed from the newest ebuild
to the second, the newest is what the atom chooses too, and `change_within_slot`
changes the same selection again, so that no dependency is dropped.  This needs
the order in `IsAtom`, which `Resolver` did not assume before it was proved.

`ContainersProofs` proves every property of the run `containers`, and with
`ListIsADeque` the refinement of `Deque`, for any objects, keys, hashes, sizes,
thresholds and classes of comparison, and any finite memory.  Assumed is that
`NULL` is the address of nothing (`MemoryAssumption`), that vectors and sets are
finitely many and begin with room for at least one element (32 in `vector_new`;
`VectorAssumption`), and that hashes are numbers and a map has at least one
bucket (`MapAssumption`; `map_get` divides by their number).  The bounds of the
run are constants that nothing is assumed of.

`CountsExact` is not inductive by itself: what a step adds to a count it must
add to a container, and how much a container has of an object depends on its
shape.  `Inv` adds the shapes to it:

* `ListInv`: there is a sequence of nodes, all different, through which `head`
  and `next` lead in order and to whose end `tail` points (`Along`).  `tail` may
  be anything when the list is empty, which is how `pop` leaves it.  `Items`
  counts nodes that can be reached, so that `ItemsAlong` first shows that it is
  the data of this sequence.
* `VecInv`: every vector fits its memory, with one place free, and every set has
  no two elements that compare as equal.
* `MapInv`: every bucket has the items that hash to it and each key once
  (`MapShape`), and `n` is no less than the number of items, which is what
  `map_all_keys` needs to come to the last of them.

The lemmas on `Occurrences` say what appending, inserting, removing and
overwriting change.  A map is seen as what each key leads to (`Lookup`):
growth moves every item to one of two buckets and leaves all lookups as they
are (`ChainRebucketed`, `GrownKeeps`), and since items are one to one with the
keys that lead somewhere (`MapContents`), a step that changes what one key leads
to changes the objects of the map by one at most (`KeyChanges`).  Vectors and
sets are one family, from which one is split (`HeldSplits`).  Each action then
keeps the balance of counts and places (`Balanced`).  What the loops compute is
shown by induction on their turns (`InductionUpTo`, `IterationIs`): a set begins
with what it had before a union (`AllAddedIs`), so that references are taken
for what was added and nothing else.

`MetadataProofs` proves both properties of the run `metadata`, for any files,
flags, architectures and nesting.  Assumed is that a key but a dependency's has
one line at most, that values are of the shape their parsers take and only
those of dependencies and REQUIRED_USE can fail to parse (`FilesAreCaches`), and
that the four other keys are not those of dependencies (`KeysAssumption`).

* The texts.  `RecursionExists` shows by induction on the level that the
  functions there are exist.  A list without groups is its text
  (`ParsedIsText`): the grammar then loses nothing.  On such a text an object
  that counts is a term that holds, if no condition is where terms are counted
  (`CountsOnlyIfHolds`), and a term counts exactly if it holds, if there is no
  condition at all (`CountsAsHolds`); the bodies of `^^` and `??` need the
  second also where only the first is asked for, since one more that holds would
  be too many.
* The reading.  `LineRead` says what one line changes for each key and
  `OneChange` that what is changed at one line only has in the end the value that
  this line gives.  Keywords and flags are those of the last token that names
  them (`KeywordsOfIs`, `IUseOfIs`).  A reading without an error is
  of lines that can all be used (`ErrorOfReading`), and one of such lines into an
  `Ebuild` without dependencies is without an error (`NoErrorOf`).
* The steps.  An `Ebuild` that was read without error is `Whole`; but
  `MetadataIsWhole` is not inductive, since it says nothing of an `Ebuild` whose
  reading failed, from which the next reading begins.  `MetadataInv` says that it
  is blank before its first reading, the whole of its file after one of a file
  that can be used, and after one of a file that cannot, never initialized:
  the dependency that is met a second time, or does not parse, is so again.  A
  file that can be used is read again with an error if it has dependencies; that
  the record is left as it was needs that keywords and flags come out as before
  (`IUseTwice`).

Only model-checked:

* liveness (`server_live`, `message`, `resolver`), which is out of the prover's
  reach;
* the four runs that show a violation, which are counterexamples.

## Not modelled

* The grammar of dependencies (`depend.y`): `Resolver` takes dependencies as
  parsed, `EbuildMetadata` only whether they parse.
* Suggestions of `RequiredUseException` (`resolve.py`), which are a text for the
  user.
* The small map, from which any deletion frees memory twice, and the string
  vector; neither has a user.
* `set_collapse` and freeing a set, which call a pointer that is not set.
* Addresses of the client, `start` or `stop` without the other (undefined
  behaviour of `pthread_join`).
* Logging, registration of Python types, build files, tests and resources.

## Plan

1. `Resolution`: what a stable resolution is (closed, flags agreed), which
   `Resolver` implements as long as nothing raises and nothing is changed; it
   would state what `_is_dirty` and conditional dependencies should do
   (`resolve.py:474`, `resolve.py:102`).
2. The grammar of dependencies, with the conditions it builds.
