# aimrocks in TLA+

aimrocks is a Cython wrapper around RocksDB: `src/src/aimrocks/lib_rocksdb.pyx` holds the whole
implementation, the `.pxd` files declare the C++ side, four small headers under
`include/rdb_include` call Python objects from C++.  RocksDB itself is outside of the repository.
The wrapper does three things that are hard to get right and hard to test:

* it decides when C++ objects are deleted, by Python reference counts, weak references and an
  explicit `close()`, while other threads run C++ calls without the GIL;
* it leases options objects, and the Python comparators and merge operators they own, to databases
  and column families;
* it lets RocksDB call Python back, from the caller's thread and from background threads.

`DBLifecycle` models the first two, `GilCallbacks` and `CallbackOwnership` the third.  Around them are
the objects a program works with: iterators (`IteratorCursor`), batches (`WriteBatch`), merge operators
(`MergeOperators`), and what the writing calls promise for the case of a crash (`DurableStore`).  Line numbers
below refer to `lib_rocksdb.pyx`.

## Inventory

| Component | State | Operations | Hard behaviour | What makes it correct |
|---|---|---|---|---|
| DB object (1613-1761) | `db`, `opts`, `cf_handles`, `cf_options` | constructor, `close`, `__dealloc__` | GIL released in the middle of the constructor and of `close`; failures half way; last reference dropped in any thread | the database outlives its users and its handles |
| Column families (751-851, 2199-2239) | wrapper -> C++ handle, weak handle -> wrapper | create, drop, `get_handle`, `get_column_family` | raw pointers used without the GIL; indices looked up after a C++ call | no call uses a deleted handle; the two lists stay paired |
| Options leases (`in_use`) | one flag per options object | set by constructor and create, reset by drop and close | check and set on two sides of a GIL release; flags set before a call that fails | one user per object; a flag means a user |
| Key-value calls (1772-1963, 2080-2193) | in RocksDB | put, get, delete, merge, write, flush, ... | run in parallel, without the GIL | they find the database and handles alive; durability |
| Iterators, snapshots (1965-2078, 2264-2442) | C++ object, DB reference | create, move, read, release | outlive the program's reference to the DB; errors while moving | they keep the DB alive; each item once |
| WriteBatch (1460-1573, 1857-1865) | C++ batch; iterator: items, position | put, merge, delete, clear, iterate, write | slices into a buffer that grows; written without the GIL | the iterator reports what was put; a batch outlives its users |
| Merge operators (`merge_operators.py`) | none | merge | C++ groups operands as it likes | associativity, 64 bits |
| Callbacks (127-562, 1171-1226) | C++ wrapper -> Python object, `py_*` fields of options objects | setters; compare, merge, filter, transform | background threads and the GIL; options let go of before C++ is done; exceptions | no deadlock; the object is there when it is called |
| Option setters (854-1456) | C++ structs | properties | tables, partial updates | setter and getter agree |
| Factories, caches (460-748) | C++ objects | constructors | none | |
| Backup, secondary, repair (1681-1695, 2096, 2242-2261, 2445-2547) | in RocksDB | backup, restore, catch up | crash between steps, ignored status | a restored database is a past one |
| Status, conversions, `lib_utils`, build | none | | none | |

The DB object is the centre: iterators and snapshots hold a reference to it (2271, 2316, 1999), a
running method holds one on `self`, and it holds the wrappers of the C++ column family handles.
A program's `ColumnFamilyHandle` is only a weak reference to such a wrapper.

## Modules

| Module | Content |
|---|---|
| `DBLifecycle` | the specification: threads, DB objects, options leases, column family handles, iterators and snapshots |
| `MCDBLifecycle` | values of its constants for TLC |
| `OptionLease` | abstract specification: what `in_use` promises of a ColumnFamilyOptions object |
| `DBLifecycleProofs` | lemmas about the helpers, type correctness, the options leases and their refinement of `OptionLease` |
| `DBLifecycleHandles` | column family handles: the lists stay paired, nothing outlives its database without an explicit `close()`, handles outlive the calls that use them |
| `GilCallbacks` | the specification: the GIL, methods that release or keep it, callbacks in the caller's thread and in background jobs |
| `MCGilCallbacks`, `GilCallbacksProofs` | values for TLC; type correctness, no stand-off without `compact_range` |
| `CallbackOwnership` | the specification: who refers to a Python callback while RocksDB may call it |
| `MCCallbackOwnership`, `CallbackOwnershipProofs` | values for TLC; its two invariants for all constants |
| `CursorCalls` | the methods of an iterator, their answers and where they may leave it |
| `Cursor` | abstract specification: what an iterator promises, one call at a time |
| `IteratorCursor` | the specification of `BaseIterator` and `ReversedIterator`, and its refinement of `Cursor` |
| `IteratorCursorProofs` | the refinement, and that only bytes that are there are read |
| `WriteBatch`, `MCWriteBatch` | the specification: batches, their iterators, `DB.write`; values for TLC |
| `WriteBatchProofs` | its two properties for all constants |
| `DurableStore`, `MCDurableStore` | the specification: writes, log, tables, backups and crashes; values for TLC |
| `DurableStoreProofs` | its three properties for all constants |
| `MergeOperators` | the specification: the two shipped operators on one key |
| `MergeOperatorsProofs` | its property for all constants |

### DBLifecycle

Python code runs under the GIL, so what a method does between two points where it releases the GIL
is one action.  A method with a `with nogil` block is split there: an action that enters the block
(`Open`, `Create`, `Drop`, `Call`, `Close`), a step inside it where the moment of the C++ effect
matters (`CreateInCpp`, `DropInCpp`), and an action from the end of the block to the return
(`OpenDone`, `CreateReturn`, `DropReturn`, `Return`, `CloseReturn`).  `frame[t]` is what the
method of thread `t` has on its stack: the DB (`self`), the C++ handles it uses (`raw`), the wrappers
its local variables keep alive (`pin`), the options it was given.

| Variable | In the code |
|---|---|
| `cpp[d]` | `DB.db`: `null` before the open, `open`, `deleting` inside `del self.db`, `deleted` after an explicit close |
| `optsOf`, `cfHandles`, `cfOptions` | `DB.opts`, `DB.cf_handles`, `DB.cf_options` |
| `inUse` | `in_use` of Options and ColumnFamilyOptions |
| `family[h]` | what the C++ handle inside wrapper `h` refers to; `None` once the handle is deleted |
| `child[k]` | the `db` reference of an iterator or snapshot |
| `held` | the DB objects the program has a reference to |

Reference counting is computed, not stored: `Referenced(d)` says whether the program, an iterator, a
snapshot or a running method refers to `d`, and `Reap` deletes the handle of every wrapper that
no list and no local variable has any more.  A DB slot that was deallocated is used again, so
the model has no bound on the number of databases opened one after the other.  The same holds for
handles, iterators and snapshots; a handle slot waits (`Unmade`) while a method has a C++ handle from it, so
that a deleted handle is never taken for a new one.

What the program does is free up to `Liberties`: whether it opens with an Options object while another
open with it runs ("share"), drops a family while another thread uses its handle ("race"), passes
the handle of another DB ("foreign"), calls `close()` ("close").  `Failures` says which C++ calls
may return an error.  A run's claim is thus relative to a stated discipline, and the same model
shows what breaks without it.

One thing the model found and now states: the loop over `cf_handles` in `create_column_family` (2204)
leaves its variable on the last wrapper, which stays alive during the C++ call.  When another
thread drops that family meanwhile, its weak handle still resolves.

`OptionLease` is a page that says what the flags are for: a ColumnFamilyOptions object is free, claimed by a
call, used by one database, or lost (a call that failed had claimed it).  `Lease(c)` computes which of them from who has `c` in
its frame, who lists it in `cf_options` and whether it is flagged, and `FamiliesLeased` says that every step of `DBLifecycle` is a
`Claim` (the checks of the constructor, `create_column_family`), a `Reject`, a `Fail`, a `Deliver`, a
`GiveBack` (`drop_column_family`, `close`) or a stutter.  It says of a step what `FamilyOptionsExclusive` cannot: that no
other thread's step moves an object from one user to another, and that only the database which uses it frees it.

Not modelled in this module: names of column families (a duplicate name makes `create_column_family`
raise before it changes anything), loggers
injected after an open (1712-1738), the value of what calls read and write.

### GilCallbacks

RocksDB calls Python objects (comparator 192, filter policy 249-280, merge operator 377-457,
slice transform 514-562) through functions declared `with gil`, in the thread that called it and in its
background threads.  Whether that can stop the system depends on who holds the GIL meanwhile:

| Variable | In the code |
|---|---|
| `gil` | the thread or background job that holds the GIL |
| `at[t]` | `out`: in Python; `handles`: in `cf_handles.clear()` of `close()`; `cpp`: in the C++ call; `callback`: asking for the GIL; `python`: in the callback; `called`: after it; `wait`: the C++ call waits for jobs; `back`: at the end of the `with nogil` block |
| `call[t]` | the method of DB |
| `awaited[t]` | the background jobs that the C++ call waits for |
| `job[j]` | `idle`, `run` and, as above, `callback`, `python`, `called` |

`Released` and `Kept` sort the methods by whether their C++ call is inside a `with nogil` block: of the
methods that call into the database's data only `compact_range` (2166) and
`try_catch_up_with_primary` (2097) are not; nor are the destructors of iterators (2322) and of a dropped
family's handle (763, 2236), which `delete` stands for.  `close()` is in two parts: the handles go with the GIL
held (1751), `DeleteDb` gives it up for the database (1757).  That deleting handles and iterators waits for no job
is an assumption about RocksDB, whose own mutexes are not modelled.  One method stands for each way of behaving: `get` for the reads (they only call
back), `put` for the writes (they may be stalled until a job is over), `flush` and `close` for those that
wait for jobs.  How RocksDB runs jobs, and which calls wait for them, is outside of the repository and
modelled loosely: any job may start at any time, a call may wait for any set of them.  A DB whose callbacks are all written in C++ is the case in which `Callback` and
`JobCallback` never happen; `compact_range` does no harm there.  The callbacks that
a call or a job makes one after another are one that may lose the GIL any number of times.

Not modelled: what a callback returns or raises, RocksDB's own mutexes, threads that close a DB while
another is in a call (that is `DBLifecycle`).

### CallbackOwnership

A Python comparator, merge operator, filter policy or slice transform is wrapped (139, 223, 324, 483), and
the wrapper hands C++ a bare pointer to it: `<void*>ob`.  RocksDB copies the C++ options when it opens a
database or creates a column family; the wrapper is owned by the `py_*` field of the options object only.

| Variable | In the code |
|---|---|
| `owned[o]`, `pointer[o]` | the `py_*` field of an options object, and the pointer in its C++ struct |
| `program` | the options objects the program refers to |
| `dbOpts`, `entry[f]` | `DB.opts` (or the constructor's argument), `DB.cf_options` |
| `making[f]` | the argument of a running `create_column_family` |
| `memory[f]`, `dropped`, `user[u]` | RocksDB: the families in memory with the callback they were opened with, those of them that are dropped, and who uses one |

`db` says how far the constructor or `close()` has got: `Close` clears `cf_options` (1752-1755) and `CloseDone`
is the end of `del self.db`, background jobs included.  `Drop` lets go of the options (2235) while the dropped family
stays in memory as long as an iterator, a call or a job uses it.  One callback of each options object stands for all five fields.
`SetCallback` needs a wrapper that is new, as the setters of all but the two factories make one; a program that gives one factory
to two options objects keeps it alive at least as long.

The program may set and forget what it likes at any time: the code refuses neither.  `replaced` is a history
variable: the callbacks a setter has replaced while RocksDB had a pointer to them.  These are lost, and
`ListedFamiliesKeepCallbacks` says, of every program, that no others are, as long as the DB lists the family, or
the family has the DB's Options, or the program keeps the family's options object.  What it leaves out goes wrong in the
code, and `JobsFindCallbacks` in `callback_gone` shows it: a forgotten options object of a family that is closed or dropped
while RocksDB is not done with it.

### Cursor and IteratorCursor

`IteratorCursor` splits each method at its GIL releases: `Valid()` under the GIL (`Iterate`, `Get`, `Skip`),
`key()` and `value()` without it (`Read`), the status and the copy (`Copy`), the move without it (`MoveInCpp`), the
status after it (`Check`).  `frame[t]` is the call of a thread; its `item` is what the slice refers to, and `fresh` turns false when the cursor
moves from under it.  `next` and `prev` stand for `next()` and `__next__` of a reversed iterator, which
work on one cursor (2406-2442).  A move may fail at any time; RocksDB then has an iterator that is not
valid and an error status until the next seek.

`shared` says whether the program uses the iterator in several threads at a time.  If not, the calls
implement `Cursor`: `place` is `pos`, and `answer` is the answer of the last call, from the moment the cursor has moved on
what the call is going to return.  `Cursor` is a specification of a page that
says what a user of an iterator may count on: an item per call, in order, each once; at the end `None`, `StopIteration` or `ValueError`; a move that fails
is reported by the call that made it, loses that call's item and leaves the iterator nowhere.

### WriteBatch

An iterator lists its batch when it is made (1538): for each record the kind and two slices into the
buffer of the batch; the bytes are copied when the record's turn comes (1557-1571).  `intact[i]` are the numbers of
the records whose bytes are still what they were: more records may come in place (after a `clear()` over the old bytes) or move
the buffer, `clear()` itself leaves the bytes.  `Collect` is the reference count: a C++ batch is deleted
when neither the program nor an iterator (1535) nor a running `DB.write` refers to its wrapper.  `careful` says whether the
program leaves a batch alone while it is iterated or written.

### DurableStore

A write is a batch over some families; `put`, `delete`, `merge` are batches over one.  Every call enters
C++ without the GIL, goes on in steps that those of other threads and crashes may come between, and returns or raises.

| Variable | In the code, or in RocksDB |
|---|---|
| `call[t]` | the call a thread is in, its options and what it promises |
| `present` | the records, `<<write, family>>`, that a read would find |
| `tables`, `log`, `synced` | those on the disk in table files, the writes in the log, those whose log is on the disk |
| `asked` | history: the records written for callers who left `disable_wal` off |
| `returned`, `kept`, `promised` | history: the writes that returned; the records that are to survive the death of the process, and of the machine |

The wrapper's part is small and decides everything: which options it hands over (1774-1776 and likewise
in each method), that `flush()` is for the default family (1828), that `create_backup` does not flush unless told
to (2467), that an error status becomes an exception.  RocksDB's part is modelled as its documentation has it and the wrapper relies on:
a batch is logged as one; the log is replayed in order up to where it ends; with several column families the log is synced before tables are
written; deleting a database may write its tables out and reports nothing; a flush before a backup is one of all families.
`ProcessDies` keeps the log that was written, `MachineCrashes` a prefix of it that holds what was synced.
Calls to write are not retried, and a call that raises promises nothing, whether or not its write is there later.

### MergeOperators

`operands` is what RocksDB has above `value`: `DoMerge` adds one, `CompactDown` applies the lowest ones to the value, `CompactPair` merges
two neighbours without it, as `AssociativeMergeOperator` does for both.  `history` is the same key as the program wrote it.
A number is bounded by `Limit`, which stands for 2^64; a sum that does not fit makes `pack` raise and the merge
fail (8, 401-404).  Strings are sequences of the parts between commas.  `empties` says whether the program merges `b''`: both operators take an empty
existing value for none (6, 16), so with `b''` among the operands the result depends on the grouping, and
`CompactionsDoNotShow` is about the others; with `b''` TLC finds it violated.  That a sum that does not fit fails the merge assumes that
the callback gets to `return False` (404): the conversion to bytes before it may raise, and what C++ is told then is not modelled.

## Runs

| Run | Question | Expected |
|---|---|---|
| `disciplined` | With no liberty and every failure: are handles alive in calls, does an Options object serve one DB? | pass |
| `not_closed` | With every liberty but `close()`: does the database outlive calls, handles, iterators and snapshots; does an options object ever serve two families, do the flags implement `OptionLease` (refinement)? | pass |
| `teardown` | With every liberty, on one DB: do the lists stay paired, does a set flag always mean a user where only drops fail, is an abandoned DB torn down (liveness)? | pass |
| `python_callbacks` | Without `compact_range`: does a thread ever hold the GIL and wait for a job? Is every callback of a job executed, does every method return? (liveness) | pass |
| `callback_ownership` | Whatever the program sets, forgets, drops and closes: which callbacks are there when RocksDB calls them? | pass |
| `iterator_cursor` | Is an iterator that is used by one thread at a time a `Cursor` (refinement); does it read only what is there? | pass |
| `write_batch` | Does an iterator give its batch; is a batch deleted under an iterator or a write? | pass |
| `durable_store` | Does what a call promises survive; do the writes whose callers left the log on survive in order and whole; is a backup complete? | pass |
| `merge_operators` | Does a key read the same however compactions grouped its operands? | pass |
| `shared_open` | `OptionsExclusive` when two threads open with one Options object | violated |
| `compact_standoff` | `CallbacksServed` when the program calls `compact_range` | violated |
| `callback_gone` | `JobsFindCallbacks` when the program forgets an options object | violated |

The violated ones are disagreements between the code and what its comments, error texts or tests
say; PROJECT.json quotes the lines.

* `shared_open`: both threads pass the check (1640), both open, both set the flag (1741).
* `compact_standoff`: `CompactRange` is called with the GIL (2166) and waits for a job that asks for it.
* `callback_gone`: the program forgets the options object of a family; `close()` clears `cf_options` (1755), the
  callback goes, and a background job of the database that is being deleted still has its address.

The properties of the passing runs hold under the discipline each run states.  TLC shows what
happens without it when the constants are widened, or `careful` and `shared` left open:

* `DbLiveInCalls` and `ChildrenBeforeDb` fail with "close": 1758 deletes a database that an explicit `close()`
  has deleted, or that calls and iterators use.
* `HandlesBeforeDb` fails with "close" next to a creation, which has its C++ handle and has not listed it (2212-2216).
* `HandlesLiveInCalls` fails with "race" (a drop returns and deletes, 2236, the handle another call uses), with "foreign" and with "close".
* `OptionsExclusive` fails with "share", and with "close" (1761).
* `OptionsNotShared`, `FamilyOptionsExclusive` and `FamiliesLeased` fail when an Options object is among `COpts`: both roles have one flag, which a
  drop (2239) or the other DB's `close()` resets while the object is in use.
* `FamilyFlagsEarned` fails with failing opens or creations: 1669 and 2211 set flags that nobody resets.  `FamiliesLeased`, which holds with every
  failure, says that the object is then lost for good.
* `ReadsTheItem` fails for an iterator that threads share, and `GivesTheBatch` for a batch that gets records while it is iterated: its items are
  slices into a buffer that moves (1524-1525, 1538).

**Bounds of `DBLifecycle`.**  Two threads are enough for every race here, as each needs one thread on either side of a
GIL release; two databases let options move from one to the other and handles be foreign; two
ColumnFamilyOptions let a list hold two families with options of their own besides the default one.  The
number of wrappers bounds the C++ handles that exist at once: an open or a creation waits when none is
free, which cuts behaviours but adds none.  `teardown` has one DB object, which is opened again after each teardown: a flag that is left over keeps
the options from the next one.  Threads, databases, handles and children are interchangeable (symmetry), except in
`teardown`, the liveness run.

**Bounds of the others.**  Of `GilCallbacks`, two threads let one wait while the other runs, calls back or keeps the GIL.
One job is enough for the stand-off and for every wait: jobs share nothing but the GIL, and the invariant is proved
for any number of them.  With two, TLC does not finish the strong fairness conditions.
Deadlock is checked in every run but `compact_standoff`, where the system stops: that is
what the run shows.  `CallbackOwnership` has three options objects (the DB's, a family's, one to
create with), four wrappers (one for each and one to replace it) and two families; one call and one job
use them.  `IteratorCursor` has three items, so that one is neither first nor last, and two threads.  `WriteBatch` has two of everything, and at most
`MaxRecords` = 2 records in a batch: enough for a range record before or after another one and for a
cleared buffer that is filled again.  `DurableStore` has two calls under way, two families, batches over one and over both, and
`MaxWrites` = 2 writes, one of which a crash may lose while the other is there; crashes, flushes, backups and reopenings are not
bounded.  `MergeOperators` has numbers below `Limit` = 4, two letters and `MaxOperands` = 5 operands since the last
put, so that sums of the first few, of the last few and of all may or may not fit.

**Fairness.**  In `DBLifecycle`, `Proceed(t)` is weakly fair: a C++ call returns and the GIL is handed on.  `Dealloc(d)`
is strongly fair over all threads: CPython deallocates an object in the very step that drops its
last reference, but here this is a step of its own which needs an idle thread, and other calls
can keep threads busy in between.  Nothing else is fair: the program need not make any call.

In `GilCallbacks` whoever keeps asking for the GIL gets it in the end (`CallbackEnter`, `Return`,
`JobEnter` are strongly fair): CPython makes a thread that runs give the GIL up after the switch
interval when another one asks (`Yield`), and the operating system wakes every waiter at some time.  `Yield`
is strongly fair too, since a thread that runs Python between two methods that keep the GIL must let
others in at some time.  A callback ends, a call or a job ends.  No fairness makes a program call
anything, or a call wait or call back.

The other specifications state safety only: their calls are bounded C++ calls, whose returning is the subject of
`GilCallbacks`.

## Theorems

All are proved for every value of the constants.  Those about `DBLifecycle` use its assumptions
(`None` is not one of the objects; the families a DB is opened with are distinct and not empty; the
names in `Liberties` and `Failures` are the known ones; `None` is not a description of a family).
Where a theorem assumes more, that is the discipline under which a run checks the property, and TLC shows
the property violated without it (see above).

* `TypeCorrect` (DBLifecycleProofs): `Spec => []TypeOK`.  The invariant `TypeInv` adds what a frame
  holds in each place and that the two lists have equal length, without which `cfOptions[d][i]` in
  `DropReturn` would have no type.  `AloneInv`, which the next theorems share, says that a constructor and a
  `__dealloc__` have their DB to themselves.
* `FamilyLeasesExclusive` (DBLifecycleProofs): `Spec => []FamilyOptionsExclusive`, if no Options object is among
  `COpts`; for all liberties and failures.  `LeaseInv` says without counting that an object is in one
  place at most, and adds that the list a constructor was called with names no object twice: `OpenDone`
  makes that list the one of the DB.
* `FamiliesStayLeased` (DBLifecycleProofs): `Spec => FamiliesLeased`, under the same assumption.
  `LeaseInv` makes `Lease(c)` a function of who reserves `c`, who lists it and its flag (`LeaseMeans`); one
  lemma for each kind of step of `OptionLease` then says what an action must do to these three.
* `FamilyFlagsStayEarned` (DBLifecycleProofs): `Spec => []FamilyFlagsEarned`, if `Failures` has nothing but
  "drop".  A reservation that a failing open or creation gives up leaves its flag behind: exactly these
  failures are excluded, and no liberty is.
* `OptionsStayExclusive` (DBLifecycleProofs): `Spec => []OptionsExclusive`, if no Options object is among
  `COpts` and neither "share" nor "close" is a liberty.  `OptsInv` says that nobody flags the Options a
  constructor has checked until it is done (so no two constructors may have the same), and that a `__dealloc__`
  resets the flag of Options only its DB has.  After an explicit `close()` the flag is reset while the DB keeps its Options (1761).
* `ListsStayPaired` (DBLifecycleHandles): `Spec => []ListsPaired`, for all liberties and failures.
  `ListsPaired` is not inductive.  `OwnInv` says what a running `create_column_family` owns (a live handle that is
  in no list, of this DB, made with these options, and not another thread's), and that a live handle is in
  a list or in a local variable: so a handle that is handed out again is in no list.
* `CallsEndBeforeDb`, `HandlesEndBeforeDb`, `ChildrenEndBeforeDb` (DBLifecycleHandles):
  if "close" is not among the liberties, `DbLiveInCalls`, `HandlesBeforeDb` and `ChildrenBeforeDb` always hold.  `RefInv` says that only a `__dealloc__` deletes a database, that it is
  there until it has finished, and that whatever refers to a DB refers to an open one.
* `HandlesOutliveCalls` (DBLifecycleHandles): `Spec => []HandlesLiveInCalls`, if "race", "foreign" and
  "close" are not among the liberties.  `HandInv` says that a handle a call uses is in the list of the call's DB, and that
  a drop has its handle to itself; with `OwnInv` a listed handle is alive.
* `CallsAccounted`, `NoStandoffWithoutCompact` (GilCallbacksProofs): `Spec => []TypeOK` for all programs; and if
  the program does not call `compact_range`, no
  thread ever holds the GIL while its C++ call waits for jobs, for any number of threads and jobs and
  whatever is called back.  `GilInv` says that inside a C++ call only a method of `Kept` has the GIL and
  only a method of `Waiting` waits; `compact_range` is the only one in both.  The assumption `GilAssumption` says
  that threads, jobs and `None` are distinct and that the methods are the known ones.
* `OwnershipTypes`, `ListedFamiliesSafe` (CallbackOwnershipProofs): the two invariants of
  `CallbackOwnership`, for every program and any number of options objects, callbacks, families, calls and jobs.  The invariant
  traces a callback to whoever keeps it: unless a setter has replaced it, the one RocksDB copied is the one that the `py_*` field of the
  options object owns (`Traced`, which needs that a new wrapper is none RocksDB knows); a family that is in memory without being dropped has its
  options object in `entry` or `making`, unless `close()` cleared them (`Backed`).
* `ReadsSafe`, `ImplementsCursor` (IteratorCursorProofs): `Spec => []ReadsTheItem` and
  `Spec => Promise!Spec`.  The invariant says that at most one thread is in a call of an iterator that is not shared, where
  the cursor stands at each point of the call, and that an error status goes with a cursor that is nowhere; each step of
  the code is then a `Move`, a `Look`, an `Exhausted` or a stutter of `Cursor`.  The only assumption is `N \in Nat`.
* `PromisesSurvive`, `BackupsHoldAll`, `SurvivesInOrder` (DurableStoreProofs): the properties of
  `DurableStore`, for any threads, families, batches and bound.  `PromisesKept` is not inductive: the invariant adds what
  makes a record safe (a promised one is in a table or its log is synced, a kept one in a table or logged), what each
  point of a call knows of the records it is due for, and that with several families no table is ahead of the synced
  log, which is why a crash cannot keep one family's part of a batch without the others'.  The order starts at the caller's `disable_wal`: what he
  wanted logged is logged (`AskedLogged`), whatever sync and flush do besides.
* `IteratorsGiveTheBatch`, `BatchesStay` (WriteBatchProofs): the properties of `WriteBatch`, for batches of any length.  The invariant
  says that whatever may refer to a batch keeps it in existence, and of an iterator over a batch that
  was left alone that it has listed the batch's records, all of their bytes are in place, and it has given the
  first `pos` of them.
* `CompactionsNeverShow` (MergeOperatorsProofs): `Spec => []CompactionsDoNotShow`, for every `Limit`, every set of parts
  and any number of operands.  The invariant adds that what is stored is never empty where the program merges no
  `b''`.  The rest is about `FullMerge`: it takes two lists one after the other (`FullMergeConcat`), and merging
  two neighbours first makes no difference, a failure included (`AppliedAssociative`).  Both are proved by induction on the
  length of a list.

The proofs about `DBLifecycle` rest on `OthersStay` (a step changes one frame) and on one lemma per kind of step.
Induction theorems of the library take an operator as parameter, which the provers cannot instantiate; `NatSets`
in MergeOperatorsProofs states the induction for a set of numbers, from the library's `WFMin`, and is used with the set of the numbers of
which the claim holds.

Every invariant, action property and refinement that a passing run checks is thus proved too.  Only model-checked
are the liveness properties `Reclaimed`, `CallbacksServed` and `EveryCallReturns`: fairness and `ENABLED` are outside of the prover's reach.

## Not modelled

* What the reads return (`get`, `multi_get`, `key_may_exist`, properties, live files): a C++ call and a copy.
* `restore_backup` and the other methods of `BackupEngine`, `repair_db`, `list_column_families`: one C++ call each, whose arguments are handed on.
* What a secondary sees of its primary: the wrapper passes `TryCatchUpWithPrimary` on and drops its status (2097).
* Option setters without a Python object, factories and caches: copies of numbers into C++ structs.
* What Cython returns to C++ when a callback's error handling raises (404), and reference cycles through
  iterators (2309).

## Plan

Done: `DBLifecycle` with `OptionLease`, `GilCallbacks`, `CallbackOwnership`, `IteratorCursor` with `Cursor`, `WriteBatch`,
`DurableStore`, `MergeOperators`, and a theorem for each of their safety properties.  Next:

1. Where Options objects are among `COpts`: which part of `FamilyOptionsExclusive` still holds, and under which discipline.
2. What holds with an explicit `close()`: the part of `RefInv` that survives if nobody uses a DB object after it.
3. An abstract store (what survives a crash, as a log with two marks) that `DurableStore` implements.

Each run answers one of the questions above.
