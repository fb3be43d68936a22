# GNU uCommon C++: TLA+ models, checks and proofs

GNU uCommon is a C++ class library. Its core (`corelib/`, `inc/ucommon/`) builds
every thread synchronization object it offers out of one POSIX mutex and one or two
condition variables, and on them reference counts, shared arrays and maps, timers,
pagers, strings, dates, streams and configuration files; the GNU Common C++ layer
(`commoncpp/`) adds thread queues, a serial port service, shared files, XML and
object persistence. What a unit test of it hardly reaches is who runs between a
signal and the moment the signalled thread has the mutex again, what a timeout or a
failed write leaves behind, who is left asleep, and which long sequence of legal
calls brings a list, a buffer or a file into a state it should not be in. This
project models that code, checks it with TLC, and proves with TLAPS what it says of the
locks, synchronization objects and pools, of threads, buffers, queues, the serial
service, references, arrays, maps, hash tables and shared files, and of linked lists,
timers, pagers, streams, strings, dates and the XML parser.

## The system

| Part | State | Operations | What is hard | What makes it correct |
|---|---|---|---|---|
| `Conditional`, `ConditionalAccess` base (`condition.cpp`) | mutex, `cond`, `bcast` | `lock`, `wait`, `signal`, `broadcast` | barging, lost and spurious wakeups, timeouts | POSIX semantics |
| `ConditionalAccess` (`condition.cpp`) | `sharing`, `pending`, `waiting` | `modify`, `commit`, `access`, `release` | `modify` keeps the mutex; who is woken | exclusion, nobody stranded, all calls return |
| `ConditionalLock` (`condition.cpp`) | the same and a list of per-thread contexts | also `exclusive`, `share` | nesting, conversion, contexts reused across a wait | the code's own assertions, exclusion, no lost wakeup |
| `RWLock` (`thread.cpp`) | the same and `writers`, `writeid` | `modify`, `access`, `release`, all with timeouts | timeouts racing signals, writer preference | exclusion, exact counters, writers first, nobody stranded |
| `Semaphore` (`condition.cpp`) | `count`, `used`, `waits` | `wait`, `wait(timeout)`, `release`, `set` | limit changed in use, signals sent one by one | never over the limit, no slot wasted |
| `Barrier` (`condition.cpp`) | `count`, `waits` | `wait`, `wait(timeout)`, `set`, `inc`, `dec` | count changed in use, timed-out arrivals | opens exactly when all are there |
| `RecursiveMutex` (`thread.cpp`) | `lockers`, `waiting`, `locker` | `lock`, `lock(timeout)`, `release` | count on failure paths | one holder, count is depth |
| `TimedEvent` (`thread.cpp`) | `signalled`, timer | `signal`, `reset`, `wait`, `wait(timeout)`, `sync` | signal racing the timer | one wait per signal, none missed |
| Lock pools: `Mutex::protect`, `RWLock::reader/writer` (`thread.cpp`) | hash table of lists of counted entries | `protect`, `lock`, `release` | entry chosen under one lock, waited for under another | one lock per pointer at a time |
| `ReusableAllocator`, `ArrayReuse`, `PagerReuse` (`thread.cpp`, `reuse.cpp`) | free list, `used`, `count`, `waiting` | `get`, `request`, `release`, `avail` | pool at its limit, barging | no object in two places, no waiter beside a free object |
| Thread life cycle (`thread.cpp`, `commoncpp/thread.cpp`) | `running`, `joining`, `active`, `tid`, `terminated` | `start`, `join`, `exit`, `final`, destructors | child runs before `start` ends; self-join; self-delete | no use after delete; each end reported once |
| `FixedBuffer`, `ThreadQueue` (`commoncpp/thread.cpp`) | ring; list of data | `post`, `peek`, `wait`; `post`, `run`, timer | one condition for both sides; head read without the mutex | order kept, each item once |
| `SerialService` (`commoncpp/serial.cpp`) | list of ports, timers, detect flags, update pipe | `attach`, `detach`, setters, `run` | changes while the service sleeps in `select` | no call to a port that is gone; everything wanted is watched |
| Reference counting (`typeref.cpp`, `shared.cpp`, `object.cpp`) | counts, guarded pointers, list of objects to release later | `retain`, `release`, `set`, `get`, `put`, `purge` | copy racing the last release | count is the references; alive while referenced, freed once |
| `ArrayRef` (`arrayref.cpp`) | ring of references, `head`, `tail` | `push`, `pull`, `pop`, `reset` | full, empty, wrap-around, three modes | sequence semantics, nobody asleep beside what it waits for |
| `MapRef`, `MappedPointer` (`mapref.cpp`, `shared.h`) | hash lists under a `ConditionalLock`, free list | `add`, `remove`, `access`, `modify`, iterators | keys that share a path, entries reused | map semantics, exact counts |
| `MapTable` (`commoncpp/map.cpp`) | hash lists and a free list of objects with a table pointer | add, detach, lookup, `MapIndex` | table tested outside the mutex | every object in the list its pointer says |
| Linked lists (`linked.cpp`, `linked.h`) | `Next`, `Prev`, `head`, `tail` | enlist, delist, insert, replace, purge | ends of lists, objects that move | sequence and dictionary semantics |
| `Timer`, `TimerQueue` (`timer.cpp`) | queue of events with their moments | arm, `+=`, `-=`, detach, `expire` | carries; callbacks that change the queue | nobody sleeps past an event |
| Memory pagers (`memory.cpp`) | pages, string list with index | `_alloc`, add, push, pull, set, sort, purge | rounding at the page's end | no overlap; the list is what was put in |
| `String`, UTF-8 (`string.cpp`, `unicode.cpp`) | counted, shared buffers | copy, assign, cow, set, add, trim, erase, paste | change in place or after a copy | exact counts, no text beyond its buffer, round trip |
| Dates (`datetime.cpp`) | `julian`, `seconds` | set, put, `+=`, `-=`, `++`, `--` | integer calendar, midnight | the Gregorian day, exact moves |
| Streams (`stream.cpp`) | put and get areas, device | overflow, sync, underflow, open, close | partial writes, failures, end of file | bytes in order, none twice, none missing |
| `keyfile` (`keydata.cpp`) | sections and keys | load, save, assign, set, clear | quoting and joined lines | what is saved is read back |
| `XMLParser` (`commoncpp/xml.cpp`) | state, buffer, element count | `parse` | one fixed buffer for everything | callbacks nest, text passed once |
| `PersistEngine` (`commoncpp/persist.cpp`) | archive maps and vectors | write, read | shared, circular and cut graphs | the graph read is the graph written |
| `SharedFile` (`commoncpp/file.cpp`) | record lock and position of each process | open, fetch, update, append, clear, `++`, `--` | position moved between lock and unlock | a fetched record stays the caller's |
| Sockets, file system, shell, regex, secure layer, logging | | | I/O and character handling | not modelled, see the end |

The parts meet in three ways. Everything blocking goes through `Conditional` or
`ConditionalAccess` and runs under its mutex; `RWLock` and `ConditionalLock`
inherit `ConditionalAccess` and share its counters; the lock pools, `MapRef`,
`ArrayRef` and the thread queues hold such locks inside, and their models take from
them what `SharedLock` or `CondVar` states and, for `MapRef`, how a sleeper in
`modify()` loses its context. `PROJECT.json` lists every part with its status and, under
`hazards`, each place where the code is exposed.

## How the models are written

A method runs its whole body under the object's mutex and gives the mutex up only
while it sleeps. So one action is the stretch of code from taking the mutex (or
from waking up with it) to the next sleep or to the unlock, and every counter
update, test and wakeup in that stretch is part of the action. A condition
variable is the set of threads asleep on it (`CondVar`). A thread that a signal,
a timeout or nothing at all removes from the set is awake but still needs the
mutex: it runs when its wake action is taken, and anybody may run before. This
is where barging, timeouts that race signals and spurious wakeups come from.

* `Timeout(t)` takes a thread out of the condition and marks it `expired`: its
  `pthread_cond_timedwait` will return `ETIMEDOUT`.
* `SpuriousWake(t)` takes it out without a mark; the constant `Spurious` says
  whether a run allows it.
* `Modes` are the timeouts callers pass: `"inf"`, `"timed"`, and `"try"` for a
  timeout of zero. Durations are not modelled: a timed wait may end at any time.
* Ghost variables record what the callers were told and did (`reading`, `depth`,
  `shares`, `way`, `held`, `released`, `passed`, `signals`, `failed`, `left`, `lowered`,
  `extra`, `items`, `dict`, `seqs`, `posted`, `got`), so that properties speak about the
  callers and not about the counters that are to be checked.
* An operator such as `ReleaseReadBroadcastFirst` just before `ReleaseRead` is a
  plausible wrong version of it. It is used by nothing; `PROJECT.json` lists it
  as a mutant, and the named property fails when it takes the original's place.

| Module | Models | Notes |
|---|---|---|
| `CondVar` | POSIX condition variables (external) | sets of sleepers |
| `SharedLock` | what `SharedProtocol` and `ExclusiveProtocol` promise | abstract specification of the three shared locks |
| `RWLock` | `RWLock::modify`, `access`, `release` | `Modify`, `ModifyWake`, `Access`, `AccessWake`, `Release` |
| `RWLockProofs` | theorems about `RWLock` | |
| `CondLocksProofs` | theorems about `ConditionalAccess` and `ConditionalLock` | |
| `SyncProofs` | theorems about the objects and pools of `MCSync` | |
| `ObjectsProofs` | theorems about the objects of `MCObjects` | |
| `ListProofs`, `DataProofs`, `TextProofs` | theorems about the structures of `MCData` | lists; XML, streams, timers and pagers; dates and strings |
| `ChainProofs` | lemmas about `Links` | what proofs about lists cite |
| `ConditionalAccess` | the base lock | `mutex` is the thread between `modify` and `commit` |
| `ConditionalLock` | the convertible lock | contexts as a sequence; unsigned arithmetic modulo `Word` |
| `Semaphore` | `Semaphore` | `set()` is `Set` followed by `SetSignal` steps |
| `Barrier` | `Barrier` | |
| `RecursiveMutex` | `RecursiveMutex` | |
| `TimedEvent` | `TimedEvent`, pthread build | one event thread |
| `LockPool` | the mutex pool and the read/write lock pool | the entry's lock is abstract, as `SharedLock` has it |
| `ReusePool` | `ArrayReuse`, `PagerReuse` | `heap` is which of the two |
| `ThreadLife` | `JoinableThread`, `DetachedThread`, `ost::Thread` | `kind` is which; `early`, `touched` mark the known races |
| `FixedBuffer`, `ThreadQueue` | the buffer and the queue thread of Common C++ | one condition for both sides; a signal may reach either |
| `SerialService` | `SerialService`, `SerialPort`, the `select` build | devices and clock are the environment |
| `RefCount` | `TypeRef`, `TypeReleaseLater`, `SharedRef` | counts are atomic; the steps of `release` are not |
| `ArrayRef` | queue, stack and fallback queue | `items` is the reference sequence |
| `Links` | walking a chain of `Next` pointers | used by the lists and maps |
| `MapRef` | `MapRef`, `MappedPointer` | `dict` is the reference function, `items` the reference sequence |
| `MapTable` | `MapTable`, `MapObject`, `MapIndex` | |
| `SharedFile` | `SharedFile` and the kernel's record locks | `Faults`: reads and writes that fail or are incomplete |
| `OrderedList`, `NamedIndex` | `OrderedObject`, `DLinkedObject`, tree children; `NamedObject` tables and chains | `seqs`, `dict` are the reference values |
| `TimerQueue` | `TimerQueue`, `Timer` | a second has `Sec` units; time passes between any two steps |
| `Pager` | `memalloc`, `StringPager` | addresses are page and offset |
| `StringRef`, `Utf8` | `String`, `memstring`; `utf8` | |
| `DateTime` | `Date`, `Time`, `DateTime` | checked against the Gregorian calendar |
| `StreamBuf` | `tcpstream`, `pipestream`, `filestream` | the device may take part of a write, fail or end |
| `KeyFile` | `keyfile`, `keydata` | lines as records, values by the quoting they need |
| `XmlParser` | `XMLParser::parse`, `partial` | one action per class of character in each state |
| `Persist` | `PersistEngine` | the stream is a sequence of tokens that may be cut |
| `Suite`, `MCSync`, `MCCondLocks`, `MCObjects`, `MCData` | several components in one run | see Runs |
| `MCRWLockLive` | `RWLock` for the liveness run | adds a bound on calls and fairness |

The callers' contract the models assume: only a thread that was granted a lock
releases it; a thread does not nest `RWLock::access` or `ConditionalAccess::access`,
and does not ask for the write lock while it reads (both wait for themselves);
objects outlive their users. `writeid` and `locker`, which the constructors do not
set, start as any thread.

## Runs

All bounds are small because the code treats threads alike: two threads race,
a third barges or waits behind, a fourth makes queues of two on both conditions.
Nesting depth two distinguishes the last level from the others. The larger runs
without a liveness property use symmetry over threads, processes or values.

Components that answer the same kind of question share a run. A behaviour of such
a suite is a behaviour of one of its components, named by the variable `part` (in
`MCSync` `object`, in `MCCondLocks` `lock`); nothing is composed, and a
property of the suite is the conjunction of its components' properties under
their names. `Suite` lends the components fifteen variables.

| Run | Instance | Shows |
|---|---|---|
| `rwlock` | four threads, all timeout modes, nesting two deep, spurious wakeups | `Accounting`, `NoStrandedWriter`, `WritersFirst`, and `RWLock` implements `SharedLock` |
| `rwlock_live` | three threads, no timed waits, two calls each | a sleeping reader always has somebody ahead of it (`NoStrandedReader`); every call returns |
| `rwlock_timed` (violation) | three threads, timed and untimed calls | `NoStrandedReader` fails: a writer's `release()` signals another that has just timed out, and the readers behind it sleep on a free lock |
| `condlocks` | four threads on the base lock, two calls each; three on the convertible lock, three calls each, shares two deep; spurious wakeups | both count exactly, strand nobody (`NobodyStranded`), keep the code's assertions, implement `SharedLock`, conversions both ways included; every call returns |
| `condlock_steal` (violation) | two threads, `modify()` without a share while the other shares | the context of the sleeping thread, with count zero, is taken over, and an assertion of `release()` fails |
| `sync` | four threads and limits one and two on a semaphore, counts up to four on a barrier, depth two on a recursive mutex; five signals of an event; three threads, three addresses on two lists; two reusable objects | no slot wasted, admission within the limit, rounds counted apart, count is depth, one wait per signal, one lock per address, no object in two places, nobody asleep beside what it waits for |
| `objects` | see below | the properties of what threads and processes share |
| `data` | see below | the properties of the sequential structures under long sequences of calls |
| `serial_deaf` (violation) | two ports, a fair service thread | `UpdatesHeard` fails: the service sleeps in `select()` with an update in its pipe |
| `buffer_lost` (violation) | two producers, one consumer, size one | `BufferMovesOn` fails: the signal of a `post()` wakes a producer, and the consumer sleeps beside an object |
| `shared_append` (violation) | two processes, a file of one byte | `AppendsAdd` fails: two appends lock different bytes and write at one place |
| `pager_starved` (violation) | two threads, one object | `ReturnEndsGet` fails: a `get()` sleeps beside a returned object |

`objects`: a thread started three times, of each kind; a buffer of two with two
producers and two consumers; a queue with two posters; a service with two ports that
is deleted at some point; two counted objects, one of them released later, two
threads; an array of three slots with three threads, in each of its modes; a map, a
list and a mapped pointer with three keys on two paths; two hash tables of two lists
with three objects; a file created by two processes with reads and writes that fail.

`data`: four objects on two lists, and under three names; two timer events over a clock
of four moments, two units to the second, with callbacks that make any call on either;
pages of seven and eight words, three strings; an XML buffer of ten characters with
elements two deep; dates at leap days and ends of centuries and times at midnight, three
moves in a row; two Strings and a memstring of one character; the UTF-8 codes on either
side of every limit; streams of each kind, buffered and not, three bytes each way; two
keyfiles of two sections and keys, with each way to quote a value; every graph of two
objects with two pointers each, with a class the reader may not know, and every point at
which its stream may be cut.

The bounds and why they suffice: `MaxDepth` and `MaxNest` (2) reach the first, a
further and the last level; `AccessCalls` and `LockCalls` (2 or 3) let every thread
come back once it has been through, share twice and convert, and `AllCalls` bounds
them together; `MaxUsed` and `MaxLockers` exceed the limits in play, so that being
over a limit is possible; `MaxCount` lets the barrier require all threads and fewer;
`MaxSignals` and `MaxGets` allow each signal and object to be used more than once;
`Word` exceeds what the counters can reach, so a count below zero is seen as a huge
one. Of the suites: `MaxPosts` and `MaxPushes` exceed the ring, so that indices wrap
around; two paths for three keys give collisions and an empty neighbour; `MaxPipe`
lets an update wait unread; `BufSize` is the smallest that holds the longest mark;
`MaxSlips` allows one use of each call that is known to break a count, so that its
consequences are seen and told apart from others.

### What the code does not guarantee

Six runs end in a violation and are findings in `PROJECT.json`: `rwlock_timed`,
`condlock_steal`, `serial_deaf`, `buffer_lost`, `shared_append`, `pager_starved`. The
passing properties say as exactly as they can where the guarantee of a component ends,
and these limits are part of what they say:

* `Semaphore::wait()` without a timeout tests the limit once (`condition.cpp:690`).
  A thread that takes the freed slot before the signalled one runs makes one too
  many, although `condition.h:682` says it waits "until the semphore usage count is
  less than the thread limit". `AdmitsRightly` excepts exactly these threads.
* `Barrier::dec()` never opens the barrier, so threads may sleep at one that enough
  of them have reached; the ghost variable `lowered` marks this in
  `BarrierRounds`. A thread that times out, or wakes for no reason, has left
  and stays counted; `left` counts these in `BarrierRounds` and `AdmitsRightly`.
* `RecursiveMutex::lock(timeout)` raises the count also when it returns false
  (`thread.cpp:304`), and nobody releases that count; `failed` in `CountIsDepth`.
* `TimedEvent::wait()` that had to sleep leaves the signal latched, and so does not
  use it up; `extra` in `SignalUsedOnce`. `sync()` returns false when the time
  expired, where `thread.h:309` says true.
* The lock pools keep free entries per list, so they may hold more locks than there are
  threads, which `thread.h:452` excludes; the bound in `PointerExclusion` is per list.
* `PagerReuse` never counts down when an object is returned, so a getter sleeps
  beside a free object once the limit has been handed out, against `reuse.h:254`; that
  nobody sleeps beside an object is stated of `ArrayReuse` only, and its failure for
  the other is the run `pager_starved`.
* `ConditionalLock::modify()` by a thread without a share is safe only when it does
  not have to wait: the run `condlocks` allows it exactly then (`FreshModify` false),
  `condlock_steal` always.

* `DetachedThread::start` writes `active` (`thread.cpp:1229`) when the thread may have
  deleted the object; a thread that joins itself is never joined again
  (`thread.cpp:1240`); `ost::Thread::start` clears `terminated` after the thread may
  have set it (`commoncpp/thread.cpp:258`). `touched` and `early` in
  `ThreadObjectSafe`.
* `ThreadQueue::setTimer` starts the thread without the mutex
  (`commoncpp/thread.cpp:896`): with a second caller in `start()` at that moment two
  threads run the queue, and an item may be handed over twice or taken from an empty
  list (`crashed`); `raced` in `HandedOverInOrder`.
* A `SerialService` that lost its last port is only `start()`ed again by the next
  `attach()`, and does not learn of the port until it wakes; `hushed` in
  `ServiceWatchesAll`. `count` is changed outside the mutex and not used by this build.
* `SharedRef::put` hands out a reference it does not retain (`shared.cpp:52`), and
  `TypeRef::set` of a reference to itself loses one (`typeref.cpp:107`); `puts` and
  `selfsets` in `CountsRefs` and `RefsSafe`. The fallback mode of `ArrayRef` lends
  without retaining (`arrayref.cpp:298`); `lent`. An `ArrayRef` of size one is always
  full (`arrayref.cpp:235`), and `reset()` wakes one pusher where it makes room for
  many (`arrayref.cpp:166`).
* `mapped_pointer::set` loops for ever when its path begins with another key
  (`shared.h:245`); `spins` in `MapHoldsItsEntries`.
* A `MapRef` or `mapped_pointer` calls `modify()` without a share (`mapref.cpp:128`,
  `shared.cpp:94`), the use `condlock_steal` shows broken: when such a call has to
  sleep and another thread calls in, the sleeper's context is taken and its
  `commit()` ruins the counts. `MapRef` follows the lock that far (`waits`): after a
  robbery no Instance is followed, while the entries are still right, since the mutex
  alone keeps calls that modify apart.
* `MapObject::detach` tests its table before it takes the table's mutex and clears it
  after (`map.cpp:220`): `TableHoldsItsObjects` holds because the model leaves each
  object to one thread at a time, as the caller must; two threads in `detach()` for one
  object would take it off twice. A `MapIndex` over a table that is changed may end early
  or stay on a detached object, and `operator++` reads the table's pointer up to five
  times (`map.cpp:62`), so that it is `lost` where `detach()` clears it in between:
  through a null pointer, or with the mutex of one table taken and another's given back.
  `dirty` marks these.
* `SharedFile::append` on an empty file fails, leaves a byte locked, and may write
  into a record another process has fetched; a failed `fetch` leaves its lock; two
  processes that both find no file truncate each other's (`file.cpp:446`); `update`
  unlocks from where its write ended, so that the record stays locked, against
  `file.h:614` (`file.cpp:591`). `slipped`
  in `RecordsApart`.
* `DLinkedObject::insertHead` and `insertTail` beside an inner object leave its
  neighbour's link as it was (`linked.cpp:752`, `:772`), and `enlistTail` puts a relinked
  object with its old `Next` at the end (`linked.cpp:684`); `torn` in `ListsAreSequences`.
  An object that replaces the first of its list in a `NamedObject` table is not linked
  itself (`linked.cpp:169`). The constructor for an `OrderedIndex`, meant for attribute
  lists (`linked.h:399`), never moves the index's tail (`linked.cpp:125`): a third object
  takes the place of the second, and once the first is released the pointer is written
  into what it was and the new object is listed only where nothing else is.
  `ListsAreSequences` states which names are lost so: they, and no others, give nothing.
* `TimerQueue::event`'s `-=` does not tell the queue (`timer.cpp:355`); a callback that
  detaches the event after its own makes `expire()` lose its place (`timer.cpp:442`), and
  one that makes an event before it earlier is not heard, as `update()` finds nobody
  asleep; a callback that arms its own event again, and returns only when that time is
  over too, leaves a timer with no time left, which `expire()` takes for none
  (`timer.cpp:420`, `444`). The events concerned are in `missed` in `EventsOnTime`, one
  event and one pass at a time. `expire()` asks each event for its time at its own moment:
  a timeout found before a slow callback is counted from after it, so the thread may be
  late by as long as the pass took, which `EventsOnTime` states. `-=` that needs to
  borrow a second only loses the sign (`timer.cpp:40`): `borrowed`, of which
  `EventsOnTime` says that the event is late and never early.
* `memalloc::_alloc` compares the size before rounding it (`memory.cpp:205`);
  `StringPager::set` lacks a `return` and replaces the first member whichever it is asked
  for (`memory.cpp:601`, against `memory.h:471`), which `BlocksApart` states as it is;
  `StringPager::sort` leaves the end of the list where it was (`memory.cpp:771`);
  `torn` in `BlocksApart`.
* The XML parser writes an entity's name one character past its buffer
  (`xml.cpp:304`), passes the marks of a CDATA section on as text and compares its
  end in an unterminated buffer (`xml.cpp:367`); a tag longer than the buffer is passed on
  as text. It calls back the end of an element that was never started before it refuses
  the document (`xml.cpp:416`), and `startDocument()` for an element whose attributes it
  then refuses (`xml.cpp:472`); "<>" is whatever the buffer held before. `XmlCallbacksRight`
  says so, and nothing of a document that is fed on after `partial()` has returned FALSE.
* The year of a date from 10000 on does not fit its four characters: the first one is no
  digit, `year()` is 0 and `set()` takes another date (`datetime.cpp:413`,
  `numbers.cpp:162`); `LastDay` in `CalendarRight`.
* A time moved back over midnight by seconds becomes the mirror image of what it should
  be, which `ChangesExactly` says to the second (`datetime.cpp:515`). `paste()` of an
  empty String and `=` from a memstring make buffers with one reference too few
  (`string.cpp:830`); `short`. `set(text)`, `|=`, `&=`, `|`, `trim()` and the like change a
  shared buffer in place, for every String that shares it; `OwnedChangesApart` is not
  about them. `paste()` into a memstring does not look at its size (`string.cpp:839`,
  1301); `pasted`. UTF-8 sizes and writes the codes 128 and 2047 by different limits
  (`unicode.cpp:221`).
* `sync()` of a stream hides a failure that freed the buffer, and `close()` makes the
  state of a stream good whose buffer it has freed (`stream.cpp:121`, 113, 349): bytes put
  later go there. An unbuffered `open()` leaves those pointers in place (85);
  `left` and `misused` in `StreamInOrder`.
* `save()` of a keyfile writes keys that `load()` skips, since they begin with neither a
  letter nor a digit (`keydata.cpp:435`). A value with a quote in it loses blanks,
  quotes or brackets at its ends (441-442) and what is behind 1023 characters of its
  line (399), and is joined to the next line after a backslash; `Ignored` and `Regular`
  in `KeysReadBack`. `load()` loops on a path it cannot read (`spins`), and after
  `assign()` sections allocate from the keyfile they came from (`moved`, `dangling`).
* A root that a `PersistEngine` reads at the end of a cut stream is object zero, with
  no exception (`late` in `GraphReadBack`). Where the name of a class is cut off or is
  not registered, `createInstanceOf()` asserts (`persist.cpp:102`) or, without
  assertions, calls a null pointer, although `persist.h:96-98` promises NULL, for which
  `read()` has an exception; `failed = "aborted"`.

Deadlock is checked in `rwlock` and `rwlock_timed`. In every other run a bound ends
the behaviour (calls, posts, moves, a closed stream, a deleted object): there the
system stops because no new call may start, and that somebody sleeps for want of a
wakeup is what the properties named above speak about.

Fairness, in `rwlock_live` and `condlocks`: weak fairness of each thread's wake action
(the scheduler runs a thread that has been woken and can get the mutex) and of its
release or commit (callers do not keep a lock for ever). Calls, timeouts and spurious
wakeups are not fair, and each thread makes a bounded number of calls: without that
bound writers may starve readers by design. In `serial_deaf`: the service thread goes
on while it can, a setter that has begun ends, and a timer that is set becomes due;
the application and the devices owe nothing.

## Proofs

All theorems hold for every value of the constants that satisfies the assumptions
stated in the modules (finite sets of threads, `None` not a thread, positive depths),
which TLC evaluates on every run. An inductive invariant was checked by TLC before it
was proved, except where TLC checks its parts already.

| Module | Theorems | Property |
|---|---|---|
| `RWLockProofs` | `TypeCorrect`, `MutualExclusion`, `CountersExact`, `WriterIsSignalled`, `ReadersNotStranded` | `TypeOK`, mutual exclusion (part of `ImplementsSharedLock`), `Accounting`, `NoStrandedWriter`, `NoStrandedReader` |
| | `WriterPreference` (action property), `Refinement` | `WritersFirst`, `ImplementsSharedLock` |
| `CondLocksProofs` | `CountersRight`, `NoneStranded`, `AssertionsHold` | `TypeOK`, `NobodyStranded`, `AssertsHold` |
| | `SharedLockImplemented` (refinement) | `ImplementsSharedLock` |
| `SyncProofs` | `SemaphoreNoWaste`, `BarrierRoundsApart`, `MutexCountIsDepth`, `SignalsUsedOnce` | `NoWastedSlot`, `BarrierRounds`, `CountIsDepth`, `SignalUsedOnce` |
| | `OnlyTheAdmitted` (action property) | `AdmitsRightly` |
| | `ObjectsInOnePlace`, `PointersExcluded`, `SuiteTypes` | `OnePlaceEach`, `PointerExclusion`, `TypeOK` |
| `ObjectsProofs` | `ThreadsSafe`, `RecordsStayApart`, `OrderKept`, `ServiceWatches` | `ThreadObjectSafe`, `RecordsApart`, `HandedOverInOrder`, `ServiceWatchesAll` |
| | `TablesHoldObjects` | `TableHoldsItsObjects` |
| | `ReferencesSafe`, `ArraysAreSequences` | `RefsSafe`, `ArrayIsSequence` |
| | `ReferencesCounted`, `MapsHoldEntries` | `CountsRefs`, `MapHoldsItsEntries` |
| `ListProofs` | `ListsRight` | `ListsAreSequences` |
| `DataProofs` | `CallbacksNest`, `StreamsInOrder`, `TimersOnTime`, `PagerBlocksApart` | `XmlCallbacksRight`, `StreamInOrder`, `EventsOnTime`, `BlocksApart` |
| `TextProofs` | `StringBuffersRight`, `DatesRight` | `BuffersRight`, `CalendarRight` |
| | `TextChangesExactly` (action property) | `ChangesExactly` |

Three theorems have a hypothesis on the callers, and none could do without it:

* `ReadersNotStranded`: no caller uses a timed wait. `rwlock_timed` is the
  counterexample otherwise.
* The four theorems of `CondLocksProofs`: `SharersModify`, that is, a thread without a
  share calls `modify()` only while nobody shares. `condlock_steal` is the
  counterexample otherwise.
* `SignalsUsedOnce`: one thread waits for the event. With two, the broadcast-like
  effect of the latch lets a second waiter through on the signal that woke the first.

**RWLock.** The inductive invariant is `IInv`: types, `Accounting`, `Exclusion`,
`NoStrandedWriter` and `WaitersHoldNothing`. None of the properties is inductive
alone. `Exclusion` needs `Accounting`, because `modify()` looks at counters and not
at threads; `Accounting` needs to know that a thread asleep holds nothing, or a
grant on waking could nest; `NoStrandedWriter` needs `Accounting` so that a
`release()` that sees `pending > 0` really has a writer to signal or one already
awake. For `ReadersNotStranded` the invariant gains `ReaderHasWriter` (a sleeping
reader has a writer that holds or waits) and the absence of expired waits. The
proof has one lemma per group of actions and one step per conjunct the action can
disturb; counters change by one element of a finite set (`ThreadSets`), and
waiting sets change by one thread (`WaiterSets`).

**ConditionalAccess, ConditionalLock.** `AccessInv` adds to the properties that a
waiting thread does not share and that an owner is alone. `LckInv` has to say what the
list of contexts means: `ContextsRight` states that every thread has at most one context
in use, that it counts the thread's shares, the `access()` it waits in and the `modify()`
it is the owner by, and that a waiting thread still has the context it found before it
slept. `sharing` is a sum over threads; it is stated as the number of `Tokens`, pairs of
a sharing thread and one of its shares, so that giving up or taking back all shares at
once is a union of finite sets and no induction is needed. Together with the bound
`Word` on what the counters can reach this shows that no unsigned count wraps, and the
four assertions follow. The refinement maps each action to a step of `SharedLock`:
sleeping in `modify()` or `exclusive()` is `Unshare`, the grant is `Own`, which needs
that `sharing = 0` leaves no thread sharing, `commit()` and `share()` are `Disown` or
`Downgrade`, and nested calls stutter. `NoneStranded` takes one conjunct more for
`ConditionalLock`, `ReadersAhead`, which is about its sleeping readers and is kept by each
step with the help of the rest (`ReadersAheadStep`).

**Semaphore.** `SlotsCovered`: every free slot with a sleeper beside it is covered by a
waiter that is awake or a signal `set()` has still to send. The signals are again a set
of tokens (`Pending`). **Barrier.** `BarInv`: those asleep and those who left early are
the arrivals of the round, so the last arrival finds exactly the number it needs.
**RecursiveMutex.** `RexInv`: the waiters counted, and a waiter below the greatest
depth. **TimedEvent.** `EvtInv`: the waits that ended, the latch and a waiter on its way
out are together at most the signals sent. **ReusePool.** `ObjectsCovered`, like the
slots of the semaphore, and that objects on the free list are distinct, bounded by what
was carved, and with no thread. **LockPool.** `LockInv`: every entry is on the list of
its pointer, one entry in use for each pointer, the entry's lock with exactly the threads
that were told so, a waiting thread's entry still its own, and the count of the users.
The bound on the entries of a list counts the pointers that hash to it, which is why
`LockPool` assumes the addresses to be finitely many; the hash function is any.

**Thread life.** `OneUser`: only the thread last started uses the object, while `running`
is set or `start()` is about to set it, and a deleted object has none; this is what
`NoUseAfterDelete` needs. `Reported` bounds the reports, with the one that is certain to
follow, by the number of starts on both sides. **SharedFile.** `FileInv` adds to
`RecordsApart` that the locks of two processes are apart (`LocksApart`) and that a fetched
byte is still inside the file or among those excepted (`BytesInFile`). **FixedBuffer.**
`RingInOrder`: what was posted is what was given out, then what the ring holds, where
`Slot` gives the cell of the k-th object over the turn of the ring. **ThreadQueue.**
`ListInOrder`: the same for what was done and the list, whose first item is on both
between the callback and its removal (`Ran`); `OneStarts`: until two were in `start()`
at once, one caller is between its test and its end, and one thread is in `run()`.

**SerialService.** `SerialRight` has to follow the service through its pass over the
ports while other threads change them. `PassRight`: while nothing is unread in the pipe,
the pass has collected the timers of all the ports before its cursor. `NewQuiet`: a port
that is just being attached has no timer. `SleepRight`: in `select()` with an empty pipe
everything is watched but the port that a thread is just changing. Each change alters the
state and then writes to the pipe, and the invariant says that this order is enough. It
needs that the end of the list is not itself a port.

**RefCount.** `CountsRight` is the property on counts, `CountsStart` says that an object
not made yet has left no trace and that a live one has a reference. For `NeverTwice` it
takes, as long as `SharedRef::put` was not used, that nothing refers to an object that is
done with, that only the thread which took the last reference is still about to let go of
it (`HandsOff`), and that what waits to be freed waits in one place (`OnePlace`).
**ArrayRef.** `CellsInOrder`: the cells from `head` on hold the elements in order and
`tail` is the cell behind the last; `RefsCounted`: count and loans of an object are the
cells and threads that hold it; `NoneStranded`: while some thread sleeps in `push()` at
least as many woken pushers are on their way as there are free cells, and nobody sleeps in
`pull()` beside an element. The last is why one signal for each element is enough.

**Chains.** The models walk a list from its root (`Walk`), and a proof that followed the
pointers would be an induction in every step. `ChainProofs` does it once: `Chain(next,
first, q)` says that the list which begins at `first` is the sequence `q`, object by
object, and the lemmas say that the walk is then `q`, and that what pushing, appending,
taking from either end and delisting do to the pointers is what they do to `q`, while
any list that shares no object with the change stays as it was. The only inductions are
over the number of steps of a walk, by the least number at which two walks differ.
**MapRef.** `MapRight`: `MapLists`, every allocated entry is on one path or free,
`MapKeyed`, a path has one entry for each key known on it and no other, `MapOrdered`, in
a list the entries carry the sequence and `last` is its end, and `MapCounts`. For an
Instance, `Meets`: it has met all of the paths in front of its own and of that path the
entries up to where it stands; this survives what others do because they cannot change
the map while it shares the lock. **MapTable.** `TableRight`: the threads inside
`detach()` or with an object taken from a free list have different objects
(`TableThreads`), each list and free list is a chain of the objects that belong there,
and an index stands at `IndexAt`, with every list in front of its own met and what it
has read of its object still true. That a thread clears the table pointer only after it
has let the mutex go is why the lists are stated without the objects about to be
cleared. **OrderedList.** `ListInv`: unless a call has torn the lists, each is a chain
of its sequence with the right end, and with the right pointers back when it is doubly
linked (`ListAt`), and an object's list is the one whose sequence it is on. What a call
does is put together from three changes, an object comes off its list (`Out`), on the
end of one (`Last`) or on the front of one (`First`), and each is shown once to keep all
lists right; an object's pointer to its list is what says which one changes.
**NamedIndex.** `IndexRight`: every list of the table is a chain of objects whose names
belong there and give them, and the object of a name is on its list, but for the lost
names. Every call on a table is `OneName`: the object a name gave comes off, another may
come on. A chain is never longer than two (`Chained`), and `OneList` says which of its
objects one more keeps. `index()` follows `skip()` from list to list; that it meets
every listed object once is shown from the last list to the first, by the least number
of lists left. **Pager.** `PagerInv`: no block ends after what its page is used up to,
so that the next one begins behind all of them, and no page of whole words is overfull
(`RoundedFits`); unless it is torn the list is a chain of nodes already made, whose
texts are `items`.

**XML.** `XmlRight`: the buffer position is below the size except in an entity's name,
the text still to be passed on is what the buffer holds inside an element, an entity is
read inside one only, a document type keeps nothing in the buffer, and of a refused
document the count is one below zero or one above the elements started. **Streams.**
`OutRight`: the device has the bytes 1 to k, and the buffer the rest while the stream is
open; `InRight`: bytes taken, bytes in the get area and bytes still on the wire are each
rising and ahead of one another; `MisuseRight` and `StateMoves`: a freed buffer is
written only after a hidden failure or a `close()`. **TimerQueue.** `TimersRight`: the
seconds and units of an armed event are its moment (`MomentLater`, `MomentEarlier`,
`MomentLeft`, for any length of the second); `PassRight`: an armed event on the queue
that is not missed lies ahead of the loop, or is the one whose callback runs, or has
been heard of, that is, the beginning of the pass plus the shortest timeout so far is
not after its moment. The queue holds nothing twice, which `GoneOn` needs for the loop
to pass one event at a time.

**DateTime.** `TimeInv` says that day and seconds are numbers and that valid seconds are
not negative; the rest is arithmetic: `CarryExact` shows what the carried days and the
wrapped seconds of a sum are, for any offset, and that they add up to it unless the sum
is negative and no multiple of a day. For `DatesRight` the formulas are taken apart:
counted from the first of March of year zero a julian day is a century, a year of it and
a day of the year (`CenturyRest`, `YearRest`), the fractions by which `put()` finds the
month are right for each of the 366 days (`MonthOfDay`), day 365 is in a leap year only
(`LeapDay`), and `set()` adds up the same years, leap days and months (`SetCounts`,
`MonthRight`). Each lemma needs bounds on one floor at a time, which is what the prover
decides. The day is one of the years 1 to 9999: before them the calendar it is compared
with does not begin, behind them the year does not fit. `FourDigits` finds that the last
of these days has the last of these years, and `YearKept` that such a year is read as
written. **StringRef.** `StringRight`: a living buffer's count, with the one it may be
short, is the number of Strings that refer to it, and that is at least one (`Counted`);
a String hangs only on a buffer one short (`Hanging`); a memstring's buffer is one short
and never left (`MemsOwn`); a text fits its buffer (`Fitting`); or else a `paste()` has
just gone beyond a memstring and nothing follows (`Overran`, `OverranEnds`). Because
every living buffer is somebody's and there is one buffer more than there are Strings, a
free one is always found (`SpareFree`, by the pigeonhole principle). One lemma
(`StringMoves`) covers every step in which a String leaves its buffer, with or without a
copy, and one (`OwnStore`) every change in place; the lemmas ending in `Fits` bound what
each text operation returns. `TextChangesExactly` follows: an operation that owns its
text writes in place only if the count is at most one, so that a second user can only be
there when the buffer is one short.

Only model-checked:

* liveness (`EveryCallReturns`): fairness and `ENABLED` are outside the prover's reach;
* `TextReadBack` and `GraphReadBack`: what a recursive
  reader makes of what a recursive writer wrote, by induction over lines, graphs and codes.

`MCData` fixes the constants of the UTF-8 texts, the keyfiles and the graphs.

## Not modelled, and the plan

Not modelled:

* the Windows build; destructors of locks in use; `max_sharing`, a debugging limit; a
  `PagerReuse` without a limit, which never waits; durations, except in `TimerQueue`;
  `Mutex::indexing` called while locks are in use; priorities and suspension of
  threads; callbacks of the serial
  service that delete their port.
* sockets, the file system, pipes, shared libraries, mapped memory, the shell and the
  secure layers: each method is a system or library call with its errors translated.
  The state is the kernel's or the other library's, and a model of it would say
  nothing about this code. They are about a third of the source.
* searching, formatting, scanning, numbers, tokens, mail parts, base64, logging text:
  functions of their arguments without state or order of their own.
* the template headers, which repeat for every type what the classes modelled here
  do, the documentation inside them, and the utilities and tests.

The map therefore covers a small part of the repository's lines. What holds state
that two calls or two threads meet in is modelled.

Next, in this order:

1. `MappedReuse` beside `ReusePool`, the guard objects of `access.cpp`, `MultiMap`.
2. `ThreadQueue`'s destructor; `BufferProtocol` beside `StreamBuf`.
