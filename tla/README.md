# A TLA+ model of Grace Engine Base Library

Grace Base is the C++11 library under a game engine: memory allocators, fibers,
containers, streams, a resource manager, and an object system with signals,
reflection and serialization. Most of it is sequential code, and what is hard
about it comes from re-entrancy: a loop that calls user code which changes what
the loop walks over, a stack discipline that nothing enforces, an exception that
leaves a half-finished step, memory that is constructed and destroyed by hand.
These modules model that control, TLC checks them on small instances, and TLAPS
proves the main properties of the core for every instance.
All paths below are relative to `src/`.

## Inventory

| Component | State | Operations | What is hard, and what makes it correct |
|---|---|---|---|
| `base/fiber` | per manager: `fibers_` with alarms, `current_`, `now_`; global `current_manager_`; per fiber: state, saved stack | `launch`, `defer`, `update`, `set_alarm_clock`, destructor; `yield`, `sleep`, `terminate` | fibers change the list while `update` walks it; exceptions leave `update` half way; a destructor has to unwind suspended stacks. No fiber skipped, repeated, entered twice, or freed with live frames; every alarm rings |
| `memory/allocator` scratch and linear | arena `begin_`, `current_`, `end_`; per scope `reset_`, `last_current_`, `finalizers_` | `allocate`, `reallocate`, `create`, `~ScratchAllocator`, `reset` | scopes share an arena in stack order that is only asserted; a failed allocation moves `current_`. Blocks are disjoint, the arena is balanced, objects die youngest first, the ASSERTs stop only who deserves it |
| `memory/allocator` system, `memory/memory_tracker` | usage counter; hash buckets of addresses, live counter, paused or not | `allocate`, `allocate_large`, `free`, `free_large`, `reallocate`; `start`, `stop`, `pause`, `unpause`, `track_*` | holes in buckets, pauses that lose frees, full buckets. Usage and report equal what is live |
| `memory/fixed_allocator`, `base/bag` | free list through the first words of the blocks | `allocate`, `free`; `insert`, `erase` | no block handed out twice, none lost |
| `memory/unique_ptr` | pointer and allocator | move, `release`, `reset`, `swap` | freed once, to the allocator it came from |
| `io/resource_manager` | cache, loaders, archives, a fiber manager of its own, a flag | `load_resource`, `garbage_collect`, `clear` | a loader loads other resources: nested fibers, cycles, failures half way, references into a cleared cache |
| `object/signal` | list of handlers, their `SignalConnectionID`s | `connect`, `disconnect`, `invoke`, destructor | handlers that connect, disconnect or invoke during an invocation |
| `object/universe_base`, `editor_universe` | name maps both ways, objects, update set, root, deferred work, references from outside | `create_object`, `rename_object`, `clear`, `update`, `instantiate`, `recreate_object` | the two maps stay inverse of each other; nothing refers to what was destroyed; each object is updated once while objects register; references of a scene resolve whatever their order |
| `object/composite_type`, `aspect_cast` | layouts, exposed attributes; offsets in objects | `add_aspect`, `freeze`, `construct`, `destruct`, casts | sizes that are kept when a part grows, parts within parts, the way back from an aspect |
| `object/spatial_object`, `property_animator` | parent links; object, property, playing | `set_transform_parent`, `reset_transform_parent`; `play`, `tick` | no parent cycle |
| `event`, `platform/event_loop_libevent` | timers, descriptors | `schedule`, `cancel`, callbacks | a callback that cancels or reschedules its own handle |
| `base/process`, `io/pipe_stream` and the `ProcessHandle` | child process, pipes, two events | `popen`, `wait`, `kill`; `activate`, `cancel`, `invoke` | output, close, exit and cancel in every order. The status is true, nobody is left behind, the end is noticed |
| `base` arrays, lists, maps, sets | cells of memory, nodes, blocks | insert, erase, assign, move, find, link | every place constructed once and destroyed once, across growth, self-assignment and two allocators |
| `base/any`, `maybe`, `either`, `function` | storage of one value | assign, move, clear | which alternative is alive |
| `serialization` | document trees | build, write, read | what is written and read again is the same tree |
| `type`, `object/attribute` | descriptions of types, behaviours | `serialize`, `deserialize`, attribute access, registry | what is written and read again is the same value |
| `io` streams | buffers, positions, FILE state | `read`, `write`, `seek`, `open`, `close` | two positions, capacity, short writes |
| `base/simd`, `geometry` | registers of four lanes | arithmetic, comparison, shuffles; matrices, rectangles, segments | unused lanes, signs, boundaries |
| formatting, `base/string`, `log`, `error`, `random`, `regex`, `time` | buffers; none | text, system calls | data, little control |

How they interact: fibers run on the stack of the code that resumes them, and
find their manager through the global `current_manager_`; `ResourceManager` has a
manager of its own that sets that global too. Every component that formats text
opens a `ScratchAllocator` on the one global arena, usually while a caller's is
still open. Signals, event-loop timers and `update` of a universe call back into
user code. There is one thread (the globals carry a "TODO: Thread-local").

## Plan

In order of importance, and of what builds on what; everything listed is there:

1. `FiberManager`, with its abstract specification `FiberLifecycle`.
2. `ScratchArena`.
3. `ResourceManager`, with its abstract specification `ResourceCalls`.
4. `Signal`, with its abstract specification `SignalContract`.
5. `Universe`, with its abstract specification `NameRegistry`.
6. `ChildProcess`, with liveness, against the operating system and libevent.
7. The containers and holders of `base` and `memory` on the bench `Library`, `MCLibrary`.
8. The components that are mostly data on the same bench: streams, event handles,
   composite types, vectors and geometry, documents and reflection.

The first six have proofs of every safety property and every refinement they check, and
so has what `Library` holds of the last two.
What is left: `FiberManager` composed with `ResourceManager`, which share
`current_manager_`; a constructor that throws inside `ScratchAllocator::create`; copies
of a `SignalConnectionID`; and resources that need each other in a circle.

## Modules

### FiberManager and FiberLifecycle

`FiberManager` has the members of the class as variables: `fibers` (`fibers_`,
with `wakeUpAt`), `current`, `now`, the global `manager`, and the `state` of each
fiber. `pc` says who has the thread: host code, the loop of `update` or of
`~FiberManager` at `index`, or the body of a fiber. The loop is split exactly where
fiber code runs, so what a body does to the list falls between two reads of it.

| Code | Action |
|---|---|
| `FiberManager::launch`, `defer` | `launch`, `defer` |
| `FiberManager::update`: entry, one iteration, exit | `UpdateBegin`, `SkipSleeping` or `Resume` or `ResumeFails`, `UpdateEnd` |
| the body calls `yield` or `sleep`, returns or terminates itself, throws; with the rest of the iteration | `yield`, `sleep`, `Finish`, `Throw` |
| `~FiberManager` | `DestroyBegin`, `Unwind`, `UnwindDone`, `UnwindThrow`, `DestroyIdle`, `DestroyEnd` |

`due`, `entered`, `frames` and `resumed` are history. A body is any sequence of
the calls. A fiber that terminates itself does what a returning one does. `Freed`
stands for the memory of a destroyed Fiber, which no pointer in the model reaches.

`FiberLifecycle` is what a user of the manager relies on: phases
absent, waiting, running, failed, cancelled and gone, at most one fiber running,
and nobody resumed before the instant it asked for. `FiberManager` implements it
under the mapping `phase`.

### ScratchArena

`current` is `LinearAllocator::current_` with `begin_` as address 0 and `Capacity`
for `end_`; `reset`, `last`, `finalizers` are the members of each `ScratchAllocator`;
`open` lists the live ones; `closing` and `pending` hold the loop in a running
destructor. Any open scope may be used or destroyed at any time: that is what the
type allows, and what passing an allocator by reference or yielding inside a scope
does. `breaches` counts departures from the stack order, so properties can be
stated with and without it (`Disciplined`).

| Code | Action |
|---|---|
| `ScratchAllocator` constructors | `Construct` |
| `allocate`, with `LinearAllocator::allocate` | `allocate`, `OutOfMemory` |
| `reallocate` | `reallocate`, `OutOfMemory` |
| `create<T>`, `allocate_with_finalizer` | `create`, `CreateFails`, `OutOfMemory`; `allocate` for a `T` without a destructor |
| `~ScratchAllocator`: ASSERT, finalizers, reset | `Destruct` or `DestructFails`, `Finalize`, `Reset` or `ResetFails` |

`free` does nothing in the code and has no action.

### ResourceManager and ResourceCalls

`cached` is the key set of `resource_cache`, `registered` and `contents` stand for
`resource_loaders` and `archives`, `flag` is `is_in_resource_loader_fiber`, `fibers`
and `current` belong to the manager's own `ResourceLoaderFiberManager`, `manager` is
the global `current_manager_`. Each element of `fibers` carries what its loader may
still load (`asks`) and the nested load it has yielded for (`awaits`). Reference
counts are reduced to `held`: positive or not. `failed` and `escaped` are history.

| Code | Action |
|---|---|
| `add_loader`, `add_archive`, `garbage_collect`, `clear` | the same names |
| `ResourcePtr::release` | `Release` |
| `load_resource` by the host: in the cache; not; not, with the flag left over | `LoadCached`, `Load`, `LoadStuck` |
| `ResourceLoaderFiberManager::update`: one resume; end of loop, and return | `Resume`, `UpdateEnd` |
| `load_resource` by a loader: in the cache; launch and yield | `AskCached`, `AskNested` |
| `load_resource_impl` ends, and `update` pops the fiber; with an exception | `Succeed`, `Fail` (sharing `Pop`); `Throw` |

`pc = "crashed"` stands for two calls that no exception reports:
`garbage_collect` with an unreferenced resource goes through `Resource::loader_`,
which nothing assigns, and a load after an exception and a `clear()` yields on
behalf of a fiber that is freed.

`ResourceCalls` is what a caller of `load_resource` has in mind: a recursive
function with a cache. The list of fibers is its call stack.

### Signal and SignalContract

`next` and `previous` are the links of `ListLinkBase`, with the sentinel as one more
node; `live` has the invokers that exist; `frames` has the local variables of the
`invoke` calls on the stack, `it` and `next` (here `saved`), plus what the contract
speaks about. `pc` says whether code outside of invocations, the loop of the last one,
its handler or `~Signal` has the thread.

| Code | Action |
|---|---|
| `connect` in all its forms, ending in `link_and_make_id` | `connect` with `link_tail` |
| `disconnect`, with the destructor of the invoker | `disconnect` with `destroy` and `unlink` |
| `invoke`: entry; save the next and call; the handler returns; end | `invoke`, `Call`, `HandlerReturns`, `invokeEnd` |
| an exception out of a handler, to be caught by whoever called `invoke`, or passed on | `HandlerThrows` |
| the loop goes on with a destroyed invoker | `CallDangling`: `pc = "corrupt"` |
| `~Signal`, outside of invocations | `Destruct`, `DestroyHead`, `DestructEnd` |

`order` is a history variable that the links have to agree with. An invoker is not
connected a second time: to connect the same function again makes a new one.

`SignalContract` says what subscribers rely on: an invocation calls in the order of
connection, nobody twice, and returns only when all that were there at its start and
still are have been called. A handler connected meanwhile may be called or not, which
depends on whether the last one was running. In return, whoever is disconnected while
invocations are under way must have been called by each of them; otherwise the signal
may break.

### Universe, UniverseBase and NameRegistry

`u` is a universe as a record: `map` and `name` are `object_map_` and
`reverse_object_map_`, `type` says which object lives at a place, `ref` is the reference
attribute of each object, `updates` the sorted array of objects to update, `deferred` the
references that wait for the end of a scene, `external` the references registered from
outside. `UniverseBase` has the operations as functions of that record, those both
classes share and `basic_...` and `editor_...` for what each has of its own; a virtual
call goes by `u.kind`. `Universe` adds the program, the update under way (`pass`) and
the last call (`event`).

| Code | Action |
|---|---|
| `create_object`, `create_root` | `CreateObject`, `CreateRoot` |
| `rename_object`, `set_root` | `Rename`, `SetRoot`; `SetReference` assigns an attribute |
| `instantiate`, with an exception on the second object | `Instantiate`, `InstantiateRaises` |
| `clear` | `Clear` |
| `enable_updates`, `disable_updates`, also from a callback of `update` | `EnableUpdates`, `DisableUpdates` |
| `update`: entry, one object, end | `StartUpdate`, `UpdateNext`, `EndUpdate` |
| `register_object_reference`, `unregister_object_reference` | `RegisterRoot`, `UnregisterRoot` |
| `recreate_object`, `reinitialize` and `replace` | `Recreate` |

`NameRegistry` is what a user of names relies on: the objects of a scene have unique
names, a name stays until its object is renamed or goes, and a rename gives the wanted
name exactly when nobody else has it. Both universes implement it.

Faults: `clear` of a basic universe leaves the root, that of an editor's leaves the update
set and the references from outside, and reads aspects after it has freed their composite;
an instantiation that raises leaves deferred work for the next scene, on nodes of a
document that is gone; an object can be registered for updates twice, unregistering one
that is not there can read past the end, and the set that `update` walks can be changed
or moved by the callbacks; `recreate_object` of a name nobody has goes through null, and
of an object that is the root, is updated, has aspects, or is referred to from an
attribute that is inherited or hidden leaves what referred to it; and the id it is given
may be the text it frees.

### ChildProcess

`child` is the operating system's side: running, stopped, ended, reaped; what it has left to
write; whether SIGHUP is pending. `process` is the `Process` with its status and open
pipes, `event` the two events of libevent. `todo` is the stack of the loop's thread: the
callback, the check whether a stream was closed, `cancel` and `wait` (with or without a
signal before it), in the order in which `invoke` and the callback come to them. Child and handle interleave freely; the thread is in
`event_base_loop` while `todo` is empty.

| Code | Action |
|---|---|
| `ProcessHandle::activate` with `Process::popen` | `activate` with `popen` |
| `cancel` from outside, from `invoke` and by the callback | `cancel`, `CancelInside`, `CallbackCancels`, then `Drop` |
| `Process::kill`, `wait`, `get_status` | `kill` and `CallbackWaits`, which put an item `Wait` on the stack, `get_status`, `Interrupted` |
| `invoke`: callback, closed or not, the second call of the callback | `invoke`, `IsClosed`, `Garbage` |
| the callback reads, waits, kills, returns | `read`, `CallbackWaits`, `CallbackKills`, `CallbackReturns` |
| the callback or `invoke` goes on with a process that is gone | `NullIsUsed` |
| timeout of the event | `Timeout` |
| the child (external) | `Write`, `Exit`, `Die`, `Stop`, `Continue` |

Faults: a `wait4` that a signal interrupts leaves the status uninitialized; a callback
that closes the last open stream, by reading it to its end, when `invoke` will not look at
its stream any more, keeps the handle from ever noticing; the callback is called once more
after every event, with an uninitialized kind and perhaps a process that is gone, as it is
for `invoke` too when the callback has cancelled its handle. A `fork` that fails raises out
of `activate` and leaves everything as it was. What is not a fault but shows in the properties: a
child that is stopped is forgotten by the wait (`forgotten`), and what is left in the other
stream is lost when one is closed.

### The bench: Library and MCLibrary

The parts of the library below have one module each, all of the same shape. `rep` is what
the code keeps, down to the places of memory, the links or the offsets. `ref` is what it
should stand for: a sequence for an array, a function for a map, the tree for a document.
Every operation changes both, and the properties relate them.

Code with a defect is modelled as it is. A call that the code does not survive, or that it
answers wrongly, ends the behaviour, and `fault` names the defect. The invariants read
`fault = "none" => ...`: all is well unless one of the named defects was met. Where
the fault leaves `rep` and `ref` as they were, it stands for a call that is not survived or
whose outcome the code leaves open (a trap, a null pointer, memory that is freed or not its
own), and nothing is said of what comes after. Where both change, it names the way in which
they part.

A behaviour of the bench starts in any of the parts and calls its operations in every
order. `Library` holds the parts for which that is proved, `MCLibrary` adds the others, and gives all of them
their values (in its .cfg for the constants of `Library`).

`ObjectMemory` is shared by the parts that construct and destroy by hand: a place is raw,
holds a value, holds an object that was moved from, or is `Bad` from then on because
it was written or destroyed the wrong way.

| Module | Code | rep and ref | Faults: what the code does |
|---|---|---|---|
| `Arrays` | `base/array.hpp`, `array_utils.hpp` | cells of two arrays, one allocator or two; two sequences | move assignment with one allocator forgets the target's elements; assignment to itself clears; `emplace_back` of an own element reads it after the growth has moved it. `resize` never shrinks |
| `MaxArrays` | `base/maxarray.hpp` | the places and the size; a sequence | `pop_back` destroys the last element and still counts it, so that a `resize` to fewer never ends; assignment of a list returns nothing |
| `ArrayLists` | `base/array_list.hpp` | blocks with begin, current and end; a sequence | an insertion that splits a block opens the gap by as many places as elements follow, not as many as come; a move leaves the size behind. `clear` frees the blocks and destroys nothing in them |
| `Maps` | `base/map.hpp` | sorted keys and values in one block; a function | assignment to itself clears. Left out: `count`, which counts to the end of the map instead of the key, and `insert_move`, which returns nothing |
| `SortedContainers` | `base/set.hpp`, `multiset.hpp`, `priority_queue.hpp` | sorted arrays; a set and a bag | a set takes an element twice; `find` reads the element at the end |
| `Dictionaries` | `base/dictionary.hpp` | the strings that are keys; the texts | `set` of a key that is there loses the new string; copy assignment shares the keys; move assignment forgets the target's |
| `LinkedLists` | `base/bare_link_list.hpp`, `link_list.hpp`, `auto_link_queue.hpp` | next and previous of nodes and sentinels; sequences | a node destroyed when it is not linked goes through null or unlinks its former neighbours; moving into a list leaves the nodes it had linked to it; `LinkList` has no destructor |
| `Maybes` | `base/maybe.hpp` | memory and the flag, for types that can be assigned, constructed or both; a value | a move to itself clears |
| `Eithers` | `base/either.hpp` | memory and `type_index_`; type and value | the index is set before a constructor that throws |
| `Anys` | `base/any.hpp`, `any.cpp` | in place or block, debug information; type and value | the copy constructor constructs twice; assignment to itself empties; an empty one has no debug information to copy |
| `FunctionObjects` | `base/function.hpp` | null, pointer or caller on the heap; what to call | a move with one allocator leaves the source saying that it has a caller |
| `UniquePtrs` | `memory/unique_ptr.hpp` | pointer and allocator; ownership | move assignment evaluates the arguments of `reset` in either order; a null pointer with an allocator traps |
| `MemoryTrackers` | `memory/allocator.cpp`, `memory_tracker.cpp` | heap, buckets, counters; the live allocations | the first hole of a bucket is taken before the same address further on; frees are lost while paused; `start` keeps the live counter; a full bucket traps; a failed reallocation is off the books; a session that ended can be unpaused |
| `FixedAllocators` | `memory/fixed_allocator.hpp`, `base/bag.hpp` | first word of each block, the bag's array; the bag, blocks taken and lost | `allocate` hands out the second free block, through null when there is only one; a constructor that throws keeps its block |
| `EventHandles` | `platform/event_loop_libevent.cpp` | the events, the handle that is called, the running flag; handles that expect a call | a handle that its own callback destroys is used afterwards; the handle for input says that it repeats and does not; an event that is ready and late at once traps |
| `Streams` | `io/memory_stream`, `memory_buffer_stream`, `file_stream`, `util.cpp` | the `ArrayList` under the buffer (an instance of `ArrayLists`), positions, FILE, what the last read gave; bytes with positions of their own | an insertion in the middle of a block opens the gap elsewhere, or writes past the end, like that of `ArrayList`; one before the read position lets bytes be read twice; a file that is opened again keeps its old mode; reading right after writing and writing right after reading; a write after the end of file is refused. A seek to the end is refused. `read_until_event` returns twice the length |
| `Composites` | `object/composite_type.cpp`, `aspect_cast.hpp` and their deserialization | cells with type and `offset_`; the classes in order | a composite can be put in itself; one that grows after it was added to another makes that one too small; an unknown aspect is left out and what is exposed is looked up one place behind; a document with more or fewer aspects than the type; a cast to a class without reflection need not return |
| `SpatialObjects` | `object/spatial_object.cpp`, `property_animator.cpp` | the parent of each; how many at most. The animator that was made; what should move | `reset_transform_parent` can close a circle that the check of `set_transform_parent` refuses; the animator that is made is dropped at once, and nothing moves |
| `Vectors` | `base/simd_sse.hpp`, `geometry/vector.hpp` | registers with four lanes, integers of `Bits` bits; vectors | integer division divides the unused lanes; unsigned numbers are compared, converted and ordered as signed ones; `floor` and `ceil` without SSE4.1 round; a short vector is loaded past its end |
| `Geometry` | `geometry/rect.hpp`, `2d.hpp`, `matrix.hpp` | one operation with arguments and result; what it is for | `TMatrix` adds rows up to its width, `*` with a number returns the matrix unscaled, products of other than squares and `set_column` have the wrong bounds; rectangles that share an edge intersect; rotated bounds are not about the centre; corners come out of order; the projection of a polygon starts from the wrong greatest value |
| `Documents` | `serialization/document.cpp`, `yaml.cpp`, `json.cpp`, binary | nodes, what was written; paths and values | YAML: strings that look like numbers, negative and long numbers, keys that are no strings, scalar anchors and roots that are no maps do not come back; aliases share nodes. Bytes: an empty map is lost and a key's length is not checked; from a stream that was read before, what breaks off is read past the end. JSON: strings are not escaped, small floats lose their digits as in YAML, reading is not implemented |
| `Types` | `type`, `object/attribute` | value and node; the value it should have and the one that is saved | `FloatType` writes bytes behind an ASSERT that always fails, pointers trap; an array is appended to and a map merged; an element keeps what the one before it had; an empty value writes nothing; a matrix wider than high is not read; the setter is called for a node of the wrong kind; two classes may have one name |


## Checks

| Run | Shows |
|---|---|
| `fiber_safety` | three fibers with arbitrary bodies, exceptions included, a clock of two instants: `CurrentFiberIsRunning`, `NoFramesLeaked`, `EnteredOnce`, `OncePerUpdate`, `UpdateIsComplete`, and the refinement `LifecycleSpec` |
| `fiber_live` | `EveryAlarmRings` under `FairFrames`, without exceptions |
| `fiber_starve` | the same is false when a body may throw: the failed fiber stays in the list and makes each later `update` raise before it gets to the others |
| `scratch_safety` | two scopes on an arena of five bytes, one breach of order allowed: `NoOverlap`, `TrapsAreDeserved`, `ArenaBalanced`, `OverflowIsFinal`, `DestroyedInReverse` |
| `scratch_unwind` | an `OutOfMemoryError` trips the asymmetry ASSERT while the stack unwinds, so it cannot be caught outside the scope |
| `scratch_order` | `alloc1` destroyed before `alloc2` goes unnoticed when `alloc1` allocated last |
| `resource_loads` | three resources in a diamond, loaders that succeed, fail and throw, a host that drops, collects and clears: `InFlightOnce`, `FlagTracksLoad`, `AnswerIsThere`, `EscapeIsFinal`, `EveryLoadEnds`, and the refinement `CallsSpec` |
| `signal_handlers` | three handlers and invocations nested two deep: `ListIsSound`, `NoDangling`, `NothingLeaked`, and the refinement `ContractSpec` |
| `signal_self` | handlers cannot always remove themselves: the element that a nested invocation removes may be the one that the outer one has saved |
| `universe` | both universes with three types of objects, all programs of up to four calls: `NamesAreInverse`, `NothingDangles`, `EachUpdatedOnce`, `ReferencesResolve`, and the refinement `KeepsNames` |
| `process_handle` | a child that writes, is stopped and ends at any moment: `EventsFollowProcess`, `StatusIsTrue`, `ClosedMeansDrained`, `NobodyLeftBehind`; `EndIsNoticed` under `Fairness`, and `KillReturns`: `kill` and `cancel` come back from their wait, and any other wait does once the child has ended |
| `library` | 25 small systems side by side: `ObjectsSound` (memory is used as what it is) and `ContainersRepresent` (what is kept stands for what it should) for the parts of `Library`, `ComponentsRepresent` for the others: both, where a part has memory or layout to be used wrongly |

Bounds. Three fibers are enough for a list with one before and one behind the
fiber that runs, plus every erase and launch between; two instants make the
difference of due, not due and due right now. `MaxDelay` bounds the argument of
`sleep`. In the arena, five bytes, one-byte requests and alignments 1 and 2 give
full, just fitting and overflowing allocations; `MaxCurrent` bounds how far failed
allocations push the pointer, `MaxBlocks` the blocks of a scope, `MaxBreaches` the
departures from the order. Empty requests are left out of the instance and covered by
the theorem.

Three resources make a chain of nested loads with one that two loaders want, the
smallest case in which a second load finds in the cache what a nested load has put
there. Their needs are `Layered`: a circle launches fibers without end, which the code
leaves to the authors of resources. `Depth` only bounds the ranks that `Layered`
looks for, `MaxFibers` the loads that pile up after an exception.

Three handlers give one before, one at and one behind the iterator, while `order`
shrinks and grows; two invocations are what the dangling iterator takes, and more of
them differ only in how many wait.

The universe has three places, room for a composite, an object that refers to it and one
that replaces another; one name, the same with a number, and one that is too short
make taken, free and made-up names. Four calls reach every fault that was seen (an
object at the third place counts as a call more, which keeps the instance small; the
steps of an update are not counted). `Room = 1` lets the update set grow during
an update.

The child has two chunks for each stream and a pipe holds one, so that it can be blocked
in a full pipe; two activations show what the first one leaves to the second.

On the bench, `MCLibrary` with its .cfg gives every part two or three values and enough room to cross
its boundary: an array that grows past one page, blocks of two elements that are split
and filled, a stream of four bytes over blocks of three, keys before, at and behind every other, a bucket that overflows, registers of
three bits so that sums wrap, a matrix that is wider and one that is higher than a square.

Deadlock is off where the system may stop: a manager that is destroyed, an
arena after an ASSERT or at its bounds, a load that crashed, a signal that is gone, and
behaviours that end at a fault or at the bound of the calls.

Fairness. `FairFrames` assumes the frame loop of a game: the manager is kept and
`update` is called again and again with a clock that gets past every alarm
(`SF` on `UpdateBegin(MaxTime)`); the loop of `update` runs on (`WF` on `LoopStep`);
a body that was entered hands control back some day (`WF` on `HandBack` of each
fiber), which cooperative scheduling presupposes. Nothing is assumed of launches.
`ResourceManager` assumes `WF` on `Update`: `load_resource` runs its loop to the end on
the thread that called it, and a loader ends or throws some day. The host does
whatever it likes.
`ChildProcess` assumes that the thread of the loop goes on with what is on its stack
(`WF` on the steps that need no decision), that libevent gets around to each event that
stays ready (`SF` on `invoke`, since a callback for the other stream takes turns with
it), that a callback for output reads what there is (`SF` on `ReadWhatIsThere`), and that
SIGHUP ends the child (`WF` on `Die`, which a child that is stopped escapes, and one
that ignores the signal would too). Nothing is assumed of what the child writes or of when
it ends by itself: a wait without a signal may never come back from a child that runs on,
or that is blocked in a pipe which only the waiting thread would read.

## Proofs

`FiberManagerProofs` proves, for every set of fibers and every clock, that each
safety property of `fiber_safety` holds and that `FiberManager` refines
`FiberLifecycle`. The properties are not inductive. `IInv` adds who is in the
list: each fiber once, none of them `None`, and freed ones only behind the index of
the destructor (`ListInv`); which state goes with which `pc`, and which fiber may be
the exceptional one (`StateInv`); that those before the index have been resumed or
were not due, and those behind have not been resumed (`RoundInv`); and how the
histories follow the states (`HistoryInv`). One lemma per action preserves it.
`SequenceLemmas` has the facts on `Append` and `RemoveAt` it needs.

`ScratchArenaProofs` proves, for every arena, size and alignment, each property of
`scratch_safety`. While the program is disciplined the scopes are stacked: each
`reset_` is the `last_current_` of the one below or more, blocks of a scope lie
between its `reset_` and its `last_current_` in the order they were handed out
(`StackInv`, `BlockInv`), and finalizers list objects downward (`FinalizerInv`);
`OverflowInv` carries `OverflowIsFinal` without the discipline. The ASSUMEs are the
ranges of the constants; alignment is any positive number, a power of two or not.

`ResourceManagerProofs` proves, for any resources and needs, each safety property of
`resource_loads` and that `ResourceManager` refines `ResourceCalls`. `PhaseInv` ties
the last fiber to who has the thread and says that what it waited for is settled
before `update` resumes it; `ChainInv` says that every other fiber waits for the one
behind it, and asks only for what it needs; `LayerInv` adds that ranks fall along the
list, which is why no resource is in it twice. The refinement needs the frames of a
list (`Rids`) to follow `Append` and `RemoveAt`.

`SignalProofs` proves, for any handlers and any nesting, each property of
`signal_handlers` and that `Signal` refines `SignalContract`. The ring of `Sound` makes
`link_tail` and `unlink` provable (`LinkTailFacts`, `UnlinkFacts`); `FrameInv` says that
the place where an invocation will go on, if it is in the list, divides the list into
those that were called and those that were not (`Divided`), and that it exists as long
as the duty is kept (`Placed`).

`UniverseProofs` proves, for any places, names and numbers, each safety property of
`universe`, and that both kinds of universe refine `NameRegistry`. `Whole` says that the
two maps are each other's inverse (`Paired`) on exactly the objects that are alive, that
the update set is sorted and alive, and that attributes and registered references lead to
the living or nowhere; attributes of places that are free must be null, or the next object
there would be born with one. Every rename is one forgetting and one binding of a name
(`ForgetFacts`, `BindFacts`). A made-up name is the first free number: that there is one is
a pigeonhole argument over as many numbers as there can be names (`NewNameFacts`). The
invariant of an update is that it has called a prefix of its list (`PassInv`); `EachUpdatedOnce`
rests on the list having no repetition. `recreate_object` is the one step that gives up a
living object: `ReplacedFacts` says that its references were all rewired, since an object
for which the walk would leave one behind ends in a fault. Assumed are `PlacesAssumption`,
that places are addresses other than null, and `NamesAssumption`, that a name is a text and
a number and that documents use names the program may ask for.

`ChildProcessProofs` proves, for any amount of output, room in the pipes and number of
activations, the four safety properties of `process_handle`. The core of `IInv` is the
shape of `todo`: each item leads to the next (`Leads`), so that the stack is always the rest
of one of the few things the loop's thread does (`Chain`); a callback that says Closed is
followed by the cancellation, for one. A callback may put a wait and the drop of its own
handle on top of that; what the drop leaves below it ends in the fault for a null process. To this come what the status says of the child
(`ProcessInv`) and what the operating system does with it (`ChildInv`). Assumed is
`BoundsAssumption`, that the bounds are numbers.

`LibraryProofs` proves two of the three properties of `library` for every value of the
constants: `MemoryIsSound` (`ObjectsSound`) and `ContainersStandForValues`
(`ContainersRepresent`). The run has two or three values; the theorems hold for any values,
room, types, nodes, pointers, objects, allocators, addresses, blocks, callers and timers.
Assumed is only what `LibraryAssumption` says: that values are numbers, so that they differ
from the marks of `ObjectMemory`, that `NoType` is no type, that 0 is no object, no allocator,
no block and no address, that addresses are numbers up to some last one, that the names the
code has of its own (`"null"`, the lists) are no nodes, code, callers or objects, that there
are buckets and a page has bytes, and that blocks and spatial objects are finitely many. As in the run, everything speaks of behaviours up to the first
named fault.

A behaviour of the bench is one of the part it began with, since no step changes `part`:
that is `...InBench`, one lemma for each part, which lets each part be proved as an instance
with variables of its own. The invariants of the parts:

- Arrays (`ArrayHolds`, `MaxArrayHolds`): each place up to the size holds the element of the
  sequence, each behind is raw. Within a call neither is true; the operators that move
  elements one by one are loops, recursive functions of the number of steps, and for each
  there is a lemma on what the first n steps have done (`LoopInduction` and `Recursion`
  of `SequenceLemmas`, which take a function or a set of numbers where the induction theorems
  of the library take an operator).
- Lists (`ListsHold`, `AutoListHolds`): a ring (`Ringed`): the sentinel, the nodes in their
  order, the sentinel again, no place twice and no node in both rings, so that the pointers
  a call writes are the only ones that have to change; for `AutoList` a chain from `head_`
  (`Chained`), which a node leaves knowing only its neighbours.
- Holders: between calls no place of a `Maybe` or an `Any` is moved from (`MaybeOf`, `AnyOf`),
  though it is within them; an `Either` is what its index says. For `UniquePtr` the invariant
  speaks of *loose* objects (`UniqueSound`): a call makes one loose, by `make_unique` or
  `release`, and hands it to `reset`. For `Function` it does not name the two
  (`FunctionsSound`), so that each call is argued once for either of them: what `clear` does
  to one leaves the other as it was.
- `Dictionary`: what is allocated is what is a key, and no string is the key of two texts or
  in both (`Owners`); that `CopyConstruct` has as many new strings as keys is a count.
- The tracker: an address is found only in the bucket it belongs to and in one slot of it at
  most (`Books`), which is what makes an erasure leave no second entry, and what is tracked
  is alive (`Alive`), so that `malloc` gives out no address that has an entry. The live
  counter is never below the number of entries, though `start` empties the table and not the
  counter (`CountGains`, `CountLoses`), which is why its ASSERT cannot fail; the usage is the
  sum over all addresses (`Used`), which a call changes at one address (`SumChange`).
- Blocks of one size: the free list is a sequence without repetition that the first words of
  the blocks link (`Listed`), and shares no block with the bag (`FixedOf`). `allocate` takes two
  blocks from its front, hands out the second and loses the first (`AllocatedFacts`); `free`
  puts one there (`FreedBlock`), `clear` all of the bag's, a loop (`ClearedFacts`); what the
  destructor gives back is what the walk along the links meets (`WalkFacts`).
- The event loop: which handles exist and what they expect (`EventInv`).
- Sets and queues (`SortedHolds`): the array is in order, a set's strictly (`SetOf`), and a
  queue has each value as often as it should (`QueueOf`). `std::lower_bound` is a loop: before
  the range that is left all is less, behind it nothing is (`Enclosed`), and each turn takes
  a place away (`HalvedFacts`); that it ends where the key belongs is what keeps the order.
- Spatial objects: no nonempty set of objects contains the parents of all its members
  (`Acyclic`), so that a chain of more than all of them would have one twice.

Only model-checked: the liveness properties `EveryAlarmRings`, `EveryLoadEnds`,
`EndIsNoticed` and `KillReturns`, as liveness under fairness is out of the prover's reach;
the four violations; and `ComponentsRepresent` of the run `library`, that is, the parts that
`MCLibrary` adds. `Documents`, `Composites` and `Types` walk trees and lists by `RECURSIVE`
operators, which the provers cannot use; `ArrayLists`, `Maps` and `Streams` go by folds,
operators that take an operator; `Vectors` and `Geometry` are arithmetic on a few bits and a small grid, where TLC
tries every input.

## Not modelled

Of the modelled components:

- `Fiber::start` and `resume` called by other code than `update`; an `update` of the
  same manager from inside a fiber; `sleep` or `yield` while a fiber is being
  terminated, which `base/fiber.cpp:174` refuses by an exception out of a destructor.
- The static `Fiber::sleep_until` (`base/fiber.cpp:309`), which calls itself.
- The bytes of saved stacks, and the check of the call site in
  `Fiber::resume_into_state` (`base/fiber.cpp:270`), which only warns.
- That `ResourceManager::clear` unwinds the loaders that still sleep one after the other
  (`io/resource_manager.cpp:213`); here they go in one step.
- Loaders that yield or sleep by themselves, several loaders or archives (the last
  registered wins), and resources that need each other in a circle.
- Another fiber manager that runs between two loads. A load leaves
  `current_manager_` null, so that a game fiber that has loaded something cannot yield
  any more (`base/fiber.cpp:103`); that needs `FiberManager` composed with `ResourceManager`.
- The arena of the resource manager, and what a `ResourcePtr` does to a resource that
  `clear()` has destroyed.
- Copies of a `SignalConnectionID`, which stay valid-looking after `disconnect`; a
  handler that destroys the signal it is called from; the lookup of slots by name.
- A constructor that throws inside `create`, after its finalizer is registered; the
  program of `join` (`base/string.cpp:129`), which uses two scopes against their order.
- Of a universe: what else a callback of `update` may call (create, clear, rename); more
  than one growth of the update set (`Room` is where it moves); a root that is an aspect, and
  the null root of an editor's universe. `NameRegistry` says nothing of a rename that leaves
  the names as they are, for instance of an object that already has the wanted one.
- The time that a child leaves between two outputs; the exit code of a process; several
  handles in one loop; a `Process` used without a handle; a callback that activates or
  destroys the handle it is called by; a descriptor that gets the number of a stream that
  was closed.
- The alignment of composites and the order in which their parts are destroyed; that a
  document can give an enumeration a value by name which is outside its bounds.
- Queries that answer the opposite of what they are called, and change nothing:
  `AutoListLink::is_linked` (`base/auto_link_queue.hpp:33`) and `Any::operator bool`
  (`base/any.hpp:67`). The destruction of a `BareLinkList` that has nodes.
- Reading bytes from a stream that has no length, which returns an empty document.
- `Either::swap`, which passes an `Either` to `construct_move`, and a map written as an
  array, through `serialize_map_as_array`, which is defined nowhere: neither can be
  instantiated.
- `Rect::intersection` and `polygon_intersection`, which compare through `approximately`;
  rounding in general, numbers being exact here; `geometry/units.hpp`, types only; the
  quantisation of `CompactColor`.
- `base/simd_plain.hpp`, which lacks functions that `geometry/vector.hpp` calls.
- The YAML parser, libevent, the C library and the operating system, which are modelled
  from how the code uses them; the layout of what is written.
- `FileStream::swap` and autoflush.

Left out altogether, `not_modelled` in `PROJECT.json`: text (`base/string`, `log`,
`error`, `regex`, `io` formatting), wrappers of the standard library (`random`,
`linear_map`, `unordered`, `stl_allocator`, `time`), the streams over sockets and standard
descriptors, the archives and the reactor, which forward each call, the generic event
loop, tests and build files. They keep no state between calls whose order matters.
