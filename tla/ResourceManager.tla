-------------------------- MODULE ResourceManager ---------------------------
(***************************************************************************)
(* io/resource_manager: load_resource looks in the cache and otherwise     *)
(* runs the loader in a fiber of a fiber manager of its own.  A loader     *)
(* that loads other resources launches a fiber for each and yields; update *)
(* always resumes the last fiber of the list, so that a loader gets        *)
(* control back when the one it waits for has finished.                    *)
(***************************************************************************)
EXTENDS SequencesExt

CONSTANTS
  Resource,   \* resource IDs
  None,       \* no resource
  Needs,      \* the resources that the loader of each may load itself
  Depth,      \* bound on the length of a chain of needs, for Layered
  MaxFibers   \* bound on fibers_ once loads can only pile up

ASSUME ResourceAssumption ==
  /\ None \notin Resource
  /\ Needs \in [Resource -> SUBSET Resource]
  /\ Depth \in Nat
  /\ MaxFibers \in Nat

VARIABLES
  cached,      \* the keys of resource_cache
  held,        \* the cached resources with a positive reference count
  registered,  \* whether resource_loaders holds the loader
  contents,    \* the resources that the archives contain
  flag,        \* is_in_resource_loader_fiber
  fibers,      \* fiber_manager.fibers_
  current,     \* what fiber_manager.current_ points to
  manager,     \* IFiberManager::current_manager_: "null" or "this"
  pc,          \* who has the thread: host code, the loop of update, or the
               \* loader in the last fiber
  failed,      \* history: the resources whose load has failed since update began
  escaped      \* history: whether an exception has left a load

fiberVars == <<flag, fibers, current, manager, pc>>
vars == <<cached, held, registered, contents, fiberVars, failed, escaped>>

FiberState == {"Unstarted", "Running", "Sleeping", "UnhandledException"}

(* A fiber in load_resource_impl(rid): asks is what its loader may still   *)
(* load, awaits the nested load it has yielded for.                        *)
Fiber == [rid : Resource, state : FiberState, asks : SUBSET Resource,
          awaits : Resource \union {None}]

TypeOK ==
  /\ cached \in SUBSET Resource
  /\ held \in SUBSET cached
  /\ registered \in BOOLEAN
  /\ contents \in SUBSET Resource
  /\ flag \in BOOLEAN
  /\ fibers \in Seq(Fiber)
  /\ current \in {"null", "running", "failed", "freed"}
  /\ manager \in {"null", "this"}
  /\ pc \in {"host", "loop", "loader", "crashed"}
  /\ failed \in SUBSET Resource
  /\ escaped \in BOOLEAN

Init ==
  /\ cached = {} /\ held = {}
  /\ registered = FALSE /\ contents = {}
  /\ flag = FALSE
  /\ fibers = << >>
  /\ current = "null" /\ manager = "null"
  /\ pc = "host"
  /\ failed = {}
  /\ escaped = FALSE

-----------------------------------------------------------------------------
(* Between loads, the host sets the manager up, drops ResourcePtrs, and    *)
(* frees resources.                                                        *)

add_loader ==
  /\ pc = "host"
  /\ registered' = TRUE
  /\ UNCHANGED <<cached, held, contents, fiberVars, failed, escaped>>

add_archive(content) ==
  /\ pc = "host"
  /\ contents' = contents \union content
  /\ UNCHANGED <<cached, held, registered, fiberVars, failed, escaped>>

Release(r) ==
  /\ pc = "host"
  /\ r \in held
  /\ held' = held \ {r}
  /\ UNCHANGED <<cached, registered, contents, fiberVars, failed, escaped>>

(* Nothing assigns Resource::loader_, through which a resource without     *)
(* references is freed.                                                    *)
garbage_collect ==
  /\ pc = "host"
  /\ pc' = IF cached = held THEN "host" ELSE "crashed"
  /\ UNCHANGED <<cached, held, registered, contents, flag, fibers, current, manager, failed, escaped>>

\* Mutant: clear() also resets the flag.
clear_Flag ==
  /\ pc = "host"
  /\ cached' = {} /\ held' = {}
  /\ registered' = FALSE
  /\ fibers' = << >>
  /\ flag' = FALSE
  /\ current' = IF current = "null" THEN "null" ELSE "freed"
  /\ UNCHANGED <<contents, manager, pc, failed, escaped>>

\* Mutant: the references to what clear() destroys are still counted.
clear_Held ==
  /\ pc = "host"
  /\ cached' = {}
  /\ registered' = FALSE
  /\ fibers' = << >>
  /\ current' = IF current = "null" THEN "null" ELSE "freed"
  /\ UNCHANGED <<held, contents, flag, manager, pc, failed, escaped>>

(* Resources are destroyed whether held or not; archives and flag stay. *)
clear ==
  /\ pc = "host"
  /\ cached' = {} /\ held' = {}
  /\ registered' = FALSE
  /\ fibers' = << >>
  /\ current' = IF current = "null" THEN "null" ELSE "freed"
  /\ UNCHANGED <<contents, flag, manager, pc, failed, escaped>>

-----------------------------------------------------------------------------
(* load_resource *)

NewFiber(r) == [rid |-> r, state |-> "Unstarted", asks |-> Needs[r], awaits |-> None]

(* From the cache. *)
LoadCached(r) ==
  /\ pc = "host"
  /\ r \in cached
  /\ held' = held \union {r}
  /\ UNCHANGED <<cached, registered, contents, fiberVars, failed, escaped>>

(* The outermost load runs the fiber manager. *)
Load(r) ==
  /\ pc = "host"
  /\ r \notin cached
  /\ ~flag
  /\ flag' = TRUE
  /\ fibers' = Append(fibers, NewFiber(r))
  /\ manager' = "this"
  /\ pc' = "loop"
  /\ failed' = {}
  /\ UNCHANGED <<cached, held, registered, contents, current, escaped>>

(* With the flag left over from a load that an exception has ended, a load *)
(* of the host takes itself for a nested one: it launches and yields, on   *)
(* behalf of the fiber that failed, which raises FiberError; or, after     *)
(* clear(), of one that is freed.                                          *)
LoadStuck(r) ==
  /\ pc = "host"
  /\ r \notin cached
  /\ flag
  /\ Len(fibers) < MaxFibers
  /\ fibers' = Append(fibers, NewFiber(r))
  /\ pc' = IF current = "failed" THEN "host" ELSE "crashed"
  /\ UNCHANGED <<cached, held, registered, contents, flag, current, manager, failed, escaped>>

-----------------------------------------------------------------------------
(* ResourceLoaderFiberManager::update *)

\* Mutant: update goes through the fibers from the first.
Top_First == IF fibers = << >> THEN 0 ELSE 1

(* The fiber that update resumes. *)
Top == Len(fibers)

Resume ==
  /\ pc = "loop"
  /\ fibers # << >>
  /\ fibers[Top].state \in {"Unstarted", "Sleeping"}
  /\ fibers' = [fibers EXCEPT ![Top].state = "Running", ![Top].awaits = None]
  /\ current' = "running"
  /\ pc' = "loader"
  /\ UNCHANGED <<cached, held, registered, contents, flag, manager, failed, escaped>>

\* Mutant: is_in_resource_loader_fiber is not reset.
UpdateEnd_Flag ==
  /\ pc = "loop"
  /\ fibers = << >>
  /\ manager' = "null"
  /\ pc' = "host"
  /\ UNCHANGED <<cached, held, registered, contents, flag, fibers, current, failed, escaped>>

(* The outermost load looks in the cache again and returns. *)
UpdateEnd ==
  /\ pc = "loop"
  /\ fibers = << >>
  /\ manager' = "null"
  /\ flag' = FALSE
  /\ pc' = "host"
  /\ UNCHANGED <<cached, held, registered, contents, fibers, current, failed, escaped>>

-----------------------------------------------------------------------------
(* load_resource_impl, in the fiber that runs. *)

InLoader(r) == pc = "loader" /\ r = fibers[Top].rid

Available(r) == registered /\ r \in contents

Ask(d) == Available(fibers[Top].rid) /\ d \in fibers[Top].asks

AskCached(r, d) ==
  /\ InLoader(r) /\ Ask(d)
  /\ d \in cached
  /\ fibers' = [fibers EXCEPT ![Top].asks = @ \ {d}]
  /\ held' = held \union {d}
  /\ UNCHANGED <<cached, registered, contents, flag, current, manager, pc, failed, escaped>>

\* Mutant: a nested load does not look in the cache.
AskNested_NoLookup(r, d) ==
  /\ InLoader(r) /\ Ask(d)
  /\ fibers' = Append([fibers EXCEPT ![Top].state = "Sleeping",
                                     ![Top].asks = @ \ {d},
                                     ![Top].awaits = d],
                      NewFiber(d))
  /\ current' = "null"
  /\ pc' = "loop"
  /\ UNCHANGED <<cached, held, registered, contents, flag, manager, failed, escaped>>

(* launch, and Fiber::yield back to update. *)
AskNested(r, d) ==
  /\ InLoader(r) /\ Ask(d)
  /\ d \notin cached
  /\ fibers' = Append([fibers EXCEPT ![Top].state = "Sleeping",
                                     ![Top].asks = @ \ {d},
                                     ![Top].awaits = d],
                      NewFiber(d))
  /\ current' = "null"
  /\ pc' = "loop"
  /\ UNCHANGED <<cached, held, registered, contents, flag, manager, failed, escaped>>

\* Mutant: a fiber that has loaded its resource is not erased.
Pop_Never(r) ==
  /\ InLoader(r)
  /\ fibers' = [fibers EXCEPT ![Top].state = "Unstarted"]
  /\ current' = "null"
  /\ pc' = "loop"
  /\ UNCHANGED <<registered, contents, flag, manager, escaped>>

(* The function returns, the fiber is Unstarted again, and update pops it. *)
Pop(r) ==
  /\ InLoader(r)
  /\ fibers' = RemoveAt(fibers, Top)
  /\ current' = "null"
  /\ pc' = "loop"
  /\ UNCHANGED <<registered, contents, flag, manager, escaped>>

\* Mutant: the resource is not entered in the cache.
Succeed_Forget(r) ==
  /\ Pop(r)
  /\ Available(r)
  /\ UNCHANGED <<cached, held, failed>>

(* Whoever waits for the resource finds it in the cache and holds it. *)
Succeed(r) ==
  /\ Pop(r)
  /\ Available(r)
  /\ cached' = cached \union {r}
  /\ held' = held \union {r}
  /\ UNCHANGED failed

(* No loader, no archive that contains it, or a loader that returns false. *)
Fail(r) ==
  /\ Pop(r)
  /\ failed' = failed \union {r}
  /\ UNCHANGED <<cached, held>>

(* An exception leaves the loader, update and the outermost load. *)
Throw(r) ==
  /\ InLoader(r)
  /\ Available(r)
  /\ fibers' = [fibers EXCEPT ![Top].state = "UnhandledException"]
  /\ current' = "failed"
  /\ pc' = "host"
  /\ escaped' = TRUE
  /\ UNCHANGED <<cached, held, registered, contents, flag, manager, failed>>

LoaderStep(r) ==
  \/ \E d \in Resource : AskCached(r, d) \/ AskNested(r, d)
  \/ Succeed(r)
  \/ Fail(r)
  \/ Throw(r)

Update == Resume \/ UpdateEnd \/ \E r \in Resource : LoaderStep(r)

Next ==
  \/ add_loader
  \/ \E content \in SUBSET Resource : add_archive(content)
  \/ \E r \in Resource : Release(r)
  \/ garbage_collect
  \/ clear
  \/ \E r \in Resource : LoadCached(r) \/ Load(r) \/ LoadStuck(r)
  \/ Update

(* A load that is under way runs on: loaders end some day. *)
Spec == Init /\ [][Next]_vars /\ WF_vars(Update)

-----------------------------------------------------------------------------
(* Resources do not need each other in a circle.  The code relies on that  *)
(* and does not check it: loads of a circle launch fibers without end.     *)
Layered ==
  \E rank \in [Resource -> 0 .. Depth] :
    \A r \in Resource : \A d \in Needs[r] : rank[d] < rank[r]

(* No resource is loaded twice at a time, or while it is cached: neither   *)
(* would free the one that resource_cache[rid] = resource replaces.        *)
InFlightOnce ==
  Layered /\ ~escaped =>
    \A i \in DOMAIN fibers :
      /\ fibers[i].rid \notin cached
      /\ \A j \in DOMAIN fibers : fibers[i].rid = fibers[j].rid => i = j

(* A loader gets control back only when the load it waits for has ended,   *)
(* since the fiber of that load is behind its own in the list: it finds    *)
(* the resource in the cache unless the load failed.                       *)
AnswerIsThere ==
  [][Resume => fibers[Top].awaits \in cached \union failed \union {None}]_vars

(* The flag, the manager and the current fiber tell a load from a nested   *)
(* one: all are set exactly while one is under way, and nothing is left in *)
(* the list when it returns.  An exception breaks that for good.           *)
FlagTracksLoad ==
  ~escaped =>
    /\ flag <=> pc \in {"loop", "loader"}
    /\ manager = "this" <=> flag
    /\ current = "running" <=> pc = "loader"
    /\ ~flag => fibers = << >>

(* After an exception has left a load, no resource is ever loaded again,   *)
(* even if everything is cleared and set up anew.                          *)
EscapeIsFinal == [][escaped => cached' \subseteq cached]_vars

(* Every load returns or raises. *)
EveryLoadEnds == pc = "loop" ~> pc \in {"host", "crashed"}

(* The list of fibers implements plain recursive calls. *)
Calls == INSTANCE ResourceCalls WITH
  cache  <- cached,
  calls  <- IF escaped THEN << >> ELSE [i \in DOMAIN fibers |-> fibers[i].rid],
  broken <- escaped

CallsSpec == Calls!Spec

=============================================================================
