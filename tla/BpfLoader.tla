------------------------------- MODULE BpfLoader -------------------------------
(***************************************************************************)
(* The life of the agent's BPF objects (services/ebpf-agent:               *)
(* infrastructure/ebpf/loader.py, and async_main in application/main.py):  *)
(* the objects are opened, loaded and attached one after the other, their  *)
(* ring buffers are put under one manager and polled, and all is released  *)
(* when the loop ends or anything before it fails.  One thread, and every  *)
(* call of libbpf may fail.                                                *)
(***************************************************************************)
EXTENDS Integers, Sequences, FiniteSets

CONSTANTS
  BpfObjects,    \* BPF_OBJECTS, in the order they are loaded
  ProgramsOf,    \* the programs of each object
  RingsOf        \* RINGBUF_MAPS_BY_OBJECT: the rings that are drained, if any

ASSUME LoaderAssumption ==
  /\ IsFiniteSet(DOMAIN ProgramsOf)
  /\ BpfObjects \in Seq(DOMAIN ProgramsOf)
  /\ DOMAIN RingsOf = DOMAIN ProgramsOf

Objects == DOMAIN ProgramsOf
Programs == UNION {ProgramsOf[o] : o \in Objects}
Rings == {<<o, m>> : o \in Objects, m \in UNION {RingsOf[p] : p \in Objects}}

VARIABLES
  phase,     \* where async_main is
  next,      \* how many objects have been dealt with
  open,      \* objects the kernel holds for the agent
  linked,    \* <<object, program>> with a link
  handles,   \* _handles of the loader
  fds,       \* _ringbuf_fds, by object and map
  polled     \* rings under the manager; what it polls

loaderVars == <<phase, next, open, linked, handles, fds, polled>>

LoaderTypeOK ==
  /\ phase \in {"load", "bind", "poll", "unwind", "close", "ended"}
  /\ next \in 0 .. Len(BpfObjects)
  /\ open \subseteq Objects /\ handles \subseteq Objects
  /\ linked \subseteq Objects \X Programs
  /\ fds \subseteq Rings /\ polled \subseteq Rings

LoaderInit ==
  /\ phase = "load" /\ next = 0
  /\ open = {} /\ linked = {} /\ handles = {}
  /\ fds = {} /\ polled = {}

Object == BpfObjects[next + 1]
Loading == phase = "load" /\ next < Len(BpfObjects)
LinksOf(o) == {o} \X ProgramsOf[o]

-----------------------------------------------------------------------------
(* Faulty variants: the bugs the properties must catch *)

\* A program that does not attach is logged and passed over.
AttachSome(attached) ==
  /\ Loading /\ RingsOf[Object] # {} /\ attached \subseteq LinksOf(Object)
  /\ next' = next + 1
  /\ open' = open \cup {Object} /\ linked' = linked \cup attached
  /\ handles' = handles \cup {Object}
  /\ \E maps \in SUBSET RingsOf[Object] : fds' = fds \cup ({Object} \X maps)
  /\ UNCHANGED <<phase, polled>>

-----------------------------------------------------------------------------
(* Actions *)

\* No ring of the object is drained, or its file is not there: the next one.
SkipObject ==
  /\ Loading
  /\ next' = next + 1
  /\ UNCHANGED <<phase, open, linked, handles, fds, polled>>

\* bpf_object__open or __load fails, and what was opened is closed: load_all
\* raises, out of __enter__.
ObjectFails ==
  /\ Loading /\ RingsOf[Object] # {}
  /\ phase' = "unwind"
  /\ UNCHANGED <<next, open, linked, handles, fds, polled>>

\* All programs attach.  A ring whose map, or descriptor, is not found is left out.
LoadObject(attached) ==
  /\ Loading /\ RingsOf[Object] # {}
  /\ attached = LinksOf(Object)
  /\ next' = next + 1
  /\ open' = open \cup {Object} /\ linked' = linked \cup attached
  /\ handles' = handles \cup {Object}
  /\ \E maps \in SUBSET RingsOf[Object] : fds' = fds \cup ({Object} \X maps)
  /\ UNCHANGED <<phase, polled>>

\* Some program does not attach: the links of the others and the object go, and
\* _load_one raises before its rings are added.
AttachFails(attached) ==
  /\ Loading /\ RingsOf[Object] # {}
  /\ attached \subseteq LinksOf(Object) /\ attached # LinksOf(Object)
  /\ phase' = "unwind"
  /\ UNCHANGED <<next, open, linked, handles, fds, polled>>

AllLoaded ==
  /\ phase = "load" /\ next = Len(BpfObjects)
  /\ phase' = "bind"
  /\ UNCHANGED <<next, open, linked, handles, fds, polled>>

\* ring_buffer__new for the first ring, ring_buffer__add for the others.
AddRing ==
  /\ phase = "bind"
  /\ \E r \in fds \ polled : polled' = polled \cup {r}
  /\ UNCHANGED <<phase, next, open, linked, handles, fds>>

\* It fails, and RuntimeError leaves the with block.
AddRingFails ==
  /\ phase = "bind" /\ fds \ polled # {}
  /\ phase' = "unwind"
  /\ UNCHANGED <<next, open, linked, handles, fds, polled>>

StartPolling ==
  /\ phase = "bind" /\ polled = fds
  /\ phase' = "poll"
  /\ UNCHANGED <<next, open, linked, handles, fds, polled>>

\* The loop is cancelled, or raises.
StopPolling ==
  /\ phase = "poll"
  /\ phase' = "unwind"
  /\ UNCHANGED <<next, open, linked, handles, fds, polled>>

\* close_all, from __enter__'s except clause or from __exit__: each handle's links
\* are destroyed and its object closed.
CloseAll ==
  /\ phase = "unwind" /\ phase' = "close"
  /\ open' = open \ handles
  /\ linked' = {l \in linked : l[1] \notin handles}
  /\ handles' = {} /\ fds' = {}
  /\ UNCHANGED <<next, polled>>

\* The finally clause of async_main: ring_buffer__free, if a manager was made.
FreeRings ==
  /\ phase = "close" /\ phase' = "ended"
  /\ polled' = {}
  /\ UNCHANGED <<next, open, linked, handles, fds>>

LoaderNext ==
  \/ SkipObject \/ ObjectFails \/ AllLoaded
  \/ \E attached \in SUBSET (Objects \X Programs) : LoadObject(attached) \/ AttachFails(attached)
  \/ AddRing \/ AddRingFails \/ StartPolling \/ StopPolling
  \/ CloseAll \/ FreeRings

LoaderSpec == LoaderInit /\ [][LoaderNext]_loaderVars

-----------------------------------------------------------------------------
(* Properties *)

\* "Partial attachment must fail fast": while the agent polls, every object the
\* kernel holds has all its programs attached, and every ring that is polled is of
\* such an object; and once it has ended it holds nothing, whichever call failed.
PollsAttachedAndEndsEmpty ==
  /\ phase = "poll" =>
       /\ \A o \in open : LinksOf(o) \subseteq linked
       /\ \A r \in polled : r[1] \in open
  /\ phase = "ended" => open = {} /\ linked = {} /\ polled = {}
=============================================================================
