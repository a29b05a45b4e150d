---------------------------- MODULE SyscallStash ----------------------------
(***************************************************************************)
(* The eBPF programs of services/ebpf-agent/bpf/process_events.bpf.c: the  *)
(* enter hook of a system call leaves what its exit hook will need in a    *)
(* per-CPU stash (credentials, namespace type, module parameters), and the *)
(* exit hook emits an event with whatever the stash of its CPU then holds. *)
(*                                                                         *)
(* A hook runs to its end on the CPU of its task.  Between the two hooks   *)
(* the kernel may switch the task out and resume it on any CPU.  Not every *)
(* call has an enter hook, and a task may be in a call when the programs   *)
(* are attached.  The three families of calls have a stash, a ring buffer  *)
(* and a counter of failed reservations each.                              *)
(***************************************************************************)
EXTENDS Integers, Sequences, FiniteSets

CONSTANTS
  Tasks, CPUs,
  NoCPU,     \* where a task is that does not run
  Calls,     \* the system calls the tasks make, a subset of Hooked
  Values,    \* credentials, namespace types, parameter strings
  Zero,      \* the initial content of a stash
  NoArg,     \* the null pointer as parameter string of finit_module
  RingSize,  \* records a ring buffer holds
  MaxCalls   \* bound: hooked calls in one behaviour

Stashing == {"setuid", "setresuid", "setns", "finit_module"}
Hooked == Stashing \cup {"setgid", "unshare", "init_module", "delete_module"}

ASSUME CallsAssumption == Calls \subseteq Hooked
ASSUME ValuesAssumption == Zero \in Values /\ NoArg \notin Values
ASSUME CPUsAssumption == NoCPU \notin CPUs
ASSUME SizesAssumption == RingSize \in Nat /\ MaxCalls \in Nat

Families == {"privilege", "namespace", "module"}
Family(c) ==
  CASE c \in {"setuid", "setresuid", "setgid"} -> "privilege"
    [] c \in {"setns", "unshare"} -> "namespace"
    [] OTHER -> "module"

VARIABLES
  cpu,       \* the CPU each task runs on
  cred,      \* its effective credentials
  call,      \* the hooked call it is in
  stash,     \* priv_args_stash, ns_args_stash and module_args_stash
  ring,      \* rb_privilege, rb_namespace and rb_module
  lost,      \* reserve_failures, on each CPU
  own,       \* history: what the call of a task was entered with
  stayed,    \* history: its enter hook ran, and it has kept its CPU since
  exits,     \* history: exit hooks run
  drained    \* history: records user space has taken

history == <<own, stayed, exits, drained>>
vars == <<cpu, cred, call, stash, ring, lost, history>>

\* own and stayed repeat the history of the call, for the properties.
Record == [task : Tasks, call : Hooked, value : Values, after : Values,
           own : Values \cup {NoArg}, stayed : BOOLEAN]

TypeOK ==
  /\ cpu \in [Tasks -> CPUs \cup {NoCPU}]
  /\ cred \in [Tasks -> Values]
  /\ call \in [Tasks -> Calls \cup {"none"}]
  /\ stash \in [Families \X CPUs -> Values]
  /\ ring \in [Families -> Seq(Record)]
  /\ lost \in [Families \X CPUs -> Nat]
  /\ own \in [Tasks -> Values \cup {NoArg}]
  /\ stayed \in [Tasks -> BOOLEAN]
  /\ exits \in [Families -> Nat]
  /\ drained \in [Families -> Nat]

Init ==
  /\ cpu = [t \in Tasks |-> NoCPU]
  /\ cred \in [Tasks -> Values]
  /\ call \in [Tasks -> Calls \cup {"none"}]
  /\ stash = [fc \in Families \X CPUs |-> Zero]
  /\ ring = [f \in Families |-> <<>>]
  /\ lost = [fc \in Families \X CPUs |-> 0]
  /\ own = [t \in Tasks |-> Zero]
  /\ stayed = [t \in Tasks |-> FALSE]
  /\ exits = [f \in Families |-> 0]
  /\ drained = [f \in Families |-> 0]

Running(t) == cpu[t] \in CPUs

\* Hooked calls so far.
CallsMade ==
  exits["privilege"] + exits["namespace"] + exits["module"]
    + Cardinality({t \in Tasks : call[t] # "none"})

-----------------------------------------------------------------------------
(* Faulty variants: the bugs the properties must catch *)

\* The maps are arrays shared by the CPUs.
StashShared(t, c, value) ==
  stash' = IF c \in Stashing /\ value # NoArg
           THEN [fp \in Families \X CPUs |-> IF fp[1] = Family(c) THEN value ELSE stash[fp]]
           ELSE stash

\* A failed reservation returns without counting.
ReserveFailsSilently(t, c) ==
  /\ Len(ring[Family(c)]) >= RingSize
  /\ UNCHANGED <<ring, lost>>

-----------------------------------------------------------------------------
(* The scheduler *)

SwitchIn(t, p) ==
  /\ ~Running(t)
  /\ \A u \in Tasks : cpu[u] # p
  /\ cpu' = [cpu EXCEPT ![t] = p]
  /\ UNCHANGED <<cred, call, stash, ring, lost, history>>

SwitchOut(t) ==
  /\ Running(t)
  /\ cpu' = [cpu EXCEPT ![t] = NoCPU]
  /\ stayed' = [stayed EXCEPT ![t] = FALSE]
  /\ UNCHANGED <<cred, call, stash, ring, lost, own, exits, drained>>

-----------------------------------------------------------------------------
(* The hooks *)

\* phantom_stash_current_cred, and the enter hooks of setns and finit_module;
\* the latter's copy of the user's string may fault and leave zeros.
FillStash(t, c, value) ==
  stash' \in IF c \in Stashing /\ value # NoArg
             THEN {[stash EXCEPT ![<<Family(c), cpu[t]>>] = v] :
                     v \in IF c = "finit_module" THEN {value, Zero} ELSE {value}}
             ELSE {stash}

\* The value of a privilege call is what its task is, of another its argument.
Enter(t, c, arg) ==
  LET value == IF Family(c) = "privilege" THEN cred[t] ELSE arg
  IN /\ CallsMade < MaxCalls
     /\ Running(t) /\ call[t] = "none"
     /\ Family(c) = "privilege" => arg = Zero    \* not an input of the hook
     /\ arg = NoArg => c = "finit_module"
     /\ FillStash(t, c, value)
     /\ call' = [call EXCEPT ![t] = c]
     /\ own' = [own EXCEPT ![t] = value]
     /\ stayed' = [stayed EXCEPT ![t] = TRUE]
     /\ UNCHANGED <<cpu, cred, ring, lost, exits, drained>>

\* The event is emitted whatever the call returned.
Emit(t, c) ==
  LET f == Family(c)
  IN /\ Len(ring[f]) < RingSize
     /\ ring' = [ring EXCEPT ![f] = Append(@,
          [task |-> t, call |-> c, value |-> stash[<<f, cpu[t]>>],
           after |-> cred'[t], own |-> own[t], stayed |-> stayed[t]])]
     /\ UNCHANGED lost

\* phantom_increment_reserve_failure: the event is lost, and counted.
ReserveFails(t, c) ==
  /\ Len(ring[Family(c)]) >= RingSize
  /\ lost' = [lost EXCEPT ![<<Family(c), cpu[t]>>] = @ + 1]
  /\ UNCHANGED ring

\* The kernel has done the call or refused it; its exit hook runs.
Exit(t) ==
  /\ Running(t) /\ call[t] # "none"
  /\ \/ UNCHANGED cred
     \/ Family(call[t]) = "privilege" /\ \E v \in Values : cred' = [cred EXCEPT ![t] = v]
  /\ Emit(t, call[t]) \/ ReserveFails(t, call[t])
  /\ call' = [call EXCEPT ![t] = "none"]
  /\ exits' = [exits EXCEPT ![Family(call[t])] = @ + 1]
  /\ own' = [own EXCEPT ![t] = Zero] /\ stayed' = [stayed EXCEPT ![t] = FALSE]
  /\ UNCHANGED <<cpu, stash, drained>>

-----------------------------------------------------------------------------
\* ring_buffer__poll hands a record to the agent.
Drain(f) ==
  /\ ring[f] # <<>>
  /\ ring' = [ring EXCEPT ![f] = Tail(@)]
  /\ drained' = [drained EXCEPT ![f] = @ + 1]
  /\ UNCHANGED <<cpu, cred, call, stash, lost, own, stayed, exits>>

Next ==
  \/ \E t \in Tasks :
       \/ \E p \in CPUs : SwitchIn(t, p)
       \/ SwitchOut(t)
       \/ \E c \in Calls, arg \in Values \cup {NoArg} : Enter(t, c, arg)
       \/ Exit(t)
  \/ \E f \in Families : Drain(f)

Spec == Init /\ [][Next]_vars

-----------------------------------------------------------------------------
(* Properties *)

\* What the stash is for: a call with an enter hook that is not interrupted by
\* the scheduler is reported with its own value, whatever calls of the family
\* run on other CPUs meanwhile (or with none, if the user's string faulted).
UninterruptedIsOwn ==
  \A f \in Families : \A i \in DOMAIN ring[f] :
    LET rec == ring[f][i]
    IN rec.stayed /\ rec.call \in Stashing /\ rec.own # NoArg =>
         \/ rec.value = rec.own
         \/ rec.call = "finit_module" /\ rec.value = Zero

\* The loss counters miss nothing: each exit hook that ran has its record in the
\* ring buffer or with the agent, or was counted on some CPU, where it is one of
\* the counter's first numbers.
Losses(f) == UNION {{p} \X (1 .. lost[<<f, p>>]) : p \in CPUs}

LossIsCounted ==
  \A f \in Families : exits[f] = drained[f] + Len(ring[f]) + Cardinality(Losses(f))

\* "The pre-transition values are read from the current task cred at sys_enter"
\* (process_events.bpf.c:18).  Violated: setgid has no enter hook, and a task that
\* is switched out in its call finds another's values, or none.
BeforeIsOwn ==
  \A i \in DOMAIN ring["privilege"] :
    ring["privilege"][i].value = ring["privilege"][i].own
=============================================================================
