-------------------------- MODULE InterruptManager --------------------------
(***************************************************************************)
(* The registration and the dispatch of interrupt handlers:                *)
(* src/fzboot/irq/manager.rs, src/fzboot/irq/handlers.rs and               *)
(* src/x86/descriptors/idt.rs.                                             *)
(*                                                                         *)
(* A registration is one action per step, since an interrupt may come      *)
(* between two of them whenever interrupts are on.  An interrupt runs with *)
(* interrupts off and is one action.  The error returns are left out:      *)
(* every vector has a wrapper and every descriptor is present.             *)
(*                                                                         *)
(* Operators named ..._bug are deliberately wrong variants of the          *)
(* definition that follows them.  Nothing uses them; substituted for it,   *)
(* each makes TLC refute one of the properties at the end.                 *)
(***************************************************************************)
EXTENDS Integers, Sequences

CONSTANTS Vectors,     \* the interrupt vectors in use, of 0 .. 255
          Handlers,    \* the handler functions
          Priorities,  \* the priorities dynamic handlers are registered with
          Kinds,       \* the registrations made: "static", "dynamic"
          MaxCalls     \* bound on the number of registrations

ASSUME InterruptAssumption ==
    /\ Vectors \subseteq 0 .. 255
    /\ Handlers \cap {"default", "wrapper"} = {}
    /\ Kinds \subseteq {"static", "dynamic"}

MAX_INT_PRIORITY == 65535

VARIABLES registry,  \* handler_registry: for each vector [kind, list]
          idt,       \* the gates of the table in memory
          locked,    \* handler_registry is locked for writing
          irqs,      \* the interrupt flag of the CPU
          call,      \* the registration in progress
          asked,     \* the [vector, fn, naked] whose registration has returned
          wanted,    \* the interrupt flag that callers of the manager left
          calls,     \* the number of registrations so far
          ran        \* how the last interrupt ended, and what it ran

vars == <<registry, idt, locked, irqs, call, asked, wanted, calls, ran>>

Vacant == [kind |-> "None", list |-> <<>>]

\* an entry of the list of a RuntimeInterruptHandler.  A static handler is a
\* naked function that ends in iretq; called like a function it does not return
Entry(fn, priority, naked) == [fn |-> fn, priority |-> priority, naked |-> naked]

\* InterruptHandler::Static, as the entry that it is turned into
Static(fn) == [kind |-> "Static", list |-> <<Entry(fn, MAX_INT_PRIORITY, TRUE)>>]

\* sorts by increasing priority
insert_handler_bug(list, e) ==
    SelectSeq(list, LAMBDA x : x.priority <= e.priority) \o <<e>>
        \o SelectSeq(list, LAMBDA x : x.priority > e.priority)

\* insert_handler: push, and a stable sort by decreasing priority
insert_handler(list, e) ==
    SelectSeq(list, LAMBDA x : x.priority >= e.priority) \o <<e>>
        \o SelectSeq(list, LAMBDA x : x.priority < e.priority)

\* the length written in the IDTR, eight bytes for each of the 256 gates
\* of sixteen, and whether the CPU finds the gate of a vector within it
length == 256 * 8
Reachable(v) == 16 * v + 15 <= length

\* the entries whose handlers exec_handlers_in_order calls, in order
exec_handlers_in_order(list) ==
    LET nakeds == {i \in DOMAIN list : list[i].naked}
        last   == IF nakeds = {} THEN Len(list)
                  ELSE CHOOSE i \in nakeds : \A j \in nakeds : i <= j
    IN  SubSeq(list, 1, last)

\* what an interrupt on v executes: its gate, or _runtime_int_entry behind it
Runs(v) ==
    IF ~Reachable(v) \/ idt[v] = "default" THEN <<>>
    ELSE IF idt[v] # "wrapper" THEN <<Entry(idt[v], MAX_INT_PRIORITY, TRUE)>>
    ELSE IF registry[v].kind = "Dynamic" THEN exec_handlers_in_order(registry[v].list)
    ELSE <<>>

Labels == {"idle", "dyn_cli", "dyn_lock", "dyn_insert", "dyn_gate", "dyn_sti", "static_cli",
           "static_check", "static_lock", "static_insert", "static_gate", "static_sti"}

\* off is irq_disabled of the registration that runs, outer_off that of the
\* register_static_handler it is nested in; naked is set by the latter
Idle == [pc |-> "idle", vector |-> 0, fn |-> "default", priority |-> 0, naked |-> FALSE,
         off |-> FALSE, outer_off |-> FALSE]

Init == /\ registry = [v \in Vectors |-> Vacant]
        /\ idt = [v \in Vectors |-> "default"]
        /\ locked = FALSE /\ irqs = FALSE /\ wanted = FALSE
        /\ call = Idle /\ asked = {} /\ calls = 0
        /\ ran = [how |-> "returns", list |-> <<>>]

At(pc) == call.pc = pc
Go(pc) == call' = [call EXCEPT !.pc = pc]
Gate(g) == idt' = [idt EXCEPT ![call.vector] = g]

\* the sti at the end of a registration, unless interrupts were off before
Restore(irq_disabled) == irqs' = (irqs \/ ~irq_disabled)

Done == /\ call' = Idle
        /\ asked' = asked \cup {[vector |-> call.vector, fn |-> call.fn, naked |-> call.naked]}

-----------------------------------------------------------------------------

\* the kernel runs with interrupts on or off before and after the calls
set_interrupts ==
    /\ At("idle")
    /\ irqs' = ~irqs /\ wanted' = irqs'
    /\ UNCHANGED <<registry, idt, locked, call, asked, calls, ran>>

\* register_dynamic_handler, entered by a caller; it looks at the flag
register_dynamic_handler(v, fn, p) ==
    /\ At("idle") /\ "dynamic" \in Kinds /\ calls < MaxCalls
    /\ call' = [pc |-> "dyn_cli", vector |-> v, fn |-> fn, priority |-> p, naked |-> FALSE,
                off |-> ~irqs, outer_off |-> ~irqs]
    /\ calls' = calls + 1
    /\ UNCHANGED <<registry, idt, locked, irqs, asked, wanted, ran>>

dynamic_cli ==
    /\ At("dyn_cli") /\ Go("dyn_lock")
    /\ irqs' = FALSE
    /\ UNCHANGED <<registry, idt, locked, asked, wanted, calls, ran>>

dynamic_lock ==
    /\ At("dyn_lock") /\ ~locked /\ Go("dyn_insert")
    /\ locked' = TRUE
    /\ UNCHANGED <<registry, idt, irqs, asked, wanted, calls, ran>>

\* starts a new list for an occupied vector too
dynamic_insert_bug ==
    /\ At("dyn_insert") /\ Go("dyn_gate")
    /\ registry' = [registry EXCEPT ![call.vector] =
           [kind |-> "Dynamic", list |-> <<Entry(call.fn, call.priority, call.naked)>>]]
    /\ locked' = FALSE
    /\ UNCHANGED <<idt, irqs, asked, wanted, calls, ran>>

\* a vacant entry becomes an empty list, a static one a list with its handler
\* at MAX_INT_PRIORITY; then the new handler is inserted
dynamic_insert ==
    /\ At("dyn_insert") /\ Go("dyn_gate")
    /\ registry' = [registry EXCEPT ![call.vector] =
           [kind |-> "Dynamic",
            list |-> insert_handler(@.list, Entry(call.fn, call.priority, call.naked))]]
    /\ locked' = FALSE
    /\ UNCHANGED <<idt, irqs, asked, wanted, calls, ran>>

\* leaves the offset of the descriptor at zero
dynamic_gate_bug ==
    /\ At("dyn_gate") /\ Go("dyn_sti")
    /\ Gate("null")
    /\ UNCHANGED <<registry, locked, irqs, asked, wanted, calls, ran>>

\* set_entry and write_table
dynamic_gate ==
    /\ At("dyn_gate") /\ Go("dyn_sti")
    /\ Gate("wrapper")
    /\ UNCHANGED <<registry, locked, irqs, asked, wanted, calls, ran>>

\* enables interrupts whatever the flag was
dynamic_sti_bug ==
    /\ At("dyn_sti")
    /\ irqs' = TRUE
    /\ IF call.naked THEN Go("static_lock") /\ UNCHANGED asked ELSE Done
    /\ UNCHANGED <<registry, idt, locked, wanted, calls, ran>>

\* returns to its caller, which may be register_static_handler
dynamic_sti ==
    /\ At("dyn_sti")
    /\ Restore(call.off)
    /\ IF call.naked THEN Go("static_lock") /\ UNCHANGED asked ELSE Done
    /\ UNCHANGED <<registry, idt, locked, wanted, calls, ran>>

register_static_handler(v, fn) ==
    /\ At("idle") /\ "static" \in Kinds /\ calls < MaxCalls
    /\ call' = [pc |-> "static_cli", vector |-> v, fn |-> fn, priority |-> MAX_INT_PRIORITY,
                naked |-> TRUE, off |-> ~irqs, outer_off |-> ~irqs]
    /\ calls' = calls + 1
    /\ UNCHANGED <<registry, idt, locked, irqs, asked, wanted, ran>>

static_cli ==
    /\ At("static_cli") /\ Go("static_check")
    /\ irqs' = FALSE
    /\ UNCHANGED <<registry, idt, locked, asked, wanted, calls, ran>>

\* an occupied vector goes through register_dynamic_handler first
static_check ==
    /\ At("static_check") /\ ~locked
    /\ IF registry[call.vector].kind = "None"
       THEN Go("static_lock")
       ELSE call' = [call EXCEPT !.pc = "dyn_cli", !.off = ~irqs]
    /\ UNCHANGED <<registry, idt, locked, irqs, asked, wanted, calls, ran>>

static_lock ==
    /\ At("static_lock") /\ ~locked /\ Go("static_insert")
    /\ locked' = TRUE
    /\ UNCHANGED <<registry, idt, irqs, asked, wanted, calls, ran>>

static_insert ==
    /\ At("static_insert") /\ Go("static_gate")
    /\ registry' = [registry EXCEPT ![call.vector] = Static(call.fn)]
    /\ locked' = FALSE
    /\ UNCHANGED <<idt, irqs, asked, wanted, calls, ran>>

static_gate ==
    /\ At("static_gate") /\ Go("static_sti")
    /\ Gate(call.fn)
    /\ UNCHANGED <<registry, locked, irqs, asked, wanted, calls, ran>>

\* restores the flag that was read inside the nested registration
static_sti_bug ==
    /\ At("static_sti")
    /\ Restore(call.off)
    /\ Done
    /\ UNCHANGED <<registry, idt, locked, wanted, calls, ran>>

static_sti ==
    /\ At("static_sti")
    /\ Restore(call.outer_off)
    /\ Done
    /\ UNCHANGED <<registry, idt, locked, wanted, calls, ran>>

\* an interrupt; the entry of dynamic handlers waits for the registry, and
\* expects the vector in it
interrupt(v) ==
    /\ irqs
    /\ LET entered == Reachable(v) /\ idt[v] = "wrapper"
       IN  ran' = [how  |-> IF entered /\ locked THEN "spins"
                            ELSE IF entered /\ registry[v].kind = "None" THEN "panics"
                            ELSE "returns",
                   list |-> Runs(v)]
    /\ UNCHANGED <<registry, idt, locked, irqs, call, asked, wanted, calls>>

Next ==
    \/ set_interrupts
    \/ \E v \in Vectors, fn \in Handlers, p \in Priorities : register_dynamic_handler(v, fn, p)
    \/ dynamic_cli \/ dynamic_lock \/ dynamic_insert \/ dynamic_gate \/ dynamic_sti
    \/ \E v \in Vectors, fn \in Handlers : register_static_handler(v, fn)
    \/ static_cli \/ static_check \/ static_lock \/ static_insert \/ static_gate \/ static_sti
    \/ \E v \in Vectors : interrupt(v)

Spec == Init /\ [][Next]_vars

-----------------------------------------------------------------------------

Calls == [pc : Labels, vector : 0 .. 255, fn : Handlers \cup {"default"},
          priority : Priorities \cup {0, MAX_INT_PRIORITY}, naked : BOOLEAN,
          off : BOOLEAN, outer_off : BOOLEAN]

\* The types of the registry, the table, the flags and the registration in
\* progress: a gate leads to a handler or to one of the two wrappers.
TypeOK ==
    /\ \A v \in Vectors : registry[v].kind \in {"None", "Static", "Dynamic"}
    /\ idt \in [Vectors -> Handlers \cup {"default", "wrapper"}]
    /\ locked \in BOOLEAN /\ irqs \in BOOLEAN /\ wanted \in BOOLEAN
    /\ call \in Calls
    /\ ran.how \in {"returns", "spins", "panics"}

\* An interrupt that can be taken finds the table and the registry in step
\* and the registry free, even in a static registration that goes through a
\* dynamic one: no gate leads to handlers that are not there.
DispatchSafe ==
    irqs => /\ ~locked
            /\ \A v \in Vectors :
                  /\ idt[v] = "default" <=> registry[v].kind = "None"
                  /\ idt[v] = "wrapper" <=> registry[v].kind = "Dynamic"
                  /\ registry[v].kind = "Static" => idt[v] = registry[v].list[1].fn

\* No interrupt waits in _runtime_int_entry for the code that it interrupted,
\* nor panics there on a vector that is not registered.
InterruptsReturn == ran.how = "returns"

\* Interrupts are off in a registration and on again after it if and only if
\* they were on before, nested registrations included.
FlagRestored == At("idle") => irqs = wanted

\* Whatever an interrupt runs, it runs in decreasing order of priority.
DecreasingPriority ==
    \A i \in DOMAIN ran.list, j \in DOMAIN ran.list :
        i < j => ran.list[i].priority >= ran.list[j].priority

HasRun(a) == \E i \in DOMAIN Runs(a.vector) : Runs(a.vector)[i].fn = a.fn

\* The dynamic handlers of a vector that has no other all run when it is
\* raised, however many there are and in whatever order they came.
DynamicHandlersRun ==
    At("idle") => \A a \in asked :
        (\A b \in asked : b.vector = a.vector => ~b.naked) => HasRun(a)

\* A handler that has been registered for a vector runs when the vector is
\* raised, whatever was or is registered for the vector besides it.
HandlersRun == At("idle") => \A a \in asked : HasRun(a)

=============================================================================
