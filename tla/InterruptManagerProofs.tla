----------------------- MODULE InterruptManagerProofs -----------------------
(***************************************************************************)
(* Proofs about InterruptManager, for any set of vectors and handlers and  *)
(* any number of registrations: an interrupt that can be taken finds the   *)
(* table and the registry in step, and every registration leaves the       *)
(* interrupt flag as it found it.                                          *)
(***************************************************************************)
EXTENDS InterruptManager, TLAPS

\* the gate of v leads where the registry says
InStep(v) ==
    /\ idt[v] = "default" <=> registry[v].kind = "None"
    /\ idt[v] = "wrapper" <=> registry[v].kind = "Dynamic"
    /\ registry[v].kind = "Static" => idt[v] = registry[v].list[1].fn

\* what is known of the flags at each step of a registration.  Interrupts are
\* still as the caller left them only before the cli of the outermost one
FlagsOK ==
    /\ ~At("idle") => call.vector \in Vectors /\ call.fn \in Handlers
    /\ locked <=> (At("dyn_insert") \/ At("static_insert"))
    /\ (At("idle") \/ At("static_cli") \/ (At("dyn_cli") /\ ~call.naked)) => irqs = wanted
    /\ ~(At("idle") \/ At("static_cli") \/ (At("dyn_cli") /\ ~call.naked)) => ~irqs
    /\ ~At("idle") => call.outer_off = ~wanted
    /\ (At("static_cli") \/ At("static_check")) => call.naked
    /\ (At("dyn_cli") \/ At("dyn_lock") \/ At("dyn_insert") \/ At("dyn_gate") \/ At("dyn_sti"))
          => call.off = (call.naked \/ ~wanted)

\* what is known of the tables: only between the change of the registry and
\* that of the gate are they out of step, and only for the vector registered
TablesOK ==
    /\ registry = [v \in Vectors |-> registry[v]]
    /\ At("static_gate") => /\ registry[call.vector].kind = "Static"
                            /\ registry[call.vector].list[1].fn = call.fn
    /\ At("dyn_gate") => registry[call.vector].kind = "Dynamic"
    /\ \A v \in Vectors :
          (v # call.vector \/ ~(At("dyn_gate") \/ At("static_gate"))) => InStep(v)

IInv == TypeOK /\ FlagsOK /\ TablesOK /\ InterruptsReturn

\* No registration in progress is a value of the variable for it.
LEMMA IdleCall == Idle \in Calls /\ Idle.pc = "idle"
  BY DEF Idle, Calls, Labels

\* A registration that goes on to its next step stays what it is.
LEMMA GoCall ==
    ASSUME NEW pc \in Labels, call \in Calls, Go(pc)
    PROVE  /\ call' \in Calls /\ call'.pc = pc /\ call'.vector = call.vector
           /\ call'.fn = call.fn /\ call'.naked = call.naked /\ call'.off = call.off
           /\ call'.outer_off = call.outer_off
  BY DEF Calls, Go

\* So does one that enters another registration, with a flag of its own.
LEMMA NestedCall ==
    ASSUME NEW c \in Calls, NEW pc \in Labels, NEW b \in BOOLEAN
    PROVE  [c EXCEPT !.pc = pc, !.off = b] \in Calls
  BY Zenon DEF Calls

\* The inductive invariant is true of the tables the manager starts with.
LEMMA InitIInv == Init => IInv
  <1> SUFFICES ASSUME Init PROVE IInv
    OBVIOUS
  <1>1. TypeOK /\ InterruptsReturn
    BY IdleCall DEF Init, TypeOK, InterruptsReturn, Vacant
  <1>2. \A v \in Vectors : InStep(v)
    BY DEF Init, InStep, Vacant
  <1>3. call.pc = "idle" /\ registry = [v \in Vectors |-> registry[v]]
    BY IdleCall DEF Init
  <1>4. FlagsOK
    BY <1>3 DEF Init, FlagsOK, At
  <1>5. TablesOK
    BY <1>2, <1>3 DEF TablesOK, At
  <1> QED
    BY <1>1, <1>4, <1>5 DEF IInv

\* The inductive invariant contains the properties.
LEMMA IInvSafe == IInv => DispatchSafe /\ FlagRestored
  <1> SUFFICES ASSUME IInv PROVE DispatchSafe /\ FlagRestored
    OBVIOUS
  <1>1. FlagRestored
    BY DEF IInv, FlagsOK, FlagRestored
  <1>2. irqs => ~locked /\ ~At("dyn_gate") /\ ~At("static_gate")
    BY DEF IInv, FlagsOK, At
  <1>3. irqs => \A v \in Vectors : InStep(v)
    BY <1>2 DEF IInv, TablesOK
  <1> QED
    BY <1>1, <1>2, <1>3 DEF DispatchSafe, InStep

\* Every step keeps the registration in progress one of the values it has.
LEMMA NextCalls == IInv /\ [Next]_vars => call' \in Calls
  <1> SUFFICES ASSUME IInv, [Next]_vars PROVE call' \in Calls
    OBVIOUS
  <1>0. call \in Calls /\ irqs \in BOOLEAN
    BY DEF IInv, TypeOK
  <1>1. ASSUME NEW v \in Vectors, NEW fn \in Handlers, NEW p \in Priorities,
               register_dynamic_handler(v, fn, p)
        PROVE  call' \in Calls
    BY <1>0, <1>1, InterruptAssumption DEF register_dynamic_handler, Calls, Labels
  <1>2. ASSUME NEW v \in Vectors, NEW fn \in Handlers, register_static_handler(v, fn)
        PROVE  call' \in Calls
    BY <1>0, <1>2, InterruptAssumption DEF register_static_handler, Calls, Labels
  <1>3. CASE \E pc \in Labels : Go(pc)
    BY <1>0, <1>3, GoCall
  <1>4. CASE call' = Idle
    BY <1>4, IdleCall
  <1>5. CASE call' = [call EXCEPT !.pc = "dyn_cli", !.off = ~irqs]
    <2>1. "dyn_cli" \in Labels
      BY DEF Labels
    <2>2. [call EXCEPT !.pc = "dyn_cli", !.off = TRUE] \in Calls
      BY <1>0, <2>1, NestedCall, Zenon
    <2>3. [call EXCEPT !.pc = "dyn_cli", !.off = FALSE] \in Calls
      BY <1>0, <2>1, NestedCall, Zenon
    <2>4. ~irqs = TRUE \/ ~irqs = FALSE
      BY <1>0
    <2> QED
      BY <1>5, <2>2, <2>3, <2>4, Zenon
  <1>6. CASE UNCHANGED call
    BY <1>0, <1>6
  <1>7. ASSUME dynamic_cli \/ dynamic_lock \/ dynamic_insert \/ dynamic_gate \/ static_cli
                   \/ static_lock \/ static_insert \/ static_gate
        PROVE  \E pc \in Labels : Go(pc)
    BY <1>7 DEF dynamic_cli, dynamic_lock, dynamic_insert, dynamic_gate, static_cli,
                static_lock, static_insert, static_gate, Labels
  <1>8. ASSUME dynamic_sti \/ static_check \/ static_sti
        PROVE  \/ \E pc \in Labels : Go(pc)
               \/ call' = Idle
               \/ call' = [call EXCEPT !.pc = "dyn_cli", !.off = ~irqs]
    BY <1>8 DEF dynamic_sti, static_check, static_sti, Done, Labels
  <1>9. ASSUME UNCHANGED vars \/ set_interrupts \/ \E v \in Vectors : interrupt(v)
        PROVE  UNCHANGED call
    BY <1>9 DEF vars, set_interrupts, interrupt
  <1> QED
    BY <1>1, <1>2, <1>3, <1>4, <1>5, <1>6, <1>7, <1>8, <1>9 DEF Next

\* Every step preserves what is known of the flags.
LEMMA NextFlags == IInv /\ [Next]_vars => FlagsOK'
  <1> SUFFICES ASSUME IInv, [Next]_vars PROVE FlagsOK'
    OBVIOUS
  <1>0. /\ call \in Calls /\ FlagsOK
        /\ locked \in BOOLEAN /\ irqs \in BOOLEAN /\ wanted \in BOOLEAN
        /\ call.naked \in BOOLEAN /\ call.off \in BOOLEAN /\ call.outer_off \in BOOLEAN
    BY DEF IInv, TypeOK, Calls
  <1> USE DEF FlagsOK, At
  <1>1. CASE set_interrupts
    BY <1>0, <1>1 DEF set_interrupts
  <1>2. ASSUME NEW v \in Vectors, NEW fn \in Handlers, NEW p \in Priorities,
               register_dynamic_handler(v, fn, p)
        PROVE  FlagsOK'
    BY <1>0, <1>2 DEF register_dynamic_handler
  <1>3. ASSUME NEW v \in Vectors, NEW fn \in Handlers, register_static_handler(v, fn)
        PROVE  FlagsOK'
    BY <1>0, <1>3 DEF register_static_handler
  <1>4. CASE dynamic_cli
    <2>1. Go("dyn_lock") /\ "dyn_lock" \in Labels
      BY <1>4 DEF dynamic_cli, Labels
    <2>2. /\ call'.pc = "dyn_lock" /\ call'.vector = call.vector
          /\ call'.fn = call.fn /\ call'.naked = call.naked /\ call'.off = call.off
          /\ call'.outer_off = call.outer_off
      BY <1>0, <2>1, GoCall
    <2> QED
      BY <1>0, <1>4, <2>2 DEF dynamic_cli
  <1>5. CASE dynamic_lock
    <2>1. Go("dyn_insert") /\ "dyn_insert" \in Labels
      BY <1>5 DEF dynamic_lock, Labels
    <2>2. /\ call'.pc = "dyn_insert" /\ call'.vector = call.vector
          /\ call'.fn = call.fn /\ call'.naked = call.naked /\ call'.off = call.off
          /\ call'.outer_off = call.outer_off
      BY <1>0, <2>1, GoCall
    <2> QED
      BY <1>0, <1>5, <2>2 DEF dynamic_lock
  <1>6. CASE dynamic_insert
    <2>1. Go("dyn_gate") /\ "dyn_gate" \in Labels
      BY <1>6 DEF dynamic_insert, Labels
    <2>2. /\ call'.pc = "dyn_gate" /\ call'.vector = call.vector
          /\ call'.fn = call.fn /\ call'.naked = call.naked /\ call'.off = call.off
          /\ call'.outer_off = call.outer_off
      BY <1>0, <2>1, GoCall
    <2> QED
      BY <1>0, <1>6, <2>2 DEF dynamic_insert
  <1>7. CASE dynamic_gate
    <2>1. Go("dyn_sti") /\ "dyn_sti" \in Labels
      BY <1>7 DEF dynamic_gate, Labels
    <2>2. /\ call'.pc = "dyn_sti" /\ call'.vector = call.vector
          /\ call'.fn = call.fn /\ call'.naked = call.naked /\ call'.off = call.off
          /\ call'.outer_off = call.outer_off
      BY <1>0, <2>1, GoCall
    <2> QED
      BY <1>0, <1>7, <2>2 DEF dynamic_gate
  <1>8. CASE static_cli
    <2>1. Go("static_check") /\ "static_check" \in Labels
      BY <1>8 DEF static_cli, Labels
    <2>2. /\ call'.pc = "static_check" /\ call'.vector = call.vector
          /\ call'.fn = call.fn /\ call'.naked = call.naked /\ call'.off = call.off
          /\ call'.outer_off = call.outer_off
      BY <1>0, <2>1, GoCall
    <2> QED
      BY <1>0, <1>8, <2>2 DEF static_cli
  <1>9. CASE static_lock
    <2>1. Go("static_insert") /\ "static_insert" \in Labels
      BY <1>9 DEF static_lock, Labels
    <2>2. /\ call'.pc = "static_insert" /\ call'.vector = call.vector
          /\ call'.fn = call.fn /\ call'.naked = call.naked /\ call'.off = call.off
          /\ call'.outer_off = call.outer_off
      BY <1>0, <2>1, GoCall
    <2> QED
      BY <1>0, <1>9, <2>2 DEF static_lock
  <1>10. CASE static_insert
    <2>1. Go("static_gate") /\ "static_gate" \in Labels
      BY <1>10 DEF static_insert, Labels
    <2>2. /\ call'.pc = "static_gate" /\ call'.vector = call.vector
          /\ call'.fn = call.fn /\ call'.naked = call.naked /\ call'.off = call.off
          /\ call'.outer_off = call.outer_off
      BY <1>0, <2>1, GoCall
    <2> QED
      BY <1>0, <1>10, <2>2 DEF static_insert
  <1>11. CASE static_gate
    <2>1. Go("static_sti") /\ "static_sti" \in Labels
      BY <1>11 DEF static_gate, Labels
    <2>2. /\ call'.pc = "static_sti" /\ call'.vector = call.vector
          /\ call'.fn = call.fn /\ call'.naked = call.naked /\ call'.off = call.off
          /\ call'.outer_off = call.outer_off
      BY <1>0, <2>1, GoCall
    <2> QED
      BY <1>0, <1>11, <2>2 DEF static_gate
  <1>12. CASE dynamic_sti
    <2>1. ~irqs /\ ~locked /\ ~locked' /\ wanted' = wanted /\ irqs' = ~call.off
      BY <1>0, <1>12 DEF dynamic_sti, Restore
    <2>2. CASE call.naked
      <3>1. Go("static_lock") /\ "static_lock" \in Labels
        BY <1>12, <2>2 DEF dynamic_sti, Labels
      <3>2. /\ call'.pc = "static_lock" /\ call'.vector = call.vector
            /\ call'.fn = call.fn /\ call'.outer_off = call.outer_off
        BY <1>0, <3>1, GoCall
      <3> QED
        BY <1>0, <1>12, <2>1, <2>2, <3>2 DEF dynamic_sti
    <2>3. CASE ~call.naked
      <3>1. call'.pc = "idle"
        BY <1>12, <2>3, IdleCall DEF dynamic_sti, Done
      <3>2. irqs' = wanted'
        BY <1>0, <1>12, <2>1, <2>3 DEF dynamic_sti
      <3> QED
        BY <2>1, <3>1, <3>2
    <2> QED
      BY <2>2, <2>3
  <1>13. CASE static_check
    <2>1. /\ ~irqs' /\ ~locked' /\ wanted' = wanted /\ call.naked /\ ~irqs
          /\ call.vector \in Vectors /\ call.fn \in Handlers /\ call.outer_off = ~wanted
      BY <1>0, <1>13 DEF static_check
    <2>2. CASE Go("static_lock")
      <3>1. "static_lock" \in Labels
        BY DEF Labels
      <3>2. /\ call'.pc = "static_lock" /\ call'.vector = call.vector
            /\ call'.fn = call.fn /\ call'.outer_off = call.outer_off
        BY <1>0, <2>2, <3>1, GoCall
      <3> QED
        BY <2>1, <3>2
    <2>3. CASE call' = [call EXCEPT !.pc = "dyn_cli", !.off = ~irqs]
      <3>1. /\ call'.pc = "dyn_cli" /\ call'.vector = call.vector /\ call'.fn = call.fn
            /\ call'.naked = call.naked /\ call'.outer_off = call.outer_off
            /\ call'.off = ~irqs
        BY <1>0, <2>3 DEF Calls
      <3> QED
        BY <2>1, <3>1
    <2> QED
      BY <1>13, <2>2, <2>3 DEF static_check
  <1>14. CASE static_sti
    <2>1. call'.pc = "idle" /\ ~locked'
      BY <1>0, <1>14, IdleCall DEF static_sti, Done
    <2>2. irqs' = wanted'
      BY <1>0, <1>14 DEF static_sti, Restore
    <2> QED
      BY <2>1, <2>2
  <1>15. ASSUME UNCHANGED vars \/ \E v \in Vectors : interrupt(v)
         PROVE  FlagsOK'
    <2>1. UNCHANGED <<call, locked, irqs, wanted>>
      BY <1>15 DEF vars, interrupt
    <2> QED
      BY <1>0, <2>1
  <1> QED
    BY <1>1, <1>2, <1>3, <1>4, <1>5, <1>6, <1>7, <1>8, <1>9, <1>10, <1>11, <1>12, <1>13,
       <1>14, <1>15 DEF Next

\* Every step preserves what is known of the tables.
LEMMA NextTables == IInv /\ [Next]_vars => TablesOK'
  <1> SUFFICES ASSUME IInv, [Next]_vars PROVE TablesOK'
    OBVIOUS
  <1>0. /\ call \in Calls /\ TablesOK /\ registry = [v \in Vectors |-> registry[v]]
        /\ idt \in [Vectors -> Handlers \cup {"default", "wrapper"}]
        /\ ~At("idle") => call.vector \in Vectors /\ call.fn \in Handlers
    BY DEF IInv, TypeOK, TablesOK, FlagsOK
  <1>1. ASSUME ~At("dyn_gate"), ~At("static_gate"), call'.pc \notin {"dyn_gate", "static_gate"},
               UNCHANGED <<registry, idt>>
        PROVE  TablesOK'
    <2>1. \A v \in Vectors : InStep(v)
      BY <1>0, <1>1 DEF TablesOK
    <2>2. \A v \in Vectors : InStep(v)'
      BY <1>1, <2>1 DEF InStep
    <2> QED
      BY <1>0, <1>1, <2>2 DEF TablesOK, At
  <1>2. CASE dynamic_insert
    <2>1. Go("dyn_gate") /\ "dyn_gate" \in Labels /\ At("dyn_insert") /\ call.vector \in Vectors
      BY <1>0, <1>2 DEF dynamic_insert, Labels, At
    <2>2. call'.pc = "dyn_gate" /\ call'.vector = call.vector
      BY <1>0, <2>1, GoCall
    <2>3. /\ registry' = [v \in Vectors |-> registry'[v]]
          /\ registry'[call.vector].kind = "Dynamic"
          /\ \A v \in Vectors : v # call.vector => registry'[v] = registry[v]
      BY <1>0, <1>2, <2>1 DEF dynamic_insert
    <2>4. \A v \in Vectors : InStep(v)
      BY <1>0, <2>1 DEF TablesOK, At
    <2>5. idt' = idt
      BY <1>2 DEF dynamic_insert
    <2>6. \A v \in Vectors : v # call.vector => InStep(v)'
      BY <2>3, <2>4, <2>5 DEF InStep
    <2> QED
      BY <2>2, <2>3, <2>6 DEF TablesOK, At
  <1>3. CASE static_insert
    <2>1. /\ Go("static_gate") /\ "static_gate" \in Labels /\ At("static_insert")
          /\ call.vector \in Vectors
      BY <1>0, <1>3 DEF static_insert, Labels, At
    <2>2. call'.pc = "static_gate" /\ call'.vector = call.vector /\ call'.fn = call.fn
      BY <1>0, <2>1, GoCall
    <2>3. /\ registry' = [v \in Vectors |-> registry'[v]]
          /\ registry'[call.vector] = Static(call.fn)
          /\ \A v \in Vectors : v # call.vector => registry'[v] = registry[v]
      BY <1>0, <1>3, <2>1 DEF static_insert
    <2>4. Static(call.fn).kind = "Static" /\ Static(call.fn).list[1].fn = call.fn
      BY DEF Static, Entry
    <2>5. \A v \in Vectors : InStep(v)
      BY <1>0, <2>1 DEF TablesOK, At
    <2>6. idt' = idt
      BY <1>3 DEF static_insert
    <2>7. \A v \in Vectors : v # call.vector => InStep(v)'
      BY <2>3, <2>5, <2>6 DEF InStep
    <2> QED
      BY <2>2, <2>3, <2>4, <2>7 DEF TablesOK, At
  <1>4. CASE dynamic_gate
    <2>1. Go("dyn_sti") /\ "dyn_sti" \in Labels /\ At("dyn_gate") /\ call.vector \in Vectors
      BY <1>0, <1>4 DEF dynamic_gate, Labels, At
    <2>2. call'.pc = "dyn_sti"
      BY <1>0, <2>1, GoCall
    <2>3. /\ registry' = registry /\ registry[call.vector].kind = "Dynamic"
          /\ idt'[call.vector] = "wrapper"
          /\ \A v \in Vectors : v # call.vector => idt'[v] = idt[v] /\ InStep(v)
      BY <1>0, <1>4, <2>1 DEF dynamic_gate, Gate, TablesOK
    <2>4. \A v \in Vectors : InStep(v)'
      BY <2>3 DEF InStep
    <2> QED
      BY <1>0, <2>2, <2>3, <2>4 DEF TablesOK, At
  <1>5. CASE static_gate
    <2>1. /\ Go("static_sti") /\ "static_sti" \in Labels /\ At("static_gate")
          /\ call.vector \in Vectors /\ call.fn \in Handlers
      BY <1>0, <1>5 DEF static_gate, Labels, At
    <2>2. call'.pc = "static_sti"
      BY <1>0, <2>1, GoCall
    <2>3. /\ registry' = registry /\ registry[call.vector].kind = "Static"
          /\ registry[call.vector].list[1].fn = call.fn /\ idt'[call.vector] = call.fn
          /\ \A v \in Vectors : v # call.vector => idt'[v] = idt[v] /\ InStep(v)
      BY <1>0, <1>5, <2>1 DEF static_gate, Gate, TablesOK
    <2>4. call.fn # "default" /\ call.fn # "wrapper"
      BY <2>1, InterruptAssumption
    <2>5. \A v \in Vectors : InStep(v)'
      BY <2>3, <2>4 DEF InStep
    <2> QED
      BY <1>0, <2>2, <2>3, <2>5 DEF TablesOK, At
  <1>6. ASSUME \/ \E v \in Vectors, fn \in Handlers, p \in Priorities :
                     register_dynamic_handler(v, fn, p)
               \/ \E v \in Vectors, fn \in Handlers : register_static_handler(v, fn)
        PROVE  TablesOK'
    <2>1. ~At("dyn_gate") /\ ~At("static_gate") /\ UNCHANGED <<registry, idt>>
      BY <1>6 DEF register_dynamic_handler, register_static_handler, At
    <2>2. call'.pc \in {"dyn_cli", "static_cli"}
      BY <1>6 DEF register_dynamic_handler, register_static_handler
    <2> QED
      BY <1>1, <2>1, <2>2
  <1>7. ASSUME dynamic_cli \/ dynamic_lock \/ static_cli \/ static_lock
        PROVE  TablesOK'
    <2>1. ~At("dyn_gate") /\ ~At("static_gate") /\ UNCHANGED <<registry, idt>>
      BY <1>7 DEF dynamic_cli, dynamic_lock, static_cli, static_lock, At
    <2>2. \E pc \in Labels \ {"dyn_gate", "static_gate"} : Go(pc)
      BY <1>7 DEF dynamic_cli, dynamic_lock, static_cli, static_lock, Labels
    <2>3. call'.pc \notin {"dyn_gate", "static_gate"}
      BY <1>0, <2>2, GoCall
    <2> QED
      BY <1>1, <2>1, <2>3
  <1>8. ASSUME dynamic_sti \/ static_check \/ static_sti
        PROVE  TablesOK'
    <2>1. ~At("dyn_gate") /\ ~At("static_gate") /\ UNCHANGED <<registry, idt>>
      BY <1>8 DEF dynamic_sti, static_check, static_sti, At
    <2>2. \/ Go("static_lock") /\ "static_lock" \in Labels
          \/ call' = Idle
          \/ call' = [call EXCEPT !.pc = "dyn_cli", !.off = ~irqs]
      BY <1>8 DEF dynamic_sti, static_check, static_sti, Done, Labels
    <2>3. CASE call' = [call EXCEPT !.pc = "dyn_cli", !.off = ~irqs]
      <3>1. call'.pc = "dyn_cli"
        BY <1>0, <2>3 DEF Calls
      <3> QED
        BY <1>1, <2>1, <3>1
    <2>4. CASE call' = Idle
      BY <1>1, <2>1, <2>4, IdleCall
    <2>5. CASE Go("static_lock") /\ "static_lock" \in Labels
      <3>1. call'.pc = "static_lock"
        BY <1>0, <2>5, GoCall
      <3> QED
        BY <1>1, <2>1, <3>1
    <2> QED
      BY <2>2, <2>3, <2>4, <2>5
  <1>9. ASSUME UNCHANGED vars \/ set_interrupts \/ \E v \in Vectors : interrupt(v)
        PROVE  TablesOK'
    <2>1. UNCHANGED <<registry, idt, call>>
      BY <1>9 DEF vars, set_interrupts, interrupt
    <2> QED
      BY <1>0, <2>1 DEF TablesOK, InStep, At
  <1> QED
    BY <1>2, <1>3, <1>4, <1>5, <1>6, <1>7, <1>8, <1>9 DEF Next

\* Every step keeps the types of the tables and the flags, and every interrupt
\* taken returns.
LEMMA NextType == IInv /\ [Next]_vars => TypeOK' /\ InterruptsReturn'
  <1> SUFFICES ASSUME IInv, [Next]_vars PROVE TypeOK' /\ InterruptsReturn'
    OBVIOUS
  <1>1. call' \in Calls
    BY NextCalls
  <1>2. \A v \in Vectors : registry'[v].kind \in {"None", "Static", "Dynamic"}
    <2>0. /\ \A v \in Vectors : registry[v].kind \in {"None", "Static", "Dynamic"}
          /\ registry = [v \in Vectors |-> registry[v]]
      BY DEF IInv, TypeOK, TablesOK
    <2>1. CASE dynamic_insert
      BY <2>0, <2>1 DEF dynamic_insert
    <2>2. CASE static_insert
      <3>1. Static(call.fn).kind = "Static"
        BY DEF Static
      <3> QED
        BY <2>0, <2>2, <3>1 DEF static_insert
    <2>3. CASE registry' = registry
      BY <2>0, <2>3
    <2>4. dynamic_insert \/ static_insert \/ registry' = registry
      BY DEF Next, vars, set_interrupts, register_dynamic_handler, dynamic_cli, dynamic_lock,
             dynamic_gate, dynamic_sti, register_static_handler, static_cli, static_check,
             static_lock, static_gate, static_sti, interrupt
    <2> QED
      BY <2>1, <2>2, <2>3, <2>4
  <1>3. idt' \in [Vectors -> Handlers \cup {"default", "wrapper"}]
    <2>0. idt \in [Vectors -> Handlers \cup {"default", "wrapper"}]
      BY DEF IInv, TypeOK
    <2>1. CASE dynamic_gate
      BY <2>0, <2>1 DEF dynamic_gate, Gate
    <2>2. CASE static_gate
      <3>1. call.fn \in Handlers
        BY <2>2 DEF IInv, FlagsOK, static_gate, At
      <3> QED
        BY <2>0, <2>2, <3>1 DEF static_gate, Gate
    <2>3. CASE idt' = idt
      BY <2>0, <2>3
    <2>4. dynamic_gate \/ static_gate \/ idt' = idt
      BY DEF Next, vars, set_interrupts, register_dynamic_handler, dynamic_cli, dynamic_lock,
             dynamic_insert, dynamic_sti, register_static_handler, static_cli, static_check,
             static_lock, static_insert, static_sti, interrupt
    <2> QED
      BY <2>1, <2>2, <2>3, <2>4
  <1>4. locked' \in BOOLEAN /\ irqs' \in BOOLEAN /\ wanted' \in BOOLEAN
    <2>0. locked \in BOOLEAN /\ irqs \in BOOLEAN /\ wanted \in BOOLEAN
      BY DEF IInv, TypeOK
    <2> QED
      BY <2>0 DEF Next, vars, set_interrupts, register_dynamic_handler, dynamic_cli,
             dynamic_lock, dynamic_insert, dynamic_gate, dynamic_sti, register_static_handler,
             static_cli, static_check, static_lock, static_insert, static_gate, static_sti,
             interrupt, Restore
  <1>5. ran'.how = "returns"
    <2>1. ASSUME NEW v \in Vectors, interrupt(v)
          PROVE  ran'.how = "returns"
      <3>1. irqs
        BY <2>1 DEF interrupt
      <3>2. ~locked /\ (idt[v] = "wrapper" => registry[v].kind = "Dynamic")
        BY <3>1, IInvSafe DEF DispatchSafe
      <3> QED
        BY <2>1, <3>2 DEF interrupt
    <2>2. CASE ran' = ran
      BY <2>2 DEF IInv, InterruptsReturn
    <2>3. (\E v \in Vectors : interrupt(v)) \/ ran' = ran
      BY DEF Next, vars, set_interrupts, register_dynamic_handler, dynamic_cli, dynamic_lock,
             dynamic_insert, dynamic_gate, dynamic_sti, register_static_handler, static_cli,
             static_check, static_lock, static_insert, static_gate, static_sti
    <2> QED
      BY <2>1, <2>2, <2>3
  <1> QED
    BY <1>1, <1>2, <1>3, <1>4, <1>5 DEF TypeOK, InterruptsReturn

\* Every step of a registration, and every interrupt, preserves the invariant.
LEMMA NextIInv == IInv /\ [Next]_vars => IInv'
  BY NextType, NextFlags, NextTables DEF IInv

\* The inductive invariant holds in every behaviour.
LEMMA Invariance == Spec => []IInv
  BY InitIInv, NextIInv, PTL DEF Spec

\* The registry, the table and the registration in progress keep their types.
THEOREM TypeCorrect == Spec => []TypeOK
  <1>1. IInv => TypeOK
    BY DEF IInv
  <1> QED
    BY <1>1, Invariance, PTL

\* Whatever the registrations and whenever an interrupt comes, it finds the
\* gates and the handler registry in step and the registry free.
THEOREM SafeDispatch == Spec => []DispatchSafe
  BY Invariance, IInvSafe, PTL

\* _runtime_int_entry neither waits for the code it interrupts nor panics.
THEOREM NoInterruptStuck == Spec => []InterruptsReturn
  <1>1. IInv => InterruptsReturn
    BY DEF IInv
  <1> QED
    BY <1>1, Invariance, PTL

\* Both kinds of registration, nested or not, restore the interrupt flag.
THEOREM RestoresFlag == Spec => []FlagRestored
  BY Invariance, IInvSafe, PTL
=============================================================================
