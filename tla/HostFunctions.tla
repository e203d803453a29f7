------------------------------ MODULE HostFunctions ------------------------------
(***************************************************************************)
(* The configured hooks of the instruction loop: the idle and branch-to-   *)
(* self halt (athrill_idle_spin_halt.c) and the guest functions served by  *)
(* a host library (athrill_host_function.c), from their lookups in the     *)
(* device configuration to the calls at run time.                          *)
(*                                                                         *)
(* The target (the instruction it executes, its code cache, its ABI) and   *)
(* the host library are external: the guest may go to any instruction, and *)
(* a host function may make any accesses and report any outcome.           *)
(***************************************************************************)
EXTENDS DeviceConfig

CONSTANTS Targets,     \* what the target registers: [idle, spin, host, default]
          Funcs,       \* guest functions of the ELF symbols: text -> address
          HostSymbols, \* what the host library exports: texts
          Libraries,   \* libraries that can be opened: texts
          HostMax,     \* HOST_FUNCTION_MAX
          AddrMax,     \* ATHRILL_ADDR_MAX
          Ram, Rom,    \* memory a host function may write, or only read
          Pcs,         \* addresses of instructions
          MaxAccesses  \* bound: accesses of one host call

VARIABLES target, boot,                \* target_ops; the step of cpuemu_init
          idle_pc, spin_halt,
          host_functions,
          pc, result, is_halt, mem, code,   \* the core, memory, the target's code cache
          context,                     \* HostCallContext of the running call
          handled, bad, before         \* ghosts: the last handled call, the running one

hooks == <<target, boot, idle_pc, spin_halt, host_functions>>
coreVars == <<pc, result, is_halt, mem, code>>
ghosts == <<handled, bad, before>>
hostVars == <<configVars, hooks, coreVars, context, ghosts>>

NotCached == 2
Idle == [state |-> "none", failed |-> FALSE, result_set |-> FALSE, result |-> 0, accesses |-> 0]

HostInit ==
    /\ ConfigInit
    /\ target \in Targets /\ boot = "idle"
    /\ idle_pc = 0 /\ spin_halt = FALSE /\ host_functions = <<>>
    /\ pc \in Pcs /\ result = 0 /\ is_halt = FALSE
    /\ mem = [a \in Ram |-> 0] /\ code = [a \in Ram |-> NotCached]
    /\ context = Idle /\ handled = "none" /\ bad = FALSE /\ before = <<0, 0>>

LoadConfig == cpuemu_load_devcfg /\ UNCHANGED <<hooks, coreVars, context, ghosts>>

-----------------------------------------------------------------------------
(* cpuemu_init: athrill_idle_spin_halt_init, then                           *)
(* athrill_host_function_init.                                              *)

Even(a) == a - (a % 2)

\* The address read_idle_function finds; 0 for none.
read_idle_function ==
    LET k == cpuemu_get_devcfg_string("DEVICE_CONFIG_IDLE_FUNCTION")
        name == IF k # 0 THEN cpuemu_env_parse_devcfg_string(param[k].value.text)
                ELSE target.default
    IN IF \/ name \in {<<>>, <<"none">>}
          \/ cpuemu_get_devcfg_value("DEBUG_FUNC_ENABLE_SKIP_CLOCK", 0) # 1
          \/ ~target.idle
          \/ name \notin DOMAIN Funcs
       THEN 0 ELSE Even(Funcs[name])

\* The ARM name of the key is read when the other one is absent.
read_spin_halt ==
    LET enabled == cpuemu_get_devcfg_value("DEVICE_CONFIG_SPIN_HALT",
                      cpuemu_get_devcfg_value("DEVICE_CONFIG_ARM_SPIN_HALT", 0))
    IN enabled # 0 /\ target.idle /\ target.spin

athrill_idle_spin_halt_init ==
    /\ loaded = "ok" /\ boot = "idle"
    /\ idle_pc' = read_idle_function /\ spin_halt' = read_spin_halt
    /\ param' = Expanded(param, cpuemu_get_devcfg_string("DEVICE_CONFIG_IDLE_FUNCTION"), FALSE)
    /\ boot' = "library"
    /\ UNCHANGED <<file, at, loaded, answer, target, host_functions, coreVars, context, ghosts>>

\* athrill_host_function_init up to its loop.
HostLibrary ==
    /\ boot = "library"
    /\ LET k == cpuemu_get_devcfg_string("DEVICE_CONFIG_HOST_FUNCTION_LIBRARY")
           first == cpuemu_get_devcfg_string_pair_at(HostFunctionKey, 0)
       IN IF k = 0
          THEN /\ boot' = IF first = 0 THEN "ready" ELSE "exit"
               /\ param' = Expanded(param, first, TRUE)
          ELSE /\ param' = Expanded(param, k, FALSE)
               /\ boot' = IF target.host /\ param'[k].value.text \in Libraries THEN "mapping"
                          ELSE "exit"
    /\ UNCHANGED <<file, at, loaded, answer, target, idle_pc, spin_halt, host_functions,
                   coreVars, context, ghosts>>

\* A turn of its loop over the mappings, and what follows the loop.
HostMapping ==
    /\ boot = "mapping"
    /\ LET i == Len(host_functions)
           k == cpuemu_get_devcfg_string_pair_at(HostFunctionKey, i)
           new == Expanded(param, k, TRUE)
           guest == new[k].value.text
           host == new[k].second.text
           address == Even(Funcs[guest])
       IN IF k = 0 \/ i = HostMax
          THEN /\ boot' = IF i = 0 \/ k # 0 THEN "exit" ELSE "ready"
               /\ param' = IF k # 0 THEN new ELSE param
               /\ UNCHANGED host_functions
          ELSE /\ param' = new
               /\ IF \/ guest \notin DOMAIN Funcs
                     \/ \E j \in 1 .. i : host_functions[j].address = address
                     \/ host \notin HostSymbols
                  THEN boot' = "exit" /\ UNCHANGED host_functions
                  ELSE /\ host_functions' = Append(host_functions,
                                                   [address |-> address, function |-> host])
                       /\ UNCHANGED boot
    /\ UNCHANGED <<file, at, loaded, answer, target, idle_pc, spin_halt, coreVars, context, ghosts>>

-----------------------------------------------------------------------------
(* Run time: what the target calls around an instruction.                   *)

Ready == boot = "ready" /\ ~is_halt

athrill_host_function_find(a) ==
    LET all == {j \in DOMAIN host_functions : host_functions[j].address = Even(a)}
    IN IF all = {} THEN 0 ELSE Min(all)

\* athrill_idle_spin_halt_before_execute, when the target says a halt is safe.
IdleHalt ==
    /\ Ready /\ context.state = "none" /\ idle_pc # 0 /\ target.idle /\ pc = idle_pc
    /\ is_halt' = TRUE
    /\ UNCHANGED <<configVars, hooks, pc, result, mem, code, context, ghosts>>

\* An instruction of the guest, in a refused host call or where there is none: fetched
\* through the code cache, then athrill_idle_spin_halt_after_execute.
GuestInstruction(next, selfBranch) ==
    /\ Ready
    /\ \/ context.state = "refused"
       \/ context.state = "none" /\ athrill_host_function_find(pc) = 0
    /\ selfBranch => next = pc
    /\ pc' = next
    /\ code' = [a \in Ram |-> IF a = pc /\ code[a] = NotCached THEN mem[a] ELSE code[a]]
    /\ is_halt' = (spin_halt /\ next = pc /\ selfBranch)
    /\ context' = Idle
    /\ UNCHANGED <<configVars, hooks, result, mem, ghosts>>

Interrupt ==
    /\ is_halt /\ is_halt' = FALSE
    /\ UNCHANGED <<configVars, hooks, pc, result, mem, code, context, ghosts>>

-----------------------------------------------------------------------------
(* athrill_host_function_invoke: the call, what the host function does      *)
(* through AthrillHostCall, and its return.                                 *)

Invoke ==
    /\ Ready /\ context.state = "none" /\ athrill_host_function_find(pc) # 0
    /\ context' = [Idle EXCEPT !.state = "running"]
    /\ bad' = FALSE /\ before' = <<pc, result>>
    /\ UNCHANGED <<configVars, hooks, coreVars, handled>>

InCall == context.state = "running" /\ context.accesses < MaxAccesses
CallAccess(failed) ==
    [context EXCEPT !.failed = context.failed \/ failed, !.accesses = context.accesses + 1]

\* The target knows the argument or not.
host_call_arg(known) ==
    /\ InCall
    /\ context' = CallAccess(~known) /\ bad' = (bad \/ ~known)
    /\ UNCHANGED <<configVars, hooks, coreVars, handled, before>>

host_call_set_result(v) ==
    /\ InCall
    /\ context' = [CallAccess(FALSE) EXCEPT !.result_set = TRUE, !.result = v]
    /\ UNCHANGED <<configVars, hooks, coreVars, ghosts>>

\* checked_address
checked_address(a, size) == a <= AddrMax /\ (size # 0 => a + size - 1 <= AddrMax)

\* mpu_get_host_memory: all of the range in one memory region of the right type.
mpu_get_host_memory(a, size, write) ==
    LET cells == a .. a + size - 1
    IN size = 0 \/ cells \subseteq Ram \/ (~write /\ cells \subseteq Rom)

\* athrill_host_function_memory_read
host_call_read(a, size) ==
    /\ InCall
    /\ LET ok == checked_address(a, size) /\ mpu_get_host_memory(a, size, FALSE)
       IN context' = CallAccess(~ok) /\ bad' = (bad \/ ~ok)
    /\ UNCHANGED <<configVars, hooks, coreVars, handled, before>>

\* The write, and the code it overwrites dropped from the target's cache.
host_call_write(a, size, v) ==
    /\ InCall
    /\ LET ok == checked_address(a, size) /\ mpu_get_host_memory(a, size, TRUE)
           Written(c) == ok /\ c \in a .. a + size - 1
       IN /\ context' = CallAccess(~ok) /\ bad' = (bad \/ ~ok)
          /\ mem' = [c \in Ram |-> IF Written(c) THEN v ELSE mem[c]]
          /\ code' = [c \in Ram |-> IF Written(c) THEN NotCached ELSE code[c]]
    /\ UNCHANGED <<configVars, hooks, pc, result, is_halt, handled, before>>

\* Mutant: the result is set before the outcome is looked at.
HostReturns_Early(done, ret) ==
    /\ context.state = "running"
    /\ result' = IF context.result_set THEN context.result ELSE result
    /\ IF ~done \/ context.failed
       THEN context' = [Idle EXCEPT !.state = "refused"] /\ UNCHANGED <<pc, handled>>
       ELSE pc' = ret /\ context' = Idle /\ handled' = IF bad THEN "dirty" ELSE "clean"
    /\ UNCHANGED <<configVars, hooks, is_halt, mem, code, bad, before>>

\* The host function returns whether it handled the call; return_from_call goes back
\* to the caller.
HostReturns(done, ret) ==
    /\ context.state = "running"
    /\ IF ~done \/ context.failed
       THEN context' = [Idle EXCEPT !.state = "refused"] /\ UNCHANGED <<pc, result, handled>>
       ELSE /\ result' = IF context.result_set THEN context.result ELSE result
            /\ pc' = ret /\ context' = Idle /\ handled' = IF bad THEN "dirty" ELSE "clean"
    /\ UNCHANGED <<configVars, hooks, is_halt, mem, code, bad, before>>

Keys == {file[k][1].text[1] : k \in {j \in DOMAIN file : file[j] # <<>>}}

HostNext ==
    \/ LoadConfig \/ athrill_idle_spin_halt_init \/ HostLibrary \/ HostMapping
    \/ /\ boot \in {"idle", "library", "exit"}
       /\ \E get \in {"dec", "hex", "string", "pair"}, key \in Keys, nth \in 0 .. 1 :
             (get # "pair" => nth = 0) /\ Ask(get, key, nth)
       /\ UNCHANGED <<hooks, coreVars, context, ghosts>>
    \/ IdleHalt \/ Interrupt \/ Invoke
    \/ \E next \in Pcs, selfBranch \in BOOLEAN : GuestInstruction(next, selfBranch)
    \/ \E known \in BOOLEAN : host_call_arg(known)
    \/ host_call_set_result(1)
    \/ \E a \in 0 .. AddrMax + 1, size \in 0 .. 2 :
          host_call_read(a, size) \/ \E v \in 0 .. 1 : host_call_write(a, size, v)
    \/ \E done \in BOOLEAN, ret \in Pcs : HostReturns(done, ret)

HostSpec == HostInit /\ [][HostNext]_hostVars

-----------------------------------------------------------------------------
(* Properties.                                                              *)

\* A refused call falls back to the guest (docs/configuration.md): it leaves the
\* program counter and the result register as the call found them, and a call
\* counts as handled only if every argument and memory access of it succeeded.
HostCallsAllOrNothing ==
    /\ context.state = "refused" => <<pc, result>> = before
    /\ handled # "dirty"

\* The target never runs stale code: what its cache holds is what memory holds, also
\* after a host function has written over it (host_call_write).
CodeCoherent == \A a \in Ram : code[a] # NotCached => code[a] = mem[a]

\* A host call is all or nothing, for the core and for the code it runs.
HostCallsSound == HostCallsAllOrNothing /\ CodeCoherent
=============================================================================
