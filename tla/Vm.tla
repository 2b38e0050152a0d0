--------------------------------- MODULE Vm ---------------------------------
(***************************************************************************)
(* One program behind a pool, run by BpfExecutor (crates/executor/src/vm.rs)  *)
(* or NativeExecutor (native.rs, which has no context and no meter).  The       *)
(* program is not known: while it runs it may compute, call the syscalls and    *)
(* stop in any order, so what it reads from its input, its stack or its heap     *)
(* (neither is cleared between runs) needs no state.  The context of the        *)
(* syscalls is kept from one run to the next.                                   *)
(***************************************************************************)
EXTENDS Naturals

CONSTANTS
    Backends,        \* the builds to run, of "bpf" and "native"
    Values,          \* the u64s a program may return
    Contents,        \* the contents storage may have
    Zeroes,          \* storage filled with zeroes
    Budget,          \* instructions a run may take, 100_000 in the code
    Burst,           \* instructions the vm charges at once, at most
    MeterDisabled    \* PROP_AMM_BPF_DISABLE_METER is set

ASSUME VmAssumption ==
    /\ Backends \subseteq {"bpf", "native"}
    /\ Values \subseteq Nat /\ 0 \in Values
    /\ Zeroes \in Contents
    /\ Budget \in Nat \ {0} /\ Burst \in Nat \ {0}
    /\ MeterDisabled \in BOOLEAN

VARIABLES
    backend,    \* BpfAmm.backend: "bpf" or "native"
    pc,         \* the call in progress: "idle", "swap" or "after_swap"
    context,    \* SyscallContext
    storage,    \* BpfAmm.storage, lent to the call
    answer,     \* what BpfAmm::call returned last
    ok,         \* whether the last run ended without an error
    said,       \* ghost: the amount the program returned last in this run, if any
    kept        \* ghost: the storage the program asked to keep in this run, if any

vars == <<backend, pc, context, storage, answer, ok, said, kept>>

SyscallContext ==
    [return_data : Values, has_return_data : BOOLEAN,
     storage_data : Contents, has_storage_update : BOOLEAN, remaining : 0 .. Budget]

NewContext ==
    [return_data |-> 0, has_return_data |-> FALSE,
     storage_data |-> Zeroes, has_storage_update |-> FALSE, remaining |-> Budget]

(* Mutant: the flags of the previous run stay up. *)
ResetMeterOnly(c) == [c EXCEPT !.remaining = Budget]

(* reset: the flags go down, the data stays. *)
Reset(c) ==
    [c EXCEPT !.has_return_data = FALSE, !.has_storage_update = FALSE, !.remaining = Budget]

Metered == backend = "bpf" /\ ~MeterDisabled

(* Mutant: nobody counts. *)
ConsumeNothing(c, n) == c

(* Mutant: the subtraction does not saturate. *)
ConsumePlain(c, n) == IF Metered THEN [c EXCEPT !.remaining = @ - n] ELSE c

Consume(c, n) ==
    IF Metered THEN [c EXCEPT !.remaining = IF @ > n THEN @ - n ELSE 0] ELSE c

Init ==
    /\ backend \in Backends
    /\ pc = "idle" /\ context = NewContext /\ storage = Zeroes
    /\ answer = 0 /\ ok = TRUE /\ said = {} /\ kept = {}

-----------------------------------------------------------------------------
(* execute and execute_after_swap write the input buffer and start the program. *)
Begin(call) ==
    /\ pc = "idle"
    /\ pc' = call /\ context' = Reset(context)
    /\ said' = {} /\ kept' = {}
    /\ UNCHANGED <<backend, storage, answer, ok>>

(* The program can take a step while the meter lets it. *)
Running == pc # "idle" /\ context.remaining > 0

(* Computing, logging, and the memory syscalls. *)
Instruction(n) ==
    /\ Running
    /\ context' = Consume(context, n)
    /\ UNCHANGED <<backend, pc, storage, answer, ok, said, kept>>

(* Shorter data is filled up with zeroes, longer data is an error (Fail). *)
SetReturnData(v) ==
    /\ backend = "bpf" /\ Running
    /\ context' = [Consume(context, 1) EXCEPT !.return_data = v, !.has_return_data = TRUE]
    /\ said' = {v}
    /\ UNCHANGED <<backend, pc, storage, answer, ok, kept>>

(* set_storage of the SDK: a syscall, and in a native build nothing. *)
SetStorage(s) ==
    /\ Running
    /\ context' = IF backend = "native" THEN Consume(context, 1)
                  ELSE [Consume(context, 1) EXCEPT !.storage_data = s, !.has_storage_update = TRUE]
    /\ kept' = {s}
    /\ UNCHANGED <<backend, pc, storage, answer, ok, said>>

(* Mutant: the storage is lent to a swap as well. *)
WriteStorageAnytime(s) ==
    /\ backend = "native" /\ Running
    /\ context' = Consume(context, 1)
    /\ storage' = s
    /\ UNCHANGED <<backend, pc, answer, ok, said, kept>>

(* A native hook is lent the storage itself, a swap only a copy of it. *)
WriteStorage(s) ==
    /\ backend = "native" /\ Running /\ pc = "after_swap"
    /\ context' = Consume(context, 1)
    /\ storage' = s
    /\ UNCHANGED <<backend, pc, answer, ok, said, kept>>

(* The run ends with an error: a trap, a syscall's refusal, abort, or no instruction *)
(* left.  The amm takes it for the answer 0, and ignores it after a trade.          *)
Fail ==
    /\ backend = "bpf" /\ pc # "idle"
    /\ pc' = "idle" /\ ok' = FALSE
    /\ answer' = IF pc = "swap" THEN 0 ELSE answer
    /\ UNCHANGED <<backend, context, storage, said, kept>>

(* Mutant: the hook's update is not copied back. *)
ReturnForgetful ==
    /\ backend = "bpf" /\ Running
    /\ pc' = "idle"
    /\ ok' = (pc = "after_swap" \/ context.has_return_data)
    /\ answer' = IF pc # "swap" THEN answer
                 ELSE IF context.has_return_data THEN context.return_data ELSE 0
    /\ UNCHANGED <<backend, context, storage, said, kept>>

(* The run ends well; a swap that returned nothing is an error all the same. *)
Return ==
    /\ backend = "bpf" /\ Running
    /\ pc' = "idle"
    /\ ok' = (pc = "after_swap" \/ context.has_return_data)
    /\ answer' = IF pc # "swap" THEN answer
                 ELSE IF context.has_return_data THEN context.return_data ELSE 0
    /\ storage' = IF pc = "after_swap" /\ context.has_storage_update
                  THEN context.storage_data ELSE storage
    /\ UNCHANGED <<backend, context, said, kept>>

(* The native program is a function call. *)
NativeReturn(v) ==
    /\ backend = "native" /\ Running
    /\ pc' = "idle" /\ ok' = TRUE
    /\ answer' = (IF pc = "swap" THEN v ELSE answer)
    /\ said' = (IF pc = "swap" THEN {v} ELSE said)
    /\ UNCHANGED <<backend, context, storage, kept>>

Step ==
    \/ \E n \in 1 .. Burst : Instruction(n)
    \/ \E v \in Values : SetReturnData(v) \/ NativeReturn(v)
    \/ \E s \in Contents : SetStorage(s) \/ WriteStorage(s)
    \/ Fail \/ Return

Next == (\E call \in {"swap", "after_swap"} : Begin(call)) \/ Step

(* A program that was started goes on until it stops or is stopped. *)
Spec == Init /\ [][Next]_vars /\ WF_vars(Step)

-----------------------------------------------------------------------------
TypeOK ==
    /\ backend \in Backends
    /\ pc \in {"idle", "swap", "after_swap"}
    /\ context \in SyscallContext
    /\ storage \in Contents /\ answer \in Values /\ ok \in BOOLEAN
    /\ said \in SUBSET Values /\ kept \in SUBSET Contents

(* A pool pays what its program returned in the very run that was asked, if that run  *)
(* ended well, and otherwise nothing: neither the return data of an earlier run, which  *)
(* is still in the context, nor what a run returned before it failed, although the       *)
(* caller does not see the error.                                                       *)
AnswerIsThisRuns ==
    [][(pc = "swap" /\ pc' = "idle") =>
          (IF ok' THEN said' = {answer'} ELSE answer' = 0)]_vars

(* Asking for a price changes nothing: the storage is the hook's to write, in    *)
(* either build.                                                                 *)
QuoteLeavesNoTrace == [][(pc # "after_swap") => (storage' = storage)]_vars

(* A BPF program changes its storage only at the end of an after_swap run, to what *)
(* it asked to keep in that run: what it calls while quoting leaves no trace, and    *)
(* neither does a hook that fails half way.                                         *)
StorageOnlyFromHook ==
    [][(backend = "bpf" /\ storage' # storage) =>
          (pc = "after_swap" /\ pc' = "idle" /\ ok' /\ kept = {storage'})]_vars

(* README.md:118: what a hook asked to keep with set_storage is the storage of the  *)
(* next call.                                                                      *)
HookPersists ==
    [][(pc = "after_swap" /\ pc' = "idle" /\ ok' /\ kept # {}) => kept = {storage'}]_vars

(* In the BPF build an update that a hook asked for is never lost: it is the storage  *)
(* of the next call, whatever update earlier runs left in the context.                *)
BpfHookPersists ==
    [][(backend = "bpf" /\ pc = "after_swap" /\ pc' = "idle" /\ ok' /\ kept # {}) =>
          kept = {storage'}]_vars

(* The meter stops every BPF program: a pool that was asked is answered. *)
CallsReturn == (backend = "bpf" /\ pc # "idle") ~> pc = "idle"
=============================================================================
