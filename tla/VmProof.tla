------------------------------- MODULE VmProof -------------------------------
(***************************************************************************)
(* The executor keeps one run's answers apart from another's, for every      *)
(* budget, every set of values and every program.                            *)
(***************************************************************************)
EXTENDS Vm, TLAPS

(* While a BPF program runs, the context's flags and data say what this run    *)
(* said, and nothing else: the ghosts are what the flags stand for.            *)
ContextIsThisRuns ==
    pc # "idle" =>
        /\ IF context.has_return_data THEN said = {context.return_data} ELSE said = {}
        /\ context.has_storage_update => kept = {context.storage_data}
        /\ backend = "bpf" => (kept # {} => context.has_storage_update)

NativeIsSilent == backend = "native" => (~context.has_return_data /\ ~context.has_storage_update)

IInv == TypeOK /\ ContextIsThisRuns /\ NativeIsSilent

(* Charging the meter leaves the rest of the context alone. *)
LEMMA ConsumeKeeps ==
    ASSUME NEW c \in SyscallContext, NEW n \in Nat
    PROVE  /\ Consume(c, n) \in SyscallContext
           /\ Consume(c, n).return_data = c.return_data
           /\ Consume(c, n).has_return_data = c.has_return_data
           /\ Consume(c, n).storage_data = c.storage_data
           /\ Consume(c, n).has_storage_update = c.has_storage_update
<1>1. Budget \in Nat
    BY VmAssumption
<1> QED
    BY <1>1, VmAssumption DEF Consume, SyscallContext, Metered

(* The context before the first run satisfies the invariant. *)
LEMMA StartsClean == Init => IInv
<1>1. Budget \in 0 .. Budget /\ 0 \in Values /\ Zeroes \in Contents
    BY VmAssumption
<1>2. /\ NewContext \in SyscallContext
      /\ ~NewContext.has_return_data /\ ~NewContext.has_storage_update
    BY <1>1 DEF NewContext, SyscallContext
<1> QED
    BY <1>1, <1>2 DEF Init, IInv, TypeOK, ContextIsThisRuns, NativeIsSilent

(* Every step of a run, and the start of a new one, keeps the context and the  *)
(* ghosts together: at the start because reset lowers the flags.                *)
LEMMA StepKeeps == IInv /\ [Next]_vars => IInv'
<1> SUFFICES ASSUME IInv, [Next]_vars PROVE IInv'
    OBVIOUS
<1> USE VmAssumption
<1>0. /\ TypeOK /\ ContextIsThisRuns /\ NativeIsSilent /\ context \in SyscallContext
      /\ Budget \in Nat /\ 1 \in Nat
    BY DEF IInv, TypeOK
<1>1. ASSUME NEW call \in {"swap", "after_swap"}, Begin(call) PROVE IInv'
    <2>1. Budget \in 0 .. Budget
        OBVIOUS
    <2>2. /\ Reset(context) \in SyscallContext
          /\ ~Reset(context).has_return_data /\ ~Reset(context).has_storage_update
        BY <1>0, <2>1 DEF Reset, SyscallContext
    <2>3. context' = Reset(context) /\ pc' \in {"swap", "after_swap"}
        BY <1>1 DEF Begin
    <2> QED
        BY <1>0, <1>1, <2>2, <2>3 DEF Begin, IInv, TypeOK, ContextIsThisRuns, NativeIsSilent
<1>2. ASSUME NEW n \in 1 .. Burst, Instruction(n) PROVE IInv'
    <2> DEFINE c == Consume(context, n)
    <2>1. /\ c \in SyscallContext
          /\ c.return_data = context.return_data
          /\ c.has_return_data = context.has_return_data
          /\ c.storage_data = context.storage_data
          /\ c.has_storage_update = context.has_storage_update
        BY <1>0, ConsumeKeeps
    <2>2. context' = c
        BY <1>2 DEF Instruction
    <2> HIDE DEF c
    <2> QED
        BY <1>0, <1>2, <2>1, <2>2
           DEF Instruction, IInv, TypeOK, ContextIsThisRuns, NativeIsSilent
<1>3. ASSUME NEW v \in Values, SetReturnData(v) PROVE IInv'
    <2> DEFINE c == Consume(context, 1)
    <2>1. /\ c \in SyscallContext /\ c.has_storage_update = context.has_storage_update
          /\ c.storage_data = context.storage_data
        BY <1>0, ConsumeKeeps
    <2>2. context' = [c EXCEPT !.return_data = v, !.has_return_data = TRUE]
        BY <1>3 DEF SetReturnData
    <2>3. /\ context' \in SyscallContext
          /\ context'.return_data = v /\ context'.has_return_data
          /\ context'.storage_data = context.storage_data
          /\ context'.has_storage_update = context.has_storage_update
        <3> HIDE DEF c
        <3> QED BY <2>1, <2>2 DEF SyscallContext
    <2> HIDE DEF c
    <2> QED
        BY <1>0, <1>3, <2>3
           DEF SetReturnData, IInv, TypeOK, ContextIsThisRuns, NativeIsSilent
<1>4. ASSUME NEW v \in Values, NativeReturn(v) PROVE IInv'
    BY <1>0, <1>4 DEF NativeReturn, IInv, TypeOK, ContextIsThisRuns, NativeIsSilent
<1>5. ASSUME NEW s \in Contents, SetStorage(s) PROVE IInv'
    <2> DEFINE c == Consume(context, 1)
    <2>1. /\ c \in SyscallContext /\ c.has_return_data = context.has_return_data
          /\ c.return_data = context.return_data
          /\ c.has_storage_update = context.has_storage_update
        BY <1>0, ConsumeKeeps
    <2>2. CASE backend = "native"
        <3>1. context' = c
            BY <1>5, <2>2 DEF SetStorage
        <3> HIDE DEF c
        <3> QED
            BY <1>0, <1>5, <2>1, <2>2, <3>1
               DEF SetStorage, IInv, TypeOK, ContextIsThisRuns, NativeIsSilent
    <2>3. CASE backend = "bpf"
        <3>1. context' = [c EXCEPT !.storage_data = s, !.has_storage_update = TRUE]
            BY <1>5, <2>3 DEF SetStorage
        <3> HIDE DEF c
        <3>2. /\ context' \in SyscallContext
              /\ context'.return_data = context.return_data
              /\ context'.has_return_data = context.has_return_data
              /\ context'.storage_data = s /\ context'.has_storage_update
            BY <2>1, <3>1 DEF SyscallContext
        <3> QED
            BY <1>0, <1>5, <2>3, <3>2
               DEF SetStorage, IInv, TypeOK, ContextIsThisRuns, NativeIsSilent
    <2> QED
        BY <1>0, <2>2, <2>3 DEF TypeOK
<1>6. ASSUME NEW s \in Contents, WriteStorage(s) PROVE IInv'
    BY <1>0, <1>6, ConsumeKeeps
       DEF WriteStorage, IInv, TypeOK, ContextIsThisRuns, NativeIsSilent
<1>7. ASSUME Fail PROVE IInv'
    BY <1>0, <1>7 DEF Fail, IInv, TypeOK, ContextIsThisRuns, NativeIsSilent
<1>8. ASSUME Return PROVE IInv'
    <2>1. context.return_data \in Values /\ context.storage_data \in Contents
        BY <1>0 DEF SyscallContext
    <2> QED
        BY <1>0, <1>8, <2>1
           DEF Return, IInv, TypeOK, ContextIsThisRuns, NativeIsSilent, SyscallContext
<1>9. ASSUME UNCHANGED vars PROVE IInv'
    BY <1>0, <1>9 DEF vars, IInv, TypeOK, ContextIsThisRuns, NativeIsSilent
<1> QED
    BY <1>1, <1>2, <1>3, <1>4, <1>5, <1>6, <1>7, <1>8, <1>9 DEF Next, Step

(* The invariant holds of every run of every program. *)
LEMMA AlwaysIInv == Spec => []IInv
BY StartsClean, StepKeeps, PTL DEF Spec

(* The context keeps its shape whatever a program does: the meter never falls below *)
(* zero, and return data and storage are values the program could have meant.        *)
THEOREM VmTyped == Spec => []TypeOK
<1>1. IInv => TypeOK BY DEF IInv
<1> QED BY <1>1, AlwaysIInv, PTL

(* The amount a pool pays was returned by its program in the run that was asked and that *)
(* ended well: the return data of earlier runs is never erased, and a run that failed may    *)
(* have returned something before.                                                         *)
THEOREM AnswersAreFresh == Spec => AnswerIsThisRuns
<1>1. ASSUME IInv, [Next]_vars
      PROVE  [(pc = "swap" /\ pc' = "idle") => (IF ok' THEN said' = {answer'} ELSE answer' = 0)]_vars
    BY <1>1
       DEF IInv, ContextIsThisRuns, Next, Step, vars, Begin, Instruction, SetReturnData,
           NativeReturn, SetStorage, WriteStorage, Fail, Return
<1>2. IInv /\ [Next]_vars
         => [(pc = "swap" /\ pc' = "idle") => (IF ok' THEN said' = {answer'} ELSE answer' = 0)]_vars
    BY <1>1
<1> QED
    BY <1>2, AlwaysIInv, PTL DEF Spec, AnswerIsThisRuns

(* What a hook asked to keep is kept, and nothing else ever changes a BPF program's *)
(* storage: not a quote that calls set_storage, not a hook that fails after it did.   *)
THEOREM StorageIsTheHooks == Spec => StorageOnlyFromHook
<1>1. ASSUME IInv, [Next]_vars
      PROVE  [(backend = "bpf" /\ storage' # storage) =>
                 (pc = "after_swap" /\ pc' = "idle" /\ ok' /\ kept = {storage'})]_vars
    BY <1>1
       DEF IInv, ContextIsThisRuns, Next, Step, vars, Begin, Instruction, SetReturnData,
           NativeReturn, SetStorage, WriteStorage, Fail, Return
<1>2. IInv /\ [Next]_vars
         => [(backend = "bpf" /\ storage' # storage) =>
                 (pc = "after_swap" /\ pc' = "idle" /\ ok' /\ kept = {storage'})]_vars
    BY <1>1
<1> QED
    BY <1>2, AlwaysIInv, PTL DEF Spec, StorageOnlyFromHook

(* A storage update that a BPF hook asked for is never lost. *)
THEOREM HookUpdatesLast == Spec => BpfHookPersists
<1>1. ASSUME IInv, [Next]_vars
      PROVE  [(backend = "bpf" /\ pc = "after_swap" /\ pc' = "idle" /\ ok' /\ kept # {}) =>
                 kept = {storage'}]_vars
    BY <1>1
       DEF IInv, ContextIsThisRuns, Next, Step, vars, Begin, Instruction, SetReturnData,
           NativeReturn, SetStorage, WriteStorage, Fail, Return
<1>2. IInv /\ [Next]_vars
         => [(backend = "bpf" /\ pc = "after_swap" /\ pc' = "idle" /\ ok' /\ kept # {}) =>
                 kept = {storage'}]_vars
    BY <1>1
<1> QED
    BY <1>2, AlwaysIInv, PTL DEF Spec, BpfHookPersists

(* In either build, asking for a price leaves the storage alone. *)
THEOREM QuotesAreReadOnly == Spec => QuoteLeavesNoTrace
<1>1. [Next]_vars => [(pc # "after_swap") => (storage' = storage)]_vars
    BY DEF Next, Step, vars, Begin, Instruction, SetReturnData, NativeReturn, SetStorage,
           WriteStorage, Fail, Return
<1> QED
    BY <1>1, PTL DEF Spec, QuoteLeavesNoTrace
=============================================================================
