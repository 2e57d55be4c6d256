----------------------------- MODULE WrapperCode -----------------------------
(* The part of an x64 processor that runs the wrappers of Wrappers.tla: what  *)
(* a game thread does between the patched site and the engine's own code.     *)
(* Stack slots are 8 bytes; depth counts those below the stack pointer the    *)
(* thread came with.                                                          *)
EXTENDS Wrappers, SequencesExt

CONSTANT ReserveSize   \* bytes of a wrapper: reserve(0x40)

VARIABLES hook, ip, depth, reg, stack

vars == <<hook, ip, depth, reg, stack>>

-----------------------------------------------------------------------------
(* The processor.  A called hook may change every volatile register and the   *)
(* four slots above its return address, its caller's to provide.              *)

Volatile  == {"rax", "rcx", "rdx", "r8", "r9"}
Registers == Volatile \cup {"rbx", "rsi", "r14", "r15"}
Frame     == -8 .. 16   \* slots looked at, by depth: those up to 0 existed before

Init ==
  /\ hook \in Wrappers /\ ip = 1 /\ depth = 0
  /\ reg = [r \in Registers |-> r]              \* every register holds its own value
  /\ stack = [d \in Frame |-> "frame"]

Instruction == Code(hook)[ip]

Step(op) ==
  /\ ip <= Len(Code(hook)) /\ Instruction.op = op
  /\ UNCHANGED hook

PushStep ==
  /\ Step("push")
  /\ depth' = depth + 1
  /\ stack' = [stack EXCEPT ![depth + 1] = reg[Instruction.to]]
  /\ ip' = ip + 1 /\ UNCHANGED reg

PopStep ==
  /\ Step("pop")
  /\ reg' = [reg EXCEPT ![Instruction.to] = stack[depth]]
  /\ depth' = depth - 1
  /\ ip' = ip + 1 /\ UNCHANGED stack

AdjustStep ==
  /\ \/ Step("sub") /\ depth' = depth + Instruction.from
     \/ Step("add") /\ depth' = depth - Instruction.from
  /\ ip' = ip + 1 /\ UNCHANGED <<reg, stack>>

Source == IF Instruction.from \in Registers THEN reg[Instruction.from] ELSE Instruction.from

AssignStep ==
  /\ \/ Step("mov") /\ reg' = [reg EXCEPT ![Instruction.to] = Source]
     \/ Step("imm") /\ reg' = [reg EXCEPT ![Instruction.to] = Source]
     \/ Step("load") /\ reg' = [reg EXCEPT ![Instruction.to] = "at " \o Source]
  /\ ip' = ip + 1 /\ UNCHANGED <<depth, stack>>

\* hook_bundle_file_read always returns nullptr; the other hooks return nothing.
CallStep ==
  /\ Step("call")
  /\ \E home \in SUBSET (0 .. 3) :
       stack' = [d \in Frame |-> IF depth - d \in home THEN "junk" ELSE stack[d]]
  /\ reg' = [r \in Registers |->
               IF r = "rax" THEN "null" ELSE IF r \in Volatile THEN "junk" ELSE reg[r]]
  /\ ip' = ip + 1 /\ UNCHANGED depth

BranchStep ==   \* jz $+1 over the one byte of retn
  /\ \/ Step("test") /\ ip' = ip + 1
     \/ Step("jz") /\ ip' = IF reg.rax = "null" THEN ip + 1 + Instruction.from ELSE ip + 1
  /\ UNCHANGED <<depth, reg, stack>>

AtJump == ip <= Len(Code(hook)) /\ Instruction.op = "jmp"
Resumed == AtJump /\ UNCHANGED vars   \* the engine's code goes on

Next == PushStep \/ PopStep \/ AdjustStep \/ AssignStep \/ CallStep \/ BranchStep \/ Resumed

Spec == Init /\ [][Next]_vars

-----------------------------------------------------------------------------
(* Properties.                                                                *)

\* The wrapper never returns to the engine's caller, pops what it did not push
\* or runs off its end.
TypeOK ==
  /\ hook \in Wrappers /\ ip \in 1 .. Len(Code(hook)) /\ Instruction.op # "ret"
  /\ depth \in 0 .. 16
  /\ DOMAIN reg = Registers /\ DOMAIN stack = Frame

\* The hook is called as its caller must: with the stack aligned to 16 bytes (a
\* function is entered 8 bytes off that, in the middle of one it is aligned), and
\* with the hooked function's arguments, or the two objects the engine has in rsi
\* and r14 where a render emitter is set up.
CalledRight ==
  Instruction.op = "call" =>
    /\ (depth + IF hook.inside THEN 0 ELSE 1) % 2 = 0
    /\ \A i \in DOMAIN hook.args : reg[<<"rcx", "rdx">>[i]] = hook.args[i]

\* Whatever the hook does to its registers and home slots, the engine goes on
\* with the stack, the frame and the registers it would have without the hook.
Pushed(i)    == IF i.op = "push" THEN 1 ELSE IF i.op = "sub" THEN i.from ELSE 0
Repeated(r)  ==   \* what the repeated instructions leave in r
  LET writes == SelectSeq(hook.again, LAMBDA i : i.to = r /\ i.op \in {"mov", "load"})
  IN  IF writes = <<>> THEN r
      ELSE IF Last(writes).op = "load" THEN "at " \o Last(writes).from ELSE Last(writes).from
Transparent ==
  AtJump =>
    /\ depth = FoldLeft(LAMBDA d, i : d + Pushed(i), 0, hook.again)
    /\ \A r \in hook.live \cup (Registers \ Volatile) \cup {i.to : i \in ToSet(hook.again)} :
         r \in Registers => reg[r] = Repeated(r)
    /\ \A d \in Frame : d <= (IF hook.inside THEN -4 ELSE 0) => stack[d] = "frame"
    /\ hook.again # <<>> /\ hook.again[1] = PushRbx => stack[1] = "rbx"

\* Every wrapper fits the space reserved for it and every patch its
\* ModifiableCode, and the engine goes on right behind the bytes that were
\* replaced, which are those of the repeated instructions.
LayoutConsistent ==
  /\ Bytes(Code(hook)) <= ReserveSize /\ hook.patch <= hook.room
  /\ ~hook.vtable => Bytes(hook.again) = hook.patch /\ hook.site + hook.patch = hook.resume

\* What the comment above the last jump of hook_set_bundle_file_read_complex
\* says: "jmp 1400929F7", with the image at 140000000.
ResumesAsCommented == hook = bundle_file_read_complex /\ AtJump => Instruction.from = \h929F7
=============================================================================
