------------------------------- MODULE Wrappers -------------------------------
(* The machine code that emitters.cpp, bundles.cpp and main.cpp emit for each *)
(* hook, and where they put the jump to it.  WrapperCode.tla runs this code,  *)
(* Initialization.tla installs it.                                            *)
EXTENDS Integers, Sequences

(* Instructions, with their length in bytes.                                  *)

I(op, size, to, from) == [op |-> op, size |-> size, to |-> to, from |-> from]

Push(r)       == I("push", IF r \in {"r8"} THEN 2 ELSE 1, r, 0)
ShortPushRbx  == I("push", 1, "rbx", 0)         \* mutant: 53
PushRbx       == I("push", 2, "rbx", 0)         \* 40 53, as the engine has it
Pop(r)        == I("pop", IF r \in {"r8"} THEN 2 ELSE 1, r, 0)
SubRsp(bytes) == I("sub", 4, "rsp", bytes \div 8)
AddRsp(bytes) == I("add", 4, "rsp", bytes \div 8)
Move(r, s)    == I("mov", 3, r, s)
Load(r, s)    == I("load", 3, r, s)             \* mov rax, [r15] and the like
LoadGlobal    == I("load", 7, "rax", "global")  \* mov rax, [142AA43B8h]
CallHook      == <<I("imm", 10, "rax", "hook_func"), I("call", 2, "rax", 0)>>
Jump(offset)  == I("jmp", 5, "rip", offset)

\* test rax, rax; jz $+1; retn
ReturnAlways  == <<I("test", 3, "rax", 0), I("jz", 2, "rip", 0), I("ret", 1, "rip", 0)>>   \* mutant
ReturnIfFound == <<I("test", 3, "rax", 0), I("jz", 2, "rip", 1), I("ret", 1, "rip", 0)>>

-----------------------------------------------------------------------------
(* The wrappers: the code around the hook, the overwritten instructions it    *)
(* repeats, and where it goes on.  `site` and `patch` tell the bytes replaced *)
(* by a jump to it, unless a vtable entry leads to it, and `room` the length  *)
(* of the ModifiableCode they are written through.  `live` are the registers  *)
(* with arguments that the engine's code still needs.                         *)

Misaligned == 32   \* mutant: 20h where 28h is needed
ShadowOdd  == 40   \* sub rsp, 28h: after an even number of pushes
ShadowEven == 32   \* sub rsp, 20h: after an odd number of pushes

\* Where a vtable entry leads to the wrapper, the engine's function comes after it.
OfEntry(site, args, resume) ==
  [vtable |-> TRUE, site |-> site, patch |-> 8, room |-> 8, inside |-> FALSE,
   args |-> args, live |-> {"rcx", "rdx"},
   around |-> <<Push("rcx"), Push("rdx"), SubRsp(ShadowOdd)>> \o CallHook
              \o <<AddRsp(ShadowOdd), Pop("rdx"), Pop("rcx")>>,
   again |-> <<>>, resume |-> resume]

emitter_register        == OfEntry(\h1F3F4D0, <<"rcx", "rdx">>, \h516490)
render_emitter_destruct == OfEntry(\h214B4B8, <<"rcx">>, \hC08B20)

NoSave == <<SubRsp(ShadowOdd)>> \o CallHook \o <<AddRsp(ShadowOdd)>>  \* mutant: rcx is not kept
SaveThis ==
  <<Push("rcx"), SubRsp(ShadowEven)>> \o CallHook \o <<AddRsp(ShadowEven), Pop("rcx")>>

emitter_destruct ==
  [vtable |-> FALSE, site |-> \h518FE0, patch |-> 6, room |-> 8, inside |-> FALSE,
   args |-> <<"rcx">>, live |-> {"rcx"},
   around |-> SaveThis,
   again |-> <<PushRbx, SubRsp(32)>>, resume |-> \h518FE6]

FromSite == <<Move("rcx", "rsi"), Move("rdx", "r14")>>

render_emitter_register ==
  [vtable |-> FALSE, site |-> \hBFB047, patch |-> 6, room |-> 8, inside |-> TRUE,
   args |-> <<"rsi", "r14">>, live |-> {},
   around |-> FromSite \o CallHook,
   again |-> <<Load("rax", "r15"), Move("rcx", "r15")>>, resume |-> \hBFB04D]

bundle_file_read_simple ==
  [vtable |-> FALSE, site |-> \h929F0, patch |-> 7, room |-> 16, inside |-> FALSE,
   args |-> <<"rcx">>, live |-> {"rcx"},
   around |-> SaveThis \o ReturnIfFound,
   again |-> <<LoadGlobal>>, resume |-> \h929F7]

bundle_file_read_complex ==
  [vtable |-> FALSE, site |-> \h92A20, patch |-> 7, room |-> 16, inside |-> FALSE,
   args |-> <<"rcx">>, live |-> {"rcx", "rdx", "r8"},
   around |-> <<Push("rcx"), Push("rdx"), Push("r8"), SubRsp(32)>> \o CallHook
              \o <<AddRsp(32), Pop("r8"), Pop("rdx"), Pop("rcx")>> \o ReturnIfFound,
   again |-> <<LoadGlobal>>, resume |-> \h92A27]

loop ==
  [vtable |-> FALSE, site |-> \h446B0, patch |-> 6, room |-> 6, inside |-> TRUE,
   args |-> <<>>, live |-> {},
   around |-> CallHook,
   again |-> <<Load("rax", "rbx"), Move("rcx", "rbx")>>, resume |-> \h446B6]

Wrappers ==
  {emitter_register, emitter_destruct, render_emitter_register, render_emitter_destruct,
   bundle_file_read_simple, bundle_file_read_complex, loop}

Code(w) == w.around \o w.again \o <<Jump(w.resume)>>

Bytes(code) ==
  LET upto[n \in 0 .. Len(code)] == IF n = 0 THEN 0 ELSE upto[n - 1] + code[n].size
  IN  upto[Len(code)]
=============================================================================
