--------------------------- MODULE FunctionPatch ---------------------------
(***************************************************************************)
(* How a function is disabled in the code of the kernel or of a module:    *)
(* disasm (kernel_patch/disasm.py) walks over its first instructions, then *)
(* patch_kernel and patch_module (hwfilter.py) write "ret" after the       *)
(* ftrace entry and "nop" over the rest of what was walked.                *)
(*                                                                         *)
(* Code is a sequence of bytes.  The first byte of an instruction names    *)
(* it, the others are ".": "endbr", "call" (every e8, the ftrace stub      *)
(* included), "ret", "nop", "bad" (capstone does not know it), four kinds  *)
(* of jumps told apart by how capstone prints the operand, and any other   *)
(* name for an instruction that neither jumps nor returns.                 *)
(***************************************************************************)
EXTENDS Naturals, Sequences

MaxInsn  == 2   \* maxinsn; the test is insncnt > maxinsn
EndbrLen == 4
CallLen  == 5

\* "jmp": to an address, printed 0x...; "ijmp": through a register; "sjmp":
\* forward, so near that the address counted from 0 has one digit; "loop": to
\* itself, printed 0.  In the kernel all addresses are long (va).
Jump == {"jmp", "ijmp", "sjmp", "loop"}

\* The length of the instruction at i.
Size(t, i) == CHOOSE n \in 1..(Len(t) - i + 1) :
                /\ \A k \in 1..(n - 1) : t[i + k] = "."
                /\ i + n <= Len(t) => t[i + n] # "."

\* Mutant of WalkInsn: the walk goes on behind a ret.
WalkInsnPastRet(t, w, va) ==
  IF w.stop \/ w.off > Len(t) \/ t[w.off] = "bad" THEN w
  ELSE [w EXCEPT !.off = @ + Size(t, @), !.stop = t[w.off] \in Jump]

\* One instruction of the walk.  A jump whose operand is all digits makes the
\* walk expect code further on; nothing ever meets the expectation, because
\* the digits do not count from the start of the file.  From then on a ret does
\* not end the walk, and int() raises on a register.
WalkInsn(t, w, va) ==
  LET insn    == t[w.off]
      digits  == insn \in {"sjmp", "loop"} /\ ~va
      leaves  == insn = "ret" \/ (insn \in Jump /\ ~digits)
      raises  == insn = "ijmp" /\ w.expected
  IN  IF w.stop \/ w.off > Len(t) \/ t[w.off] = "bad" THEN w
      ELSE [off      |-> w.off + Size(t, w.off),
            expected |-> w.expected \/ (insn = "sjmp" /\ digits),
            stop     |-> raises \/ (leaves /\ ~w.expected),
            error    |-> raises]

\* The range from start is start..(off - 1): the instructions are adjacent, so
\* merging them always gives one range.
disasm(t, start, va) ==
  LET walk[n \in 0..(MaxInsn + 1)] ==
        IF n = 0 THEN [off |-> start, expected |-> FALSE, stop |-> FALSE, error |-> FALSE]
        ELSE WalkInsn(t, walk[n - 1], va)
  IN  walk[MaxInsn + 1]

\* Mutant of PatchRange: ret replaces the call as well.
PatchRangeNoSkip(data, off, end) ==
  [data |-> [i \in DOMAIN data |->
               IF i = off + 1 THEN "ret" ELSE IF i > off /\ i < end THEN "nop" ELSE data[i]],
   ret_patched |-> TRUE]

\* Write ret behind endbr and call, and nop up to end, if the range is longer.
PatchRange(data, off, end) ==
  LET a == IF data[off] = "endbr" THEN off + EndbrLen ELSE off
      b == IF a < end /\ data[a] = "call" THEN a + CallLen ELSE a
  IN  [data |-> [i \in DOMAIN data |->
                   IF b < end /\ i = b THEN "ret"
                   ELSE IF b < i /\ i < end THEN "nop" ELSE data[i]],
       ret_patched |-> b < end]

\* A call of the function at off returns at once: nothing but endbr and one
\* call runs before a ret.
Disabled(t, off) ==
  \E b \in off..Len(t) :
    /\ t[b] = "ret"
    /\ \A i \in off..(b - 1) : t[i] \in {"endbr", "call", "."}
    /\ \A i, j \in off..(b - 1) : t[i] = "call" /\ t[j] = "call" => i = j

=============================================================================
