-------------------------- MODULE PatchCodeProofs --------------------------
(***************************************************************************)
(* What patch_image does to code, for any kernel, modules and profiles and *)
(* any runs and kills: nobody else's function is touched, nothing that was *)
(* disabled comes back, and a run that ends normally did what it was asked.*)
(*                                                                         *)
(* None of it is inductive, for the ranges come from walking over code that*)
(* earlier runs patched.  The argument: a function whose bytes are as they *)
(* were is walked no further than its end (WalkUntouched), and one that was*)
(* patched only as far as its ret (WalkStubbed), so that patching again    *)
(* changes nothing outside it (PatchFunction, PatchOthers, PatchSound).    *)
(* CodeInv says that every function on the disk and in memory is of one of *)
(* these two kinds; MemInv, KernelDoneInv and ModulesDoneInv follow a run. *)
(***************************************************************************)
EXTENDS PatchImageProofs, FiniteSetTheorems

-----------------------------------------------------------------------------
\* Instructions.

\* The instruction at i ends at a boundary, and at the first one.
LEMMA SizeSpec ==
  ASSUME NEW t, Len(t) \in Nat, DOMAIN t = 1..Len(t), NEW i \in DOMAIN t,
         NEW e \in Nat, i < e, Boundary(t, e)
  PROVE  /\ Size(t, i) \in Nat /\ 1 <= Size(t, i) /\ i + Size(t, i) <= e
         /\ HasSize(t, i, Size(t, i))
<1> DEFINE P(n) == /\ \A k \in 1..(n - 1) : t[i + k] = "."
                   /\ i + n <= Len(t) => t[i + n] # "."
           S == {n \in Nat : 1 <= n /\ Boundary(t, i + n)}
<1>1. Len(t) \in Nat /\ i \in 1..Len(t) /\ e <= Len(t) + 1
  BY DEF Boundary
<1>2. e - i \in S
  BY <1>1
<1>3. PICK n \in S : \A m \in S : n <= m
  <2>1. S \in SUBSET Nat /\ S # {}
    BY <1>2
  <2> HIDE DEF S
  <2> QED
    BY <2>1, LeastExists
<1>4. n \in 1..(Len(t) - i + 1) /\ P(n)
  <2>1. n \in 1..(Len(t) - i + 1)
    BY <1>1, <1>3 DEF Boundary
  <2>2. \A k \in 1..(n - 1) : t[i + k] = "."
    <3> SUFFICES ASSUME NEW k \in 1..(n - 1) PROVE t[i + k] = "."
      OBVIOUS
    <3>1. k \notin S
      BY <1>3
    <3>2. ~Boundary(t, i + k)
      BY <3>1
    <3>3. i + k \in DOMAIN t
      BY <1>1, <2>1
    <3> QED
      BY <3>2, <3>3 DEF Boundary
  <2>3. i + n <= Len(t) => t[i + n] # "."
    BY <1>1, <1>3 DEF Boundary
  <2> QED
    BY <2>1, <2>2, <2>3
<1> DEFINE z == Size(t, i)
<1>5. z \in 1..(Len(t) - i + 1) /\ P(z)
  BY <1>4 DEF Size
<1> HIDE DEF z
<1>6. z \in Nat /\ 1 <= z /\ z <= Len(t) - i + 1 /\ i \in Nat /\ 1 <= i /\ i <= Len(t)
  BY <1>1, <1>5
<1>7. HasSize(t, i, z)
  <2>1. \A k \in (i + 1)..(i + z - 1) : t[k] = "."
    <3> SUFFICES ASSUME NEW k \in (i + 1)..(i + z - 1) PROVE t[k] = "."
      OBVIOUS
    <3>1. k - i \in 1..(z - 1) /\ i + (k - i) = k
      BY <1>6
    <3> QED
      BY <1>5, <3>1
  <2>2. Boundary(t, i + z)
    BY <1>1, <1>5 DEF Boundary
  <2> QED
    BY <2>1, <2>2 DEF HasSize
<1>8. i + z <= e
  <2>1. SUFFICES ASSUME e < i + z PROVE FALSE
    BY <1>1, <1>5
  <2>2. e \in (i + 1)..(i + z - 1) /\ e <= Len(t)
    BY ONLY <1>6, <1>1, <2>1, e \in Nat, i < e
  <2>3. t[e] = "."
    BY <1>7, <2>2 DEF HasSize
  <2> QED
    BY <2>2, <2>3, <1>1 DEF Boundary
<1> QED
  BY <1>5, <1>7, <1>8 DEF z

\* An instruction has one size.
LEMMA SizeExact ==
  ASSUME NEW t, Len(t) \in Nat, DOMAIN t = 1..Len(t), NEW i \in DOMAIN t,
         NEW n \in Nat, 1 <= n, HasSize(t, i, n)
  PROVE  Size(t, i) = n
<1> DEFINE z == Size(t, i)
<1>1. z \in Nat /\ 1 <= z /\ i + z <= i + n /\ HasSize(t, i, z)
  BY SizeSpec DEF HasSize
<1> HIDE DEF z
<1>2. SUFFICES ASSUME z < n PROVE FALSE
  BY <1>1 DEF z
<1>3. i + n <= Len(t) + 1 /\ Len(t) \in Nat /\ DOMAIN t = 1..Len(t)
  BY DEF HasSize, Boundary
<1>4. t[i + z] = "."
  BY <1>1, <1>2 DEF HasSize
<1> QED
  BY <1>1, <1>2, <1>3, <1>4 DEF HasSize, Boundary

\* disasm is three steps of WalkInsn.
LEMMA WalkSteps ==
  ASSUME NEW t, NEW start, NEW va
  PROVE  \E w0, w1, w2, w3 :
           /\ w0 = [off |-> start, expected |-> FALSE, stop |-> FALSE, error |-> FALSE]
           /\ w1 = WalkInsn(t, w0, va)
           /\ w2 = WalkInsn(t, w1, va)
           /\ w3 = WalkInsn(t, w2, va)
           /\ disasm(t, start, va) = w3
<1> DEFINE w0 == [off |-> start, expected |-> FALSE, stop |-> FALSE, error |-> FALSE]
           w1 == WalkInsn(t, w0, va)
           w2 == WalkInsn(t, w1, va)
           w3 == WalkInsn(t, w2, va)
           F(f) == [n \in 0..3 |-> IF n = 0 THEN w0 ELSE WalkInsn(t, f[n - 1], va)]
           g == [n \in 0..3 |-> IF n = 0 THEN w0 ELSE IF n = 1 THEN w1
                                ELSE IF n = 2 THEN w2 ELSE w3]
           c == CHOOSE f : f = F(f)
<1>1. disasm(t, start, va) = c[3]
  BY DEF disasm, MaxInsn
<1> HIDE DEF w0, c
<1>2. g = F(g)
  <2> HIDE DEF w1, w2, w3
  <2>1. g[0] = w0 /\ g[1] = w1 /\ g[2] = w2 /\ g[3] = w3
    OBVIOUS
  <2>2. /\ F(g)[0] = w0 /\ F(g)[1] = WalkInsn(t, g[0], va)
        /\ F(g)[2] = WalkInsn(t, g[1], va) /\ F(g)[3] = WalkInsn(t, g[2], va)
    OBVIOUS
  <2>3. \A n \in 0..3 : g[n] = F(g)[n]
    BY <2>1, <2>2 DEF w1, w2, w3
  <2> QED
    BY <2>3
<1>3. c = F(c)
  BY <1>2 DEF c
<1>4. c[0] = w0 /\ c[1] = w1 /\ c[2] = w2 /\ c[3] = w3
  <2>1. /\ F(c)[0] = w0 /\ F(c)[1] = WalkInsn(t, c[0], va)
        /\ F(c)[2] = WalkInsn(t, c[1], va) /\ F(c)[3] = WalkInsn(t, c[2], va)
    OBVIOUS
  <2> HIDE DEF F
  <2>2. c[0] = F(c)[0] /\ c[1] = F(c)[1] /\ c[2] = F(c)[2] /\ c[3] = F(c)[3]
    BY <1>3
  <2>3. c[0] = w0 /\ c[1] = w1
    BY <2>1, <2>2
  <2>4. c[2] = w2
    BY <2>1, <2>2, <2>3
  <2> QED
    BY <2>1, <2>2, <2>3, <2>4
<1> QED
  BY <1>1, <1>4 DEF w0

-----------------------------------------------------------------------------
\* One function of a binary, and its code t after some patching.

\* Where PatchRange puts ret in function k: behind endbr and call.
StubEnd(b, k) ==
  LET off == b.syms[k].off
      a == IF b.text[off] = "endbr" THEN off + EndbrLen ELSE off
  IN  IF a < b.syms[k].end /\ b.text[a] = "call" THEN a + CallLen ELSE a

\* Function k is as it was.
Untouched(b, k, t) ==
  \A i \in b.syms[k].off..(b.syms[k].end - 1) : t[i] = b.text[i]

\* ret follows endbr and call, and is an instruction of its own.
Stubbed(b, k, t) ==
  /\ StubEnd(b, k) < b.syms[k].end
  /\ t[StubEnd(b, k)] = "ret"
  /\ \A i \in b.syms[k].off..(StubEnd(b, k) - 1) : t[i] = b.text[i]
  /\ Boundary(t, StubEnd(b, k) + 1)

\* As long as the original, and its instructions start where they did.
SameShape(b, t) ==
  /\ Len(t) = Len(b.text) /\ t = [i \in DOMAIN b.text |-> t[i]]
  /\ \A i \in DOMAIN t : b.text[i] # "." => t[i] # "."

\* The first instructions of function k keep the walk from leaving it.
Tame(b, k, va) ==
  LET body == {i \in b.syms[k].off..(b.syms[k].end - 1) : b.text[i] # "."}
      code == {b.text[i] : i \in body}
  IN  Cardinality(body) <= MaxInsn =>
        /\ code \cap (Jump \cup {"ret"}) # {}
        /\ va \/ code \cap {"sjmp", "loop"} = {}

\* A function lies within the text and starts with an instruction.
LEMMA FunctionFacts ==
  ASSUME NEW b, IsCode(b), NEW k \in DOMAIN b.syms
  PROVE  /\ Len(b.text) \in Nat /\ DOMAIN b.text = 1..Len(b.text)
         /\ b.syms[k].off \in Nat /\ b.syms[k].end \in Nat
         /\ 1 <= b.syms[k].off /\ b.syms[k].off < b.syms[k].end
         /\ b.syms[k].end <= Len(b.text) + 1
         /\ b.text[b.syms[k].off] # "."
         /\ Boundary(b.text, b.syms[k].end)
<1> DEFINE S == [name : STRING, ty : STRING, off : Nat, end : Nat]
<1>1. b.text \in Seq(STRING) /\ b.syms \in Seq(S)
  BY DEF IsCode
<1>2. b.syms[k] \in S
  <2> HIDE DEF S
  <2> QED
    BY <1>1
<1>3. /\ 1 <= b.syms[k].off /\ b.syms[k].off < b.syms[k].end
      /\ Boundary(b.text, b.syms[k].off) /\ Boundary(b.text, b.syms[k].end)
  BY DEF IsCode
<1>4. b.syms[k].off \in Nat /\ b.syms[k].end \in Nat
  BY <1>2
<1>5. Len(b.text) \in Nat /\ DOMAIN b.text = 1..Len(b.text)
  BY <1>1
<1> QED
  BY <1>3, <1>4, <1>5 DEF Boundary

\* Nothing but endbr and one call comes before the ret.
LEMMA StubFacts ==
  ASSUME NEW b, IsCode(b), NEW k \in DOMAIN b.syms
  PROVE  /\ StubEnd(b, k) \in Nat
         /\ b.syms[k].off <= StubEnd(b, k) /\ StubEnd(b, k) <= b.syms[k].end
         /\ Boundary(b.text, StubEnd(b, k))
         /\ \A i \in b.syms[k].off..(StubEnd(b, k) - 1) : b.text[i] \in {"endbr", "call", "."}
         /\ \A i, j \in b.syms[k].off..(StubEnd(b, k) - 1) :
              b.text[i] = "call" /\ b.text[j] = "call" => i = j
<1> DEFINE off == b.syms[k].off
           end == b.syms[k].end
           o == b.text
           a == IF o[off] = "endbr" THEN off + 4 ELSE off
           s == IF a < end /\ o[a] = "call" THEN a + 5 ELSE a
<1>1. StubEnd(b, k) = s
  BY DEF StubEnd, EndbrLen, CallLen
<1>2. /\ Len(o) \in Nat /\ DOMAIN o = 1..Len(o) /\ off \in Nat /\ end \in Nat
      /\ 1 <= off /\ off < end /\ end <= Len(o) + 1 /\ o[off] # "." /\ Boundary(o, end)
  BY FunctionFacts
<1>3. \A i \in DOMAIN o : /\ o[i] = "endbr" => HasSize(o, i, 4)
                          /\ o[i] = "call" => HasSize(o, i, 5)
  BY DEF IsCode, EndbrLen, CallLen
<1> HIDE DEF off, end, o
\* No instruction reaches behind the end of the function.
<1>4. ASSUME NEW i \in Nat, off <= i, i < end, NEW n \in Nat, HasSize(o, i, n)
      PROVE  i + n <= end
  <2>1. SUFFICES ASSUME end < i + n PROVE FALSE
    BY <1>2
  <2>2. end \in (i + 1)..(i + n - 1)
    BY <1>2, <1>4, <2>1
  <2>3. o[end] = "." /\ i + n <= Len(o) + 1
    BY <1>2, <1>4, <2>2 DEF HasSize, Boundary
  <2> QED
    BY <1>2, <2>1, <2>3 DEF Boundary
<1>5. /\ a \in Nat /\ off <= a /\ a <= end /\ Boundary(o, a)
      /\ \A i \in off..(a - 1) : o[i] \in {"endbr", "."}
  <2>1. CASE o[off] = "endbr"
    <3>1. HasSize(o, off, 4)
      BY <1>2, <1>3, <2>1
    <3> QED
      BY <1>2, <1>4, <2>1, <3>1 DEF HasSize
  <2>2. CASE o[off] # "endbr"
    BY <1>2, <2>2 DEF Boundary
  <2> QED
    BY <2>1, <2>2
<1> HIDE DEF a
<1>6. /\ s \in Nat /\ a <= s /\ s <= end /\ Boundary(o, s)
      /\ \A i \in a..(s - 1) : o[i] \in {"call", "."} /\ (o[i] = "call" => i = a)
  <2>1. CASE a < end /\ o[a] = "call"
    <3>1. HasSize(o, a, 5)
      BY <1>2, <1>3, <1>5, <2>1
    <3>2. s = a + 5 /\ s <= end /\ Boundary(o, s)
      BY <1>2, <1>4, <1>5, <2>1, <3>1 DEF HasSize
    <3>3. \A i \in (a + 1)..(s - 1) : o[i] = "."
      BY ONLY <3>1, <3>2, <1>5 DEF HasSize
    <3> QED
      BY <1>5, <2>1, <3>2, <3>3
  <2>2. CASE ~(a < end /\ o[a] = "call")
    BY <1>5, <2>2
  <2> QED
    BY <2>1, <2>2
<1> HIDE DEF s
<1>7. \A i \in off..(s - 1) : /\ o[i] \in {"endbr", "call", "."}
                              /\ o[i] = "call" => i = a
  BY <1>2, <1>5, <1>6
<1>8. /\ s \in Nat /\ off <= s /\ s <= end /\ Boundary(o, s)
      /\ \A i \in off..(s - 1) : o[i] \in {"endbr", "call", "."}
      /\ \A i, j \in off..(s - 1) : o[i] = "call" /\ o[j] = "call" => i = j
  BY <1>2, <1>5, <1>6, <1>7
<1> QED
  BY <1>1, <1>8 DEF off, end, o

\* A stubbed function returns at once.
LEMMA StubbedReturns ==
  ASSUME NEW b, IsCode(b), NEW k \in DOMAIN b.syms,
         NEW t, SameShape(b, t), Stubbed(b, k, t)
  PROVE  Disabled(t, b.syms[k].off)
<1> DEFINE s == StubEnd(b, k)
           off == b.syms[k].off
           end == b.syms[k].end
<1>1. /\ s \in Nat /\ off \in Nat /\ off <= s /\ s < end /\ end <= Len(t) + 1
      /\ end \in Nat /\ Len(t) \in Nat
  BY FunctionFacts, StubFacts DEF Stubbed, SameShape
<1>2. /\ \A i \in off..(s - 1) : t[i] = b.text[i]
      /\ t[s] = "ret"
  BY DEF Stubbed
<1>3. /\ \A i \in off..(s - 1) : b.text[i] \in {"endbr", "call", "."}
      /\ \A i, j \in off..(s - 1) : b.text[i] = "call" /\ b.text[j] = "call" => i = j
  BY StubFacts
<1> HIDE DEF s, off, end
<1>4. s \in off..Len(t)
  BY <1>1
<1>5. Disabled(t, off)
  BY <1>2, <1>3, <1>4 DEF Disabled
<1> QED
  BY <1>5 DEF off

-----------------------------------------------------------------------------
\* The walk over a function.

\* One instruction further in a function that is as it was.
LEMMA Advance ==
  ASSUME NEW b, IsCode(b), NEW k \in DOMAIN b.syms,
         NEW t, SameShape(b, t), Untouched(b, k, t),
         NEW p \in Nat, b.syms[k].off <= p, p < b.syms[k].end, b.text[p] # "."
  PROVE  /\ p <= Len(t) /\ t[p] = b.text[p]
         /\ Size(t, p) \in Nat /\ 1 <= Size(t, p) /\ p + Size(t, p) <= b.syms[k].end
         /\ Boundary(b.text, p + Size(t, p))
         /\ \A i \in (p + 1)..(p + Size(t, p) - 1) : b.text[i] = "."
         /\ b.text[p] = "endbr" => Size(t, p) = 4
         /\ b.text[p] = "call" => Size(t, p) = 5
<1> DEFINE off == b.syms[k].off
           end == b.syms[k].end
           z == Size(t, p)
<1>1. /\ Len(b.text) \in Nat /\ DOMAIN b.text = 1..Len(b.text) /\ off \in Nat /\ end \in Nat
      /\ 1 <= off /\ end <= Len(b.text) + 1 /\ Boundary(b.text, end)
  BY FunctionFacts
<1>2. /\ Len(t) \in Nat /\ Len(t) = Len(b.text) /\ DOMAIN t = 1..Len(t)
      /\ \A i \in DOMAIN t : b.text[i] # "." => t[i] # "."
  BY FunctionFacts DEF SameShape
<1>3. \A i \in off..(end - 1) : t[i] = b.text[i]
  BY DEF Untouched
<1> HIDE DEF off, end
<1>4. off <= p /\ p < end /\ p \in DOMAIN t /\ t[p] = b.text[p]
  BY <1>1, <1>2, <1>3 DEF off, end
<1>5. Boundary(t, end)
  BY <1>1, <1>2 DEF Boundary
<1>6. z \in Nat /\ 1 <= z /\ p + z <= end /\ HasSize(t, p, z)
  BY <1>1, <1>2, <1>4, <1>5, SizeSpec
<1> HIDE DEF z
<1>7. \A i \in (p + 1)..(p + z - 1) : b.text[i] = "."
  <2> SUFFICES ASSUME NEW i \in (p + 1)..(p + z - 1) PROVE b.text[i] = "."
    OBVIOUS
  <2>1. i \in off..(end - 1)
    BY <1>1, <1>4, <1>6
  <2>2. t[i] = "."
    BY <1>6 DEF HasSize
  <2> QED
    BY <1>3, <2>1, <2>2
<1>8. Boundary(b.text, p + z)
  <2>1. CASE p + z = end
    BY <1>1, <2>1
  <2>2. CASE p + z # end
    <3>1. p + z \in off..(end - 1) /\ p + z # Len(t) + 1
      BY <1>1, <1>2, <1>4, <1>6, <2>2
    <3>2. t[p + z] # "." /\ p + z \in DOMAIN t
      BY <1>6, <3>1 DEF HasSize, Boundary
    <3> QED
      BY <1>2, <1>3, <3>1, <3>2 DEF Boundary
  <2> QED
    BY <2>1, <2>2
<1>9. HasSize(b.text, p, z) /\ p \in DOMAIN b.text /\ b.text \in Seq(STRING)
  BY <1>2, <1>4, <1>1, <1>7, <1>8 DEF HasSize, IsCode
<1>10. Size(b.text, p) = z
  BY <1>6, <1>9, SizeExact
<1>11. b.text[p] = "endbr" => HasSize(b.text, p, 4)
  BY <1>9 DEF IsCode, EndbrLen
<1>12. b.text[p] = "call" => HasSize(b.text, p, 5)
  BY <1>9 DEF IsCode, CallLen
<1>13. b.text[p] = "endbr" => z = 4
  BY <1>9, <1>10, <1>11, SizeExact
<1>14. b.text[p] = "call" => z = 5
  BY <1>9, <1>10, <1>12, SizeExact
<1> QED
  BY <1>1, <1>2, <1>4, <1>6, <1>7, <1>8, <1>13, <1>14 DEF z, off, end

\* What one step of the walk does to its state.
LEMMA WalkStep ==
  ASSUME NEW t, NEW va, NEW w, NEW v, v = WalkInsn(t, w, va)
  PROVE  /\ w.stop \/ w.off > Len(t) \/ t[w.off] = "bad" => v = w
         /\ ~(w.stop \/ w.off > Len(t) \/ t[w.off] = "bad") =>
              /\ v.off = w.off + Size(t, w.off)
              /\ v.expected <=> w.expected \/ (t[w.off] = "sjmp" /\ ~va)
              /\ v.stop <=>
                   \/ t[w.off] = "ijmp" /\ w.expected
                   \/ /\ \/ t[w.off] = "ret"
                         \/ t[w.off] \in Jump /\ ~(t[w.off] \in {"sjmp", "loop"} /\ ~va)
                      /\ ~w.expected
BY DEF WalkInsn

\* The walk over an untouched function stays in it, and goes behind endbr and
\* call if everything can be decoded.
LEMMA WalkUntouched ==
  ASSUME NEW b, IsCode(b), NEW k \in DOMAIN b.syms,
         NEW t, SameShape(b, t), Untouched(b, k, t),
         NEW va \in BOOLEAN, Tame(b, k, va)
  PROVE  /\ disasm(t, b.syms[k].off, va).off \in Nat
         /\ b.syms[k].off <= disasm(t, b.syms[k].off, va).off
         /\ disasm(t, b.syms[k].off, va).off <= b.syms[k].end
         /\ Boundary(b.text, disasm(t, b.syms[k].off, va).off)
         /\ \/ \E i \in b.syms[k].off..(b.syms[k].end - 1) : b.text[i] = "bad"
            \/ StubEnd(b, k) < disasm(t, b.syms[k].off, va).off
<1> DEFINE off == b.syms[k].off
           end == b.syms[k].end
           body == {i \in off..(end - 1) : b.text[i] # "."}
           d == disasm(t, off, va).off
<1>1. PICK w0, w1, w2, w3 :
        /\ w0 = [off |-> off, expected |-> FALSE, stop |-> FALSE, error |-> FALSE]
        /\ w1 = WalkInsn(t, w0, va)
        /\ w2 = WalkInsn(t, w1, va)
        /\ w3 = WalkInsn(t, w2, va)
        /\ disasm(t, off, va) = w3
  BY WalkSteps
<1>2. /\ Len(b.text) \in Nat /\ DOMAIN b.text = 1..Len(b.text) /\ off \in Nat /\ end \in Nat
      /\ 1 <= off /\ off < end /\ end <= Len(b.text) + 1 /\ Boundary(b.text, end)
      /\ b.text[off] # "." /\ Len(t) = Len(b.text)
  BY FunctionFacts DEF SameShape
<1>3. StubEnd(b, k) = LET a == IF b.text[off] = "endbr" THEN off + 4 ELSE off
                      IN  IF a < end /\ b.text[a] = "call" THEN a + 5 ELSE a
  BY DEF StubEnd, EndbrLen, CallLen
<1>4. ASSUME NEW p \in Nat, off <= p, p < end, b.text[p] # "."
      PROVE  /\ p <= Len(t) /\ t[p] = b.text[p]
             /\ Size(t, p) \in Nat /\ 1 <= Size(t, p) /\ p + Size(t, p) <= end
             /\ Boundary(b.text, p + Size(t, p))
             /\ \A i \in (p + 1)..(p + Size(t, p) - 1) : b.text[i] = "."
             /\ b.text[p] = "endbr" => Size(t, p) = 4
             /\ b.text[p] = "call" => Size(t, p) = 5
  BY <1>4, Advance
\* What Tame says when at most two instructions make up the function.
<1>5. ASSUME NEW x, NEW y, body \subseteq {x, y}
      PROVE  /\ \E i \in body : b.text[i] \in Jump \cup {"ret"}
             /\ va \/ \A i \in body : b.text[i] \notin {"sjmp", "loop"}
  <2>1. IsFiniteSet({x}) /\ Cardinality({x}) = 1
    BY FS_Singleton
  <2>2. IsFiniteSet({x} \cup {y}) /\ Cardinality({x} \cup {y}) <= 2
    BY <2>1, FS_AddElement
  <2>3. {x} \cup {y} = {x, y}
    OBVIOUS
  <2>4. body \in SUBSET ({x} \cup {y})
    BY <1>5, <2>3
  <2>5. IsFiniteSet(body) /\ Cardinality(body) <= Cardinality({x} \cup {y})
    BY <2>2, <2>4, FS_Subset
  <2>6. Cardinality(body) <= MaxInsn
    <3> HIDE DEF body
    <3>1. Cardinality(body) \in Nat /\ Cardinality({x} \cup {y}) \in Nat
      BY <2>2, <2>5, FS_CardinalityType
    <3> QED
      BY <2>2, <2>5, <3>1 DEF MaxInsn
  <2> DEFINE code == {b.text[i] : i \in body}
  <2>7. code \cap (Jump \cup {"ret"}) # {} /\ (va \/ code \cap {"sjmp", "loop"} = {})
    BY <2>6 DEF Tame
  <2> QED
    BY <2>7
<1>6. Jump = {"jmp", "ijmp", "sjmp", "loop"}
  BY DEF Jump
<1> HIDE DEF off, end, body
<1> DEFINE Goal == /\ d \in Nat /\ off <= d /\ d <= end /\ Boundary(b.text, d)
                   /\ (\E i \in off..(end - 1) : b.text[i] = "bad") \/ StubEnd(b, k) < d
<1> SUFFICES Goal
  BY DEF off, end
<1>7. d = w3.off /\ w0.off = off /\ ~w0.stop /\ ~w0.expected
  BY <1>1
<1>8. /\ w1 = WalkInsn(t, w0, va) /\ w2 = WalkInsn(t, w1, va) /\ w3 = WalkInsn(t, w2, va)
  BY <1>1
<1> HIDE DEF d
<1> DEFINE p1 == off + Size(t, off)
<1>9. /\ t[off] = b.text[off] /\ off <= Len(t)
      /\ p1 \in Nat /\ off < p1 /\ p1 <= end /\ Boundary(b.text, p1)
      /\ \A i \in (off + 1)..(p1 - 1) : b.text[i] = "."
      /\ b.text[off] = "endbr" => p1 = off + 4
      /\ b.text[off] = "call" => p1 = off + 5
  BY <1>2, <1>4
<1> HIDE DEF p1
<1>10. CASE t[off] = "bad"
  <2>1. w1 = w0
    BY ONLY <1>8, <1>7, <1>10, WalkStep
  <2>2. w2 = w0
    BY ONLY <1>8, <1>7, <1>10, <2>1, WalkStep
  <2>3. w3 = w0
    BY ONLY <1>8, <1>7, <1>10, <2>2, WalkStep
  <2>4. d = off /\ off \in off..(end - 1) /\ b.text[off] = "bad"
    BY <1>2, <1>7, <1>9, <1>10, <2>3
  <2> QED
    BY <1>2, <2>4 DEF Boundary
<1>11. CASE t[off] # "bad"
  <2>1. /\ w1.off = p1
        /\ w1.expected <=> b.text[off] = "sjmp" /\ ~va
        /\ w1.stop <=> \/ b.text[off] = "ret"
                       \/ b.text[off] \in Jump /\ ~(b.text[off] \in {"sjmp", "loop"} /\ ~va)
    BY ONLY <1>8, <1>2, <1>7, <1>9, <1>11, WalkStep DEF p1
  <2>2. p1 = end => w1.stop
    <3> SUFFICES ASSUME p1 = end PROVE w1.stop
      OBVIOUS
    <3>1. body \subseteq {off, off}
      BY <1>2, <1>9 DEF body
    <3>2. /\ \E i \in body : b.text[i] \in Jump \cup {"ret"}
          /\ va \/ \A i \in body : b.text[i] \notin {"sjmp", "loop"}
      BY <3>1, <1>5
    <3> QED
      BY <2>1, <3>1, <3>2
  <2>3. CASE w1.stop
    <3>1. w2 = w1
      BY ONLY <1>8, <2>3, WalkStep
    <3>2. w3 = w1
      BY ONLY <1>8, <2>3, <3>1, WalkStep
    <3>3. d = p1
      BY <1>7, <2>1, <3>2
    <3>4. b.text[off] \notin {"endbr", "call"}
      BY <1>6, <2>1, <2>3
    <3>5. StubEnd(b, k) = off
      BY <1>3, <3>4
    <3> QED
      BY <1>2, <1>9, <3>3, <3>5
  <2>4. CASE ~w1.stop
    <3>1. p1 < end /\ b.text[p1] # "."
      BY <1>2, <1>9, <2>2, <2>4 DEF Boundary
    <3> DEFINE p2 == p1 + Size(t, p1)
    <3>2. /\ t[p1] = b.text[p1] /\ p1 <= Len(t)
          /\ p2 \in Nat /\ p1 < p2 /\ p2 <= end /\ Boundary(b.text, p2)
          /\ \A i \in (p1 + 1)..(p2 - 1) : b.text[i] = "."
          /\ b.text[p1] = "call" => p2 = p1 + 5
      <4>1. p1 \in Nat /\ off <= p1
        BY <1>2, <1>9
      <4>2. /\ p1 <= Len(t) /\ t[p1] = b.text[p1]
            /\ Size(t, p1) \in Nat /\ 1 <= Size(t, p1) /\ p1 + Size(t, p1) <= end
            /\ Boundary(b.text, p1 + Size(t, p1))
            /\ \A i \in (p1 + 1)..(p1 + Size(t, p1) - 1) : b.text[i] = "."
            /\ b.text[p1] = "call" => Size(t, p1) = 5
        BY <1>4, <3>1, <4>1
      <4> QED
        BY ONLY <4>1, <4>2
    <3> HIDE DEF p2
    <3>3. CASE t[p1] = "bad"
      <4>1. w2 = w1
        BY ONLY <1>8, <2>1, <3>3, WalkStep
      <4>2. w3 = w1
        BY ONLY <1>8, <2>1, <3>3, <4>1, WalkStep
      <4>3. d = p1 /\ p1 \in off..(end - 1) /\ b.text[p1] = "bad"
        BY <1>2, <1>7, <1>9, <2>1, <3>1, <3>2, <3>3, <4>2
      <4> QED
        BY <1>2, <1>9, <4>3
    <3>4. CASE t[p1] # "bad"
      <4>1. /\ w2.off = p2
            /\ w2.stop <=>
                 \/ b.text[p1] = "ijmp" /\ w1.expected
                 \/ /\ \/ b.text[p1] = "ret"
                       \/ b.text[p1] \in Jump /\ ~(b.text[p1] \in {"sjmp", "loop"} /\ ~va)
                    /\ ~w1.expected
        BY ONLY <1>8, <1>2, <1>9, <2>1, <2>4, <3>2, <3>4, WalkStep DEF p2
      <4>2. p2 = end => w2.stop
        <5> SUFFICES ASSUME p2 = end PROVE w2.stop
          OBVIOUS
        <5>1. body \subseteq {off, p1}
          BY <1>2, <1>9, <3>2 DEF body
        <5>2. /\ \E i \in body : b.text[i] \in Jump \cup {"ret"}
              /\ va \/ \A i \in body : b.text[i] \notin {"sjmp", "loop"}
          BY <5>1, <1>5
        <5>3. off \in body /\ p1 \in body
          BY <1>2, <1>9, <3>1 DEF body
        <5>4. b.text[off] \notin Jump \cup {"ret"}
          BY <2>1, <2>4, <5>2, <5>3
        <5>5. b.text[p1] \in Jump \cup {"ret"} /\ ~w1.expected
          BY <1>6, <2>1, <5>1, <5>2, <5>4
        <5> QED
          BY <4>1, <5>2, <5>3, <5>5
      <4>3. StubEnd(b, k) <= p2 /\ (w2.stop => StubEnd(b, k) < p2)
        <5>1. CASE b.text[off] = "endbr" /\ b.text[p1] = "call"
          <6>1. ~w2.stop
            BY <1>6, <4>1, <5>1
          <6>2. StubEnd(b, k) = p2
            BY <1>3, <1>9, <3>1, <3>2, <5>1
          <6> QED
            BY <3>2, <6>1, <6>2
        <5>2. CASE b.text[off] = "endbr" /\ b.text[p1] # "call"
          <6>1. StubEnd(b, k) = p1
            BY <1>3, <1>9, <5>2
          <6> QED
            BY <1>9, <3>2, <6>1
        <5>3. CASE b.text[off] # "endbr"
          <6>1. StubEnd(b, k) \in {off, p1}
            BY <1>3, <1>9, <5>3
          <6> QED
            BY <1>2, <1>9, <3>2, <6>1
        <5> QED
          BY <5>1, <5>2, <5>3
      <4>4. CASE w2.stop
        <5>1. w3 = w2
          BY ONLY <1>8, <4>4, WalkStep
        <5> QED
          BY <1>2, <1>7, <1>9, <3>2, <4>1, <4>3, <4>4, <5>1
      <4>5. CASE ~w2.stop
        <5>1. p2 < end /\ b.text[p2] # "."
          BY <1>2, <3>2, <4>2, <4>5 DEF Boundary
        <5> DEFINE p3 == p2 + Size(t, p2)
        <5>2. /\ t[p2] = b.text[p2] /\ p2 <= Len(t)
              /\ p3 \in Nat /\ p2 < p3 /\ p3 <= end /\ Boundary(b.text, p3)
          BY <1>2, <1>4, <1>9, <3>2, <5>1
        <5> HIDE DEF p3
        <5>3. CASE t[p2] = "bad"
          <6>1. w3 = w2
            BY ONLY <1>8, <4>1, <5>3, WalkStep
          <6>2. d = p2 /\ p2 \in off..(end - 1) /\ b.text[p2] = "bad"
            BY <1>2, <1>7, <1>9, <3>2, <4>1, <5>1, <5>2, <5>3, <6>1
          <6> QED
            BY <1>2, <3>2, <6>2
        <5>4. CASE t[p2] # "bad"
          <6>1. d = p3
            <7>1. ~(w2.stop \/ w2.off > Len(t) \/ t[w2.off] = "bad")
              BY ONLY <1>2, <3>2, <4>1, <4>5, <5>2, <5>4
            <7>2. w3.off = w2.off + Size(t, w2.off)
              BY ONLY <1>8, <7>1, WalkStep
            <7> QED
              BY <1>7, <4>1, <7>2 DEF p3
          <6>2. StubEnd(b, k) \in Nat
            BY StubFacts
          <6> QED
            BY <1>2, <1>9, <3>2, <4>3, <5>2, <6>1, <6>2
        <5> QED
          BY <5>3, <5>4
      <4> QED
        BY <4>4, <4>5
    <3> QED
      BY <3>3, <3>4
  <2> QED
    BY <2>3, <2>4
<1> QED
  BY <1>10, <1>11

\* The walk over a stubbed function ends behind its ret.
LEMMA WalkStubbed ==
  ASSUME NEW b, IsCode(b), NEW k \in DOMAIN b.syms,
         NEW t, SameShape(b, t), Stubbed(b, k, t), NEW va \in BOOLEAN
  PROVE  disasm(t, b.syms[k].off, va).off = StubEnd(b, k) + 1
<1> DEFINE off == b.syms[k].off
           end == b.syms[k].end
           s == StubEnd(b, k)
<1>1. PICK w0, w1, w2, w3 :
        /\ w0 = [off |-> off, expected |-> FALSE, stop |-> FALSE, error |-> FALSE]
        /\ w1 = WalkInsn(t, w0, va)
        /\ w2 = WalkInsn(t, w1, va)
        /\ w3 = WalkInsn(t, w2, va)
        /\ disasm(t, off, va) = w3
  BY WalkSteps
<1>2. /\ Len(b.text) \in Nat /\ DOMAIN b.text = 1..Len(b.text) /\ off \in Nat /\ end \in Nat
      /\ 1 <= off /\ off < end /\ end <= Len(b.text) + 1
  BY FunctionFacts
<1>3. /\ Len(t) \in Nat /\ Len(t) = Len(b.text) /\ DOMAIN t = 1..Len(t)
      /\ \A i \in DOMAIN t : b.text[i] # "." => t[i] # "."
  BY FunctionFacts DEF SameShape
<1>4. /\ s \in Nat /\ off <= s /\ s < end /\ t[s] = "ret" /\ Boundary(t, s + 1)
      /\ \A i \in off..(s - 1) : t[i] = b.text[i]
  BY StubFacts DEF Stubbed
<1>5. s = LET a == IF b.text[off] = "endbr" THEN off + 4 ELSE off
          IN  IF a < end /\ b.text[a] = "call" THEN a + 5 ELSE a
  BY DEF StubEnd, EndbrLen, CallLen
<1>6. \A i \in DOMAIN b.text : /\ b.text[i] = "endbr" => HasSize(b.text, i, 4)
                               /\ b.text[i] = "call" => HasSize(b.text, i, 5)
  BY DEF IsCode, EndbrLen, CallLen
<1> HIDE DEF off, end, s
<1>7. w0.off = off /\ ~w0.stop /\ ~w0.expected
  BY <1>1
<1>8. w1 = WalkInsn(t, w0, va) /\ w2 = WalkInsn(t, w1, va) /\ w3 = WalkInsn(t, w2, va)
  BY <1>1
<1>9. SUFFICES w3.off = s + 1
  BY <1>1 DEF off, s
\* At the ret the walk stops.
<1>10. ASSUME NEW w, NEW v, v = WalkInsn(t, w, va), w.off = s, ~w.stop, ~w.expected
       PROVE  v.off = s + 1 /\ v.stop
  <2>1. s \in DOMAIN t /\ HasSize(t, s, 1)
    BY <1>2, <1>3, <1>4 DEF HasSize
  <2>2. Size(t, s) = 1
    BY <1>3, <2>1, SizeExact
  <2>3. ~(w.stop \/ w.off > Len(t) \/ t[w.off] = "bad")
    BY <1>2, <1>3, <1>4, <1>10
  <2>4. /\ v.off = w.off + Size(t, w.off)
        /\ v.stop <=> \/ t[w.off] = "ijmp" /\ w.expected
                      \/ /\ \/ t[w.off] = "ret"
                            \/ t[w.off] \in Jump /\ ~(t[w.off] \in {"sjmp", "loop"} /\ ~va)
                         /\ ~w.expected
    BY ONLY <1>10, <2>3, WalkStep
  <2> QED
    BY <1>4, <1>10, <2>2, <2>4
\* At endbr or call it goes on.
<1>11. ASSUME NEW w, NEW v, v = WalkInsn(t, w, va), ~w.stop, ~w.expected,
              NEW i \in Nat, w.off = i, NEW n \in {4, 5}, off <= i, i + n <= s,
              b.text[i] = IF n = 4 THEN "endbr" ELSE "call"
       PROVE  v.off = i + n /\ ~v.stop /\ ~v.expected
  <2>1. i \in DOMAIN t /\ i \in off..(s - 1) /\ t[i] = b.text[i]
    BY <1>2, <1>3, <1>4, <1>11
  <2>2. HasSize(b.text, i, n)
    BY <1>3, <1>6, <1>11, <2>1
  <2>3. \A j \in (i + 1)..(i + n - 1) : t[j] = "."
    <3> SUFFICES ASSUME NEW j \in (i + 1)..(i + n - 1) PROVE t[j] = "."
      OBVIOUS
    <3>1. j \in off..(s - 1)
      BY <1>2, <1>4, <1>11
    <3>2. b.text[j] = "."
      BY <2>2 DEF HasSize
    <3> QED
      BY <1>4, <3>1, <3>2
  <2>4. i + n \in DOMAIN t /\ i + n # Len(b.text) + 1
    BY <1>2, <1>3, <1>4, <1>11
  <2>5. Boundary(t, i + n)
    BY <1>3, <2>2, <2>4 DEF HasSize, Boundary
  <2>6. Size(t, i) = n
    <3>1. HasSize(t, i, n) /\ n \in Nat /\ 1 <= n
      BY <2>3, <2>5 DEF HasSize
    <3> QED
      BY <1>3, <2>1, <3>1, SizeExact
  <2>7. ~(w.stop \/ w.off > Len(t) \/ t[w.off] = "bad")
    BY <1>2, <1>3, <1>11, <2>1
  <2>8. /\ v.off = w.off + Size(t, w.off)
        /\ v.expected <=> w.expected \/ (t[w.off] = "sjmp" /\ ~va)
        /\ v.stop <=> \/ t[w.off] = "ijmp" /\ w.expected
                      \/ /\ \/ t[w.off] = "ret"
                            \/ t[w.off] \in Jump /\ ~(t[w.off] \in {"sjmp", "loop"} /\ ~va)
                         /\ ~w.expected
    BY ONLY <1>11, <2>7, WalkStep
  <2> QED
    BY <1>11, <2>1, <2>6, <2>8 DEF Jump
<1>12. ASSUME w1.off = s + 1, w1.stop PROVE w3.off = s + 1
  BY <1>8, <1>12, WalkStep
<1>13. ASSUME w2.off = s + 1, w2.stop PROVE w3.off = s + 1
  BY <1>8, <1>13, WalkStep
<1>14. CASE b.text[off] = "endbr" /\ b.text[off + 4] = "call" /\ off + 4 < end
  <2>1. s = off + 9
    BY <1>2, <1>5, <1>14
  <2>2. w1.off = off + 4 /\ ~w1.stop /\ ~w1.expected
    BY <1>2, <1>7, <1>8, <1>11, <1>14, <2>1
  <2>3. w2.off = s /\ ~w2.stop /\ ~w2.expected
    <3>1. off + 4 \in Nat /\ off <= off + 4 /\ (off + 4) + 5 <= s /\ (off + 4) + 5 = s
      BY <1>2, <2>1
    <3> QED
      BY <1>8, <1>11, <1>14, <2>2, <3>1
  <2> QED
    BY <1>8, <1>10, <2>3
<1>15. CASE b.text[off] = "endbr" /\ ~(off + 4 < end /\ b.text[off + 4] = "call")
  <2>1. s = off + 4
    BY <1>2, <1>5, <1>15
  <2>2. w1.off = s /\ ~w1.stop /\ ~w1.expected
    BY <1>2, <1>7, <1>8, <1>11, <1>15, <2>1
  <2> QED
    BY <1>8, <1>10, <1>13, <2>2
<1>16. CASE b.text[off] = "call"
  <2>1. s = off + 5
    BY <1>2, <1>5, <1>16
  <2>2. w1.off = s /\ ~w1.stop /\ ~w1.expected
    BY <1>2, <1>7, <1>8, <1>11, <1>16, <2>1
  <2> QED
    BY <1>8, <1>10, <1>13, <2>2
<1>17. CASE b.text[off] \notin {"endbr", "call"}
  <2>1. s = off
    BY <1>5, <1>17
  <2> QED
    BY <1>7, <1>8, <1>10, <1>12, <2>1
<1> QED
  BY <1>14, <1>15, <1>16, <1>17

-----------------------------------------------------------------------------
\* Patching a function.

\* Patching up to e keeps the shape, leaves the bytes outside the function alone
\* and writes its ret where the first patch wrote it.
LEMMA PatchFunction ==
  ASSUME NEW b, IsCode(b), NEW k \in DOMAIN b.syms,
         NEW t, SameShape(b, t), Untouched(b, k, t) \/ Stubbed(b, k, t),
         NEW e \in Nat, e <= b.syms[k].end,
         Boundary(b.text, e) \/ (Stubbed(b, k, t) /\ e = StubEnd(b, k) + 1),
         NEW p, p = PatchRange(t, b.syms[k].off, e)
  PROVE  /\ SameShape(b, p.data)
         /\ \A i \in DOMAIN t : i < StubEnd(b, k) \/ i >= e => p.data[i] = t[i]
         /\ \A i \in DOMAIN t : p.data[i] \in {t[i], "ret", "nop"}
         /\ ~p.ret_patched => p.data = t
         /\ p.ret_patched => Stubbed(b, k, p.data)
         /\ StubEnd(b, k) < e => p.ret_patched
<1> DEFINE off == b.syms[k].off
           end == b.syms[k].end
           s == StubEnd(b, k)
           a == IF b.text[off] = "endbr" THEN off + 4 ELSE off
           x == IF t[off] = "endbr" THEN off + 4 ELSE off
           y == IF x < e /\ t[x] = "call" THEN x + 5 ELSE x
<1>1. /\ Len(b.text) \in Nat /\ DOMAIN b.text = 1..Len(b.text) /\ off \in Nat /\ end \in Nat
      /\ 1 <= off /\ off < end /\ end <= Len(b.text) + 1
  BY FunctionFacts
<1>2. /\ Len(t) \in Nat /\ Len(t) = Len(b.text) /\ DOMAIN t = 1..Len(t)
      /\ \A i \in DOMAIN t : b.text[i] # "." => t[i] # "."
  BY FunctionFacts DEF SameShape
<1>3. s \in Nat /\ off <= s /\ s <= end
  BY StubFacts
<1>4. s = IF a < end /\ b.text[a] = "call" THEN a + 5 ELSE a
  BY DEF StubEnd, EndbrLen, CallLen
<1>5. /\ p.data = [i \in DOMAIN t |-> IF y < e /\ i = y THEN "ret"
                                      ELSE IF y < i /\ i < e THEN "nop" ELSE t[i]]
      /\ p.ret_patched <=> y < e
  BY DEF PatchRange, EndbrLen, CallLen
<1>6. /\ \A i \in off..(s - 1) : t[i] = b.text[i]
      /\ s < end => t[s] \in {b.text[s], "ret"}
      /\ s < end /\ ~Stubbed(b, k, t) => t[s] = b.text[s]
  BY <1>1, <1>3 DEF Stubbed, Untouched
<1>7. e <= end /\ (Boundary(b.text, e) \/ (Boundary(t, s + 1) /\ e = s + 1))
  BY DEF Stubbed
<1> HIDE DEF off, end, s
<1>8. x = a /\ a <= s /\ off <= a
  <2>1. b.text[off] = "endbr" => off < s
    BY <1>1, <1>4
  <2>2. t[off] = "endbr" <=> b.text[off] = "endbr"
    <3>1. CASE off < s
      BY <1>1, <1>3, <1>6, <3>1
    <3>2. CASE off = s
      BY <1>1, <1>6, <2>1, <3>2
    <3> QED
      BY <1>1, <1>3, <3>1, <3>2
  <2> QED
    BY <1>1, <1>4, <2>2
<1>9. y = s \/ (e <= y /\ e <= s)
  <2>1. CASE a < e
    <3>1. a < end /\ a \in Nat
      BY <1>1, <1>7, <1>8, <2>1
    <3>2. b.text[a] = "call" => a < s
      BY <1>4, <3>1
    <3>3. t[a] = "call" <=> b.text[a] = "call"
      <4>1. CASE a < s
        <5>1. a \in off..(s - 1)
          BY <1>1, <1>3, <1>8, <3>1, <4>1
        <5> QED
          BY <1>6, <5>1
      <4>2. CASE a = s
        BY <1>6, <3>1, <3>2, <4>2
      <4> QED
        BY <1>3, <1>8, <3>1, <4>1, <4>2
    <3> QED
      BY <1>4, <1>8, <2>1, <3>1, <3>3
  <2>2. CASE ~(a < e)
    BY <1>1, <1>3, <1>8, <2>2
  <2> QED
    BY <2>1, <2>2
<1>10. y \in Nat
  BY <1>1
<1> HIDE DEF x, y, a
<1>11. /\ DOMAIN p.data = 1..Len(t)
       /\ \A i \in DOMAIN t : p.data[i] \in {t[i], "ret", "nop"}
  BY <1>2, <1>5
<1>12. SameShape(b, p.data)
  <2>1. p.data = [i \in 1..Len(t) |-> p.data[i]]
    BY <1>2, <1>5
  <2>2. Len(p.data) = Len(t)
    BY <1>2, <2>1
  <2>3. \A i \in DOMAIN p.data : b.text[i] # "." => p.data[i] # "."
    BY <1>2, <1>11
  <2>4. DOMAIN b.text = 1..Len(t)
    BY <1>1, <1>2
  <2> QED
    BY ONLY <1>2, <2>1, <2>2, <2>3, <2>4 DEF SameShape
<1>13. \A i \in DOMAIN t : i < s \/ i >= e => p.data[i] = t[i]
  BY <1>1, <1>2, <1>3, <1>5, <1>9, <1>10
<1>14. ~p.ret_patched => p.data = t
  <2> SUFFICES ASSUME ~p.ret_patched PROVE p.data = t
    OBVIOUS
  <2>1. \A i \in DOMAIN t : p.data[i] = t[i]
    BY <1>1, <1>2, <1>5, <1>10
  <2>2. t = [i \in 1..Len(t) |-> t[i]]
    BY <1>1, <1>2 DEF SameShape
  <2> QED
    BY <1>2, <1>5, <2>1, <2>2
<1>15. ASSUME p.ret_patched PROVE Stubbed(b, k, p.data)
  <2>1. y = s /\ s < e /\ s < end
    BY <1>1, <1>3, <1>5, <1>7, <1>9, <1>10, <1>15
  <2>2. s \in DOMAIN t
    BY <1>1, <1>2, <1>3, <2>1
  <2>3. p.data[s] = "ret"
    BY <1>5, <2>1, <2>2
  <2>4. \A i \in off..(s - 1) : p.data[i] = b.text[i]
    BY <1>1, <1>2, <1>3, <1>6, <1>13, <2>1
  <2>5. Boundary(p.data, s + 1)
    <3>1. Len(p.data) = Len(t) /\ DOMAIN p.data = DOMAIN t
      BY <1>2, <1>11, <1>12 DEF SameShape
    <3>2. CASE s + 1 < e
      <4>1. s + 1 \in DOMAIN t
        BY <1>1, <1>2, <1>3, <1>7, <3>2
      <4>2. p.data[s + 1] = "nop"
        BY <1>3, <1>5, <2>1, <3>2, <4>1
      <4> QED
        BY <3>1, <4>1, <4>2 DEF Boundary
    <3>3. CASE s + 1 = e
      <4>1. Boundary(t, e)
        BY <1>2, <1>7, <3>3 DEF Boundary
      <4> QED
        BY <1>3, <1>13, <3>1, <3>3, <4>1 DEF Boundary
    <3> QED
      BY <1>3, <2>1, <3>2, <3>3
  <2> QED
    BY <2>1, <2>3, <2>4, <2>5 DEF Stubbed, off, end, s
<1>16. s < e => p.ret_patched
  BY <1>3, <1>5, <1>9, <1>10
<1> QED
  BY <1>11, <1>12, <1>13, <1>14, <1>15, <1>16 DEF s

\* What patching function k of code t to u does to the other functions, and
\* that nothing that returned at once stops doing so.
LEMMA PatchOthers ==
  ASSUME NEW b, IsCode(b), NEW k \in DOMAIN b.syms, NEW t, SameShape(b, t),
         NEW u, SameShape(b, u), NEW e \in Nat, e <= b.syms[k].end,
         \A i \in DOMAIN t : i < StubEnd(b, k) \/ i >= e => u[i] = t[i],
         \A i \in DOMAIN t : u[i] \in {t[i], "ret", "nop"},
         Untouched(b, k, t) \/ Stubbed(b, k, t),
         u = t \/ Stubbed(b, k, u),
         NEW j \in DOMAIN b.syms
  PROVE  /\ j # k /\ Untouched(b, j, t) => Untouched(b, j, u)
         /\ j # k /\ Stubbed(b, j, t) => Stubbed(b, j, u)
         /\ Disabled(t, b.syms[j].off) => Disabled(u, b.syms[j].off)
<1> DEFINE off == b.syms[k].off
           end == b.syms[k].end
           s == StubEnd(b, k)
           o == b.syms[j].off
           n == b.syms[j].end
           z == StubEnd(b, j)
<1>1. /\ Len(b.text) \in Nat /\ DOMAIN b.text = 1..Len(b.text)
      /\ off \in Nat /\ end \in Nat /\ 1 <= off /\ off < end /\ end <= Len(b.text) + 1
      /\ o \in Nat /\ n \in Nat /\ 1 <= o /\ o < n /\ n <= Len(b.text) + 1
  BY FunctionFacts
<1>2. /\ Len(t) = Len(b.text) /\ DOMAIN t = 1..Len(t)
      /\ Len(u) = Len(t) /\ DOMAIN u = 1..Len(t)
  BY <1>1 DEF SameShape
<1>3. /\ s \in Nat /\ off <= s /\ s <= end /\ z \in Nat /\ o <= z /\ z <= n
      /\ \A i \in off..(s - 1) : b.text[i] \in {"endbr", "call", "."}
  BY StubFacts
<1>4. j # k => n <= off \/ end <= o
  BY DEF IsCode
<1>5. e <= end /\ \A i \in DOMAIN t : i < s \/ i >= e => u[i] = t[i]
  OBVIOUS
<1>6. \A i \in off..(s - 1) : t[i] = b.text[i]
  BY <1>1, <1>3 DEF Untouched, Stubbed
<1>7. Stubbed(b, k, u) => s < end /\ u[s] = "ret"
  BY DEF Stubbed
<1>8. Stubbed(b, j, t) <=> /\ z < n /\ t[z] = "ret" /\ Boundary(t, z + 1)
                           /\ \A i \in o..(z - 1) : t[i] = b.text[i]
  BY DEF Stubbed
<1>9. Stubbed(b, j, u) <=> /\ z < n /\ u[z] = "ret" /\ Boundary(u, z + 1)
                           /\ \A i \in o..(z - 1) : u[i] = b.text[i]
  BY DEF Stubbed
<1>10. /\ Untouched(b, j, t) <=> \A i \in o..(n - 1) : t[i] = b.text[i]
       /\ Untouched(b, j, u) <=> \A i \in o..(n - 1) : u[i] = b.text[i]
  BY DEF Untouched
<1>11. \A i \in DOMAIN t : u[i] \in {t[i], "ret", "nop"}
  OBVIOUS
<1> HIDE DEF off, end, s, o, n, z
<1>12. ASSUME j # k PROVE \A i \in o..(n - 1) : i \in DOMAIN t /\ u[i] = t[i]
  BY ONLY <1>1, <1>2, <1>3, <1>4, <1>5, <1>12, e \in Nat
<1>13. j # k /\ Untouched(b, j, t) => Untouched(b, j, u)
  BY <1>10, <1>12
<1>14. ASSUME j # k, Stubbed(b, j, t) PROVE Stubbed(b, j, u)
  <2>1. z < n /\ t[z] = "ret" /\ Boundary(t, z + 1) /\ \A i \in o..(z - 1) : t[i] = b.text[i]
    BY <1>8, <1>14
  <2>2. u[z] = "ret" /\ \A i \in o..(z - 1) : u[i] = b.text[i]
    BY <1>1, <1>3, <1>12, <1>14, <2>1
  <2>3. Boundary(u, z + 1)
    BY <1>2, <1>11, <2>1 DEF Boundary
  <2> QED
    BY <1>9, <2>1, <2>2, <2>3
<1>15. ASSUME Disabled(t, o) PROVE Disabled(u, o)
  <2>1. CASE u = t
    BY <1>15, <2>1
  <2>2. CASE Stubbed(b, k, u) /\ j = k
    <3>1. Disabled(u, off)
      BY <2>2, StubbedReturns DEF off
    <3> QED
      BY <2>2, <3>1 DEF off, o
  <2>3. CASE Stubbed(b, k, u) /\ j # k
    <3>1. PICK c \in o..Len(t) :
            /\ t[c] = "ret"
            /\ \A i \in o..(c - 1) : t[i] \in {"endbr", "call", "."}
            /\ \A i, h \in o..(c - 1) : t[i] = "call" /\ t[h] = "call" => i = h
      BY <1>15 DEF Disabled
    <3>2. CASE end <= o \/ c < off
      <4>1. \A i \in o..c : u[i] = t[i]
        BY ONLY <1>1, <1>2, <1>3, <1>5, <3>2, c \in o..Len(t), e \in Nat
      <4>2. c \in o..Len(u) /\ c \in o..c /\ \A i \in o..(c - 1) : i \in o..c
        BY <1>1, <1>2
      <4> QED
        BY <3>1, <4>1, <4>2 DEF Disabled
    <3>3. CASE n <= off /\ off <= c
      <4>1. s <= c
        <5>1. SUFFICES ASSUME c < s PROVE FALSE
          BY <1>1, <1>3
        <5>2. c \in off..(s - 1)
          BY <1>1, <1>3, <3>3, <5>1
        <5> QED
          BY <1>3, <1>6, <3>1, <5>2
      <4>2. \A i \in o..(s - 1) : u[i] = t[i] /\ i \in o..(c - 1)
        BY ONLY <1>1, <1>2, <1>3, <1>5, <4>1, c \in o..Len(t), e \in Nat
      <4>3. s \in o..Len(u) /\ u[s] = "ret"
        BY <1>1, <1>2, <1>3, <1>7, <2>3, <3>3, <4>1
      <4> QED
        BY <3>1, <4>2, <4>3 DEF Disabled
    <3> QED
      BY <1>1, <1>4, <2>3, <3>2, <3>3
  <2> QED
    BY <2>1, <2>2, <2>3
<1> QED
  BY <1>13, <1>14, <1>15 DEF o

-----------------------------------------------------------------------------
\* The shape of the code on the disk and in memory.

\* Steps at which mem holds the code of file cur.
Busy == {"patch", "copy", "inplace", "raw", "writeback"}

\* As long as the original.
SameLength(f, t) == Len(t) = Len(Bin(f).text) /\ DOMAIN t = DOMAIN Bin(f).text

\* The steps before the modules are visited.
Early == {"kernel", "copy", "inplace", "raw", "unlink", "remove"}

\* What is in memory at each step, and that nothing missing is patched.
ShapeInv ==
  /\ cur \in Mod \cup {"vmlinuz"}
  /\ pc \in {"copy", "inplace", "raw"} => cur = "vmlinuz"
  /\ pc \in Early \/ (pc = "patch" /\ cur = "vmlinuz") => work = {}
  /\ \A m \in work : disk[m] # Gone
  /\ disk["vmlinuz"] # Gone /\ \A m \in Mod : disk[m] # Zeros
  /\ \A f \in Path : disk[f] \in {Gone, Zeros} \/ SameLength(f, disk[f])
  /\ pc \in Busy => /\ disk[cur] \notin {Gone, Zeros} \/ mem = Zeros
                    /\ SameLength(cur, mem) \/ (mem = Zeros /\ pc \in {"copy", "inplace", "raw"})

\* The code of every file is code.
LEMMA BinIsCode ==
  ASSUME image \in Images, NEW f \in Path
  PROVE  IsCode(Bin(f)) /\ Long(Bin(f).text) /\ Len(Bin(f).text) \in Nat
         /\ DOMAIN Bin(f).text = 1..Len(Bin(f).text)
<1>1. IsCode(Bin(f))
  BY CodeAssumption DEF Bin, Path
<1> QED
  BY <1>1 DEF IsCode, Long

\* Code of the length of a file is neither of the marks.
LEMMA SameLengthLong ==
  ASSUME image \in Images, NEW f \in Path, NEW t, SameLength(f, t)
  PROVE  t \notin {Gone, Zeros}
BY BinIsCode, LongIsCode DEF SameLength, Long

\* A file that is missing is none of zeros.
LEMMA GoneNotZeros == Gone # Zeros
BY DEF Gone, Zeros

\* Patching keeps the length.
LEMMA PatchKeepsLen ==
  ASSUME NEW data, NEW off, NEW end, Len(data) \in Nat, DOMAIN data = 1..Len(data)
  PROVE  /\ DOMAIN PatchRange(data, off, end).data = DOMAIN data
         /\ Len(PatchRange(data, off, end).data) = Len(data)
BY DEF PatchRange

\* The image stays as extracted, and with it what is defined from it.
LEMMA ImageKept ==
  ASSUME [Next]_vars
  PROVE  /\ image' = image
         /\ \A f : Bin(f)' = Bin(f)
<1>1. image' = image
  BY DEF Next, vars, Start, LoadKernel, PatchSym, Repack, OpenTarget, FillTarget, CloseTarget,
     Unlink, RemoveModule, EndRemove, LoadModule, WriteBack, EndModules, ReadInitrd, OpenInitrd,
     FillInitrd, Kill
<1> QED
  BY <1>1 DEF Bin

\* ShapeInv holds in the tree as extracted.
LEMMA ShapeInit ==
  ASSUME Init
  PROVE  ShapeInv
<1>1. /\ image \in Images /\ pc = "off" /\ cur = "vmlinuz" /\ work = {}
      /\ disk = [f \in Path |-> IF f \in Mod \cup {"vmlinuz"} THEN Bin(f).text ELSE Gone]
  BY DEF Init
<1>2. \A f \in Mod \cup {"vmlinuz"} : f \in Path /\ disk[f] = Bin(f).text
  BY <1>1, KernelPaths DEF KernFile
<1>3. \A f \in Mod \cup {"vmlinuz"} : disk[f] \notin {Gone, Zeros}
  BY <1>1, <1>2, BinIsCode, LongIsCode
<1> QED
  BY <1>1, <1>2, <1>3 DEF ShapeInv, SameLength, Early, Busy

\* ShapeInv: only PatchSym changes the code in memory, only FillTarget writes it.
LEMMA ShapeNext ==
  ASSUME ControlInv, ShapeInv, [Next]_vars
  PROVE  ShapeInv'
<1> USE AfterWriting, TargetOf, KernelPaths DEF ControlInv, ShapeInv, Busy, Early, KernFile
<1>1. \A f : Bin(f)' = Bin(f)
  BY ImageKept
<1>2. ASSUME NEW p \in DOMAIN Profile, Start(p)
      PROVE  ShapeInv'
  BY <1>2, <1>1
  DEF Start, Forget, Idle, SameLength, memVars, diskVars, history
<1>3. CASE LoadKernel
  BY <1>3, <1>1
  DEF LoadKernel, Readable, SameLength, memVars, diskVars, history
<1>4. ASSUME NEW s \in todo, PatchSym(s)
      PROVE  ShapeInv'
  <2>1. pc = "patch" /\ UNCHANGED <<cur, work, disk>>
    BY <1>4 DEF PatchSym, diskVars
  <2>2. CASE pc' = "failed" /\ mem' = mem
    BY <1>1, <2>1, <2>2 DEF SameLength
  <2>3. CASE pc' = "patch" /\ \E e : mem' = PatchRange(mem, Off(cur, s), e).data
    <3>1. PICK e : mem' = PatchRange(mem, Off(cur, s), e).data
      BY <2>3
    <3>2. SameLength(cur, mem) /\ Len(mem) \in Nat /\ DOMAIN mem = 1..Len(mem)
      BY <2>1, BinIsCode DEF SameLength
    <3>3. Len(mem') = Len(mem) /\ DOMAIN mem' = DOMAIN mem
      BY <3>1, <3>2, PatchKeepsLen
    <3>4. disk[cur] \notin {Gone, Zeros}
      BY <2>1, <3>2, SameLengthLong
    <3> QED
      BY <1>1, <2>1, <2>3, <3>2, <3>3, <3>4 DEF SameLength
  <2> QED
    BY <1>4, <2>1, <2>2, <2>3 DEF PatchSym
<1>5. ASSUME NEW size \in Sizes \cup {0}, Repack(size)
      PROVE  ShapeInv'
  BY <1>5, <1>1
  DEF Repack, SameLength, memVars, diskVars, history
<1>6. CASE OpenTarget
  BY <1>6, <1>1
  DEF OpenTarget, SameLength, memVars, diskVars, history
<1>7. CASE FillTarget
  <2>1. UNCHANGED <<cur, mem, work>> /\ pc \in DOMAIN After
    BY <1>7 DEF FillTarget, memVars
  <2>2. CASE UNCHANGED disk /\ pc = "writeback" /\ pc' = After[pc]
    BY <1>1, <2>1, <2>2 DEF SameLength
  <2>3. CASE disk' = [disk EXCEPT ![Target] = mem] /\ pc' = pc
    <3>1. (mem = Zeros /\ pc # "writeback") \/ SameLength(Target, mem)
      BY <2>1 DEF SameLength, Bin
    <3>2. Target \in Path /\ mem # Gone /\ (mem = Zeros => Target \notin Mod)
      BY <2>1, <3>1, SameLengthLong, GoneNotZeros
    <3>3. \A f \in Path : disk'[f] = IF f = Target THEN mem ELSE disk[f]
      BY <2>3
    <3>4. \A f \in Path : disk'[f] \in {Gone, Zeros} \/ SameLength(f, disk[f])'
      BY <1>1, <3>1, <3>2, <3>3 DEF SameLength
    <3>5. /\ \A m \in work : disk'[m] # Gone
          /\ disk'["vmlinuz"] # Gone /\ \A m \in Mod : disk'[m] # Zeros
      BY <3>2, <3>3
    <3>6. disk'[cur] \notin {Gone, Zeros} \/ mem = Zeros
      BY <2>1, <3>2, <3>3
    <3> QED
      BY <1>1, <2>1, <2>3, <3>4, <3>5, <3>6 DEF SameLength
  <2> QED
    BY <1>7, <2>2, <2>3 DEF FillTarget
<1>8. CASE CloseTarget
  BY <1>8, <1>1
  DEF CloseTarget, SameLength, memVars, diskVars, history
<1>9. CASE Unlink
  BY <1>9, <1>1
  DEF Unlink, SameLength, memVars, diskVars, history
<1>10. ASSUME NEW m \in Mod, RemoveModule(m)
      PROVE  ShapeInv'
  BY <1>10, <1>1, GoneNotZeros
  DEF RemoveModule, SameLength, memVars, diskVars, history
<1>11. CASE EndRemove
  BY <1>11, <1>1
  DEF EndRemove, SameLength, memVars, diskVars, history
<1>12. ASSUME NEW m \in work, LoadModule(m)
      PROVE  ShapeInv'
  BY <1>12, <1>1
  DEF LoadModule, SameLength, memVars, diskVars, history
<1>13. CASE WriteBack
  BY <1>13, <1>1
  DEF WriteBack, SameLength, memVars, diskVars, history
<1>14. CASE EndModules
  BY <1>14, <1>1
  DEF EndModules, SameLength, memVars, diskVars, history
<1>15. CASE ReadInitrd
  BY <1>15, <1>1
  DEF ReadInitrd, SameLength, memVars, diskVars, history
<1>16. CASE OpenInitrd
  BY <1>16, <1>1
  DEF OpenInitrd, SameLength, memVars, diskVars, history
<1>17. CASE FillInitrd
  BY <1>17, <1>1
  DEF FillInitrd, SameLength, memVars, diskVars, history
<1>18. CASE Kill
  BY <1>18, <1>1
  DEF Kill, Forget, Idle, SameLength, memVars, diskVars, history
<1>19. CASE UNCHANGED vars
  BY <1>19, <1>1
  DEF vars, SameLength, memVars, diskVars, history
<1> QED
  BY <1>8, <1>2, <1>3, <1>4, <1>5, <1>6, <1>7, <1>9, <1>10, <1>11,
     <1>12, <1>13, <1>14, <1>15, <1>16, <1>17, <1>18, <1>19 DEF Next

-----------------------------------------------------------------------------
\* The types.

\* The type invariant, with the type of what ReadInitrd prepares.
TypeInv == TypeOK /\ newrd.state \in {"none", "whole", "torn", "short"}

\* TypeInv holds initially.
LEMMA TypeInit ==
  ASSUME Init
  PROVE  TypeInv
<1>1. /\ pc = "off" /\ arg \in DOMAIN Profile /\ cur \in Path /\ work = {} /\ todo = {}
      /\ half = FALSE /\ cut = FALSE /\ torn = {} /\ blank = {} /\ runs = 0 /\ asked = {} /\ faults = {}
  BY ImageAssumption, KernelPaths DEF Init, KernFile
<1>2. \A f \in Path : disk[f] = Gone \/ disk[f] = Bin(f).text
  BY DEF Init
<1>3. initrd.state \in {"none", "whole"} /\ newrd = initrd
  BY ImageAssumption DEF Init
<1>4. runs \in 0..MaxRuns
  BY <1>1, ImageAssumption
<1>5. half \in BOOLEAN /\ ~half /\ cut \in BOOLEAN
  BY <1>1
<1>6. initrd.left \in 0..Len(initrd.arch)
  BY ControlInit DEF ControlInv
<1> QED
  BY <1>1, <1>2, <1>3, <1>4, <1>5, <1>6 DEF TypeInv, TypeOK, Idle

\* The functions still to be patched have symbols.
LEMMA TodoNext ==
  ASSUME ControlInv, ShapeInv, TypeInv, [Next]_vars
  PROVE  (todo \subseteq {Bin(cur).syms[k].name : k \in DOMAIN Bin(cur).syms})'
<1> DEFINE N(f) == {Bin(f).syms[k].name : k \in DOMAIN Bin(f).syms}
<1>1. todo \subseteq N(cur)
  BY DEF TypeInv, TypeOK
<1>2. \A f, s : Entries(f, s) # {} => s \in N(f)
  BY DEF Entries
<1>3. \A f : Bin(f)' = Bin(f)
  BY ImageKept
<1>4. \/ todo' = {}
      \/ cur' = cur /\ todo' \subseteq todo
      \/ \A s \in todo' : Entries(cur', s) # {}
  <2> DEFINE G == \/ todo' = {}
                  \/ cur' = cur /\ todo' \subseteq todo
                  \/ \A s \in todo' : Entries(cur', s) # {}
  <2>1. LoadKernel => G
    BY DEF LoadKernel
  <2>2. ASSUME NEW m \in work, LoadModule(m) PROVE G
    <3>1. CASE UNCHANGED <<cur, todo>>
      BY <3>1
    <3>2. CASE /\ cur' = m
               /\ todo' = {k[1] : k \in {x \in Profile[arg].kos :
                                            x[2] = m /\ Entries(m, x[1]) # {}}}
      BY <3>2
    <3> QED
      BY <2>2, <3>1, <3>2 DEF LoadModule
  <2>3. UNCHANGED <<cur, todo>> => G
    OBVIOUS
  <2>4. ASSUME NEW s \in todo, PatchSym(s) PROVE G
    BY <2>4 DEF PatchSym
  <2>5. (\E p \in DOMAIN Profile : Start(p)) \/ Kill => G
    BY DEF Start, Kill, Forget
  <2>6. (\E size \in Sizes \cup {0} : Repack(size)) => UNCHANGED <<cur, todo>>
    BY DEF Repack
  <2>7. OpenTarget \/ FillTarget \/ CloseTarget \/ Unlink \/ WriteBack \/ EndModules \/ UNCHANGED vars
          => UNCHANGED <<cur, todo>>
    BY DEF OpenTarget, FillTarget, CloseTarget, Unlink, WriteBack, EndModules, vars, memVars
  <2>8. (\E m \in Mod : RemoveModule(m)) \/ EndRemove => UNCHANGED <<cur, todo>>
    BY DEF RemoveModule, EndRemove, memVars
  <2>9. ReadInitrd \/ OpenInitrd \/ FillInitrd => UNCHANGED <<cur, todo>>
    BY DEF ReadInitrd, OpenInitrd, FillInitrd, memVars
  <2> HIDE DEF G
  <2>10. G
    BY <2>1, <2>2, <2>3, <2>4, <2>5, <2>6, <2>7, <2>8, <2>9 DEF Next
  <2> QED
    BY <2>10 DEF G
<1> HIDE DEF N
<1>5. todo' \subseteq N(cur')
  BY <1>1, <1>2, <1>4
<1> QED
  BY <1>3, <1>5 DEF N

\* TypeInv is kept: lengths are those of ShapeInv, names those of TodoNext.
LEMMA TypeNext ==
  ASSUME ControlInv, ShapeInv, ShapeInv', TypeInv, [Next]_vars
  PROVE  TypeInv'
<1> DEFINE States == {"none", "whole", "torn", "short"}
           Rest == /\ pc \in Idle \cup DOMAIN After \cup
                         {"kernel", "patch", "unlink", "remove", "modules", "initrd", "writerd"}
                   /\ arg \in DOMAIN Profile
                   /\ cut \in BOOLEAN /\ half \in BOOLEAN /\ (half => pc \in DOMAIN After \cup {"writerd"})
                   /\ torn \subseteq Path /\ initrd.state \in States
                   /\ newrd.state \in States
                   /\ runs \in 0..MaxRuns /\ asked \subseteq DOMAIN Profile
                   /\ faults \subseteq Faults \cup {"damage"}
<1>1. (\A f \in Path : disk[f] \in {Gone, Zeros} \/ Len(disk[f]) = Len(Bin(f).text))'
  BY DEF ShapeInv, SameLength
<1>2. (cur \in Path /\ work \subseteq Mod)'
  BY ControlNext, KernelPaths DEF ShapeInv, ControlInv, KernFile
<1>3. (todo \subseteq {Bin(cur).syms[k].name : k \in DOMAIN Bin(cur).syms})'
  BY TodoNext
<1>4. Rest
  BY DEF TypeInv, TypeOK
<1>5. (blank \subseteq torn /\ initrd.left \in 0..Len(initrd.arch))'
  BY ControlNext DEF ControlInv
<1>6. SUFFICES Rest'
  BY <1>1, <1>2, <1>3, <1>5 DEF TypeInv, TypeOK
<1> USE <1>4, AfterWriting, TargetOf, KernelPaths DEF Idle
<1>7. ASSUME NEW p \in DOMAIN Profile, Start(p)
      PROVE  Rest'
  <2>1. runs' \in 0..MaxRuns
    BY ONLY <1>7, <1>4, ImageAssumption DEF Start
  <2> QED
    BY <1>7, <2>1 DEF Start, Forget, diskVars
<1>8. CASE LoadKernel
  <2>1. cut' \in BOOLEAN
    <3>1. cut' = cut \/ cut' = ("vmlinuz" \in torn)
      BY <1>8 DEF LoadKernel
    <3>2. ("vmlinuz" \in torn) \in BOOLEAN
      OBVIOUS
    <3> QED
      BY ONLY <3>1, <3>2, cut \in BOOLEAN, Zenon
  <2>2. /\ pc' \in {"failed", "patch"} /\ faults' \subseteq faults \cup {"damage"}
        /\ half' = half /\ pc = "kernel"
        /\ UNCHANGED <<arg, torn, initrd, newrd, runs, asked>>
    BY <1>8, Zenon DEF LoadKernel, diskVars
  <2> QED
    BY <2>1, <2>2
<1>9. ASSUME NEW s \in todo, PatchSym(s)
      PROVE  Rest'
  BY <1>9
  DEF PatchSym, memVars, diskVars, history
<1>10. ASSUME NEW size \in Sizes \cup {0}, Repack(size)
      PROVE  Rest'
  BY <1>10
  DEF Repack, memVars, diskVars, history
<1>11. CASE OpenTarget
  BY <1>11
  DEF OpenTarget, ControlInv, KernFile, memVars, diskVars, history
<1>12. CASE FillTarget
  BY <1>12
  DEF FillTarget, memVars, diskVars, history
<1>13. CASE CloseTarget
  BY <1>13
  DEF CloseTarget, memVars, diskVars, history
<1>14. CASE Unlink
  BY <1>14
  DEF Unlink, memVars, diskVars, history
<1>15. ASSUME NEW m \in Mod, RemoveModule(m)
      PROVE  Rest'
  BY <1>15
  DEF RemoveModule, memVars, diskVars, history
<1>16. CASE EndRemove
  BY <1>16
  DEF EndRemove, memVars, diskVars, history
<1>17. ASSUME NEW m \in work, LoadModule(m)
      PROVE  Rest'
  <2>1. cut' \in BOOLEAN
    <3>1. cut' = cut \/ cut' = (m \in torn)
      BY <1>17 DEF LoadModule
    <3>2. (m \in torn) \in BOOLEAN
      OBVIOUS
    <3> QED
      BY ONLY <3>1, <3>2, cut \in BOOLEAN, Zenon
  <2>2. /\ pc = "modules" /\ pc' \in {"failed", "patch"} /\ half' = half
        /\ UNCHANGED <<arg, torn, initrd, newrd, runs, asked, faults>>
    BY <1>17, Zenon DEF LoadModule, diskVars, history
  <2> QED
    BY <2>1, <2>2
<1>18. CASE WriteBack
  BY <1>18
  DEF WriteBack, memVars, diskVars, history
<1>19. CASE EndModules
  BY <1>19
  DEF EndModules, memVars, diskVars, history
<1>20. CASE ReadInitrd
  <2>1. newrd'.state \in States
    BY <1>20, ReadFacts, NewInitrdFacts DEF ControlInv, ShortInitrd
  <2> QED
    BY <1>20, <2>1, ImageAssumption DEF ReadInitrd, diskVars
<1>21. CASE OpenInitrd
  BY <1>21
  DEF OpenInitrd, memVars, diskVars, history
<1>22. CASE FillInitrd
  BY <1>22
  DEF FillInitrd, memVars, diskVars, history
<1>23. CASE Kill
  BY <1>23
  DEF Kill, Forget, memVars, diskVars, history
<1>24. CASE UNCHANGED vars
  BY <1>24
  DEF vars, memVars, diskVars, history
<1> QED
  BY <1>13, <1>7, <1>8, <1>9, <1>10, <1>11, <1>12, <1>14, <1>15, <1>16,
     <1>17, <1>18, <1>19, <1>20, <1>21, <1>22, <1>23, <1>24 DEF Next

\* The type invariant, for any image, profiles, number of runs and faults:
\* what is in memory has the length of the file it came from, and the functions
\* still to be patched have symbols (hwfilter.py:506-571, 671-767).
THEOREM PatchTypeCorrect == Spec => []TypeOK
<1> DEFINE Inv == ControlInv /\ ShapeInv /\ TypeInv
<1>1. Init => Inv
  BY ControlInit, ShapeInit, TypeInit
<1>2. Inv /\ [Next]_vars => Inv'
  BY ControlNext, ShapeNext, TypeNext
<1>3. Inv => TypeOK
  BY DEF TypeInv
<1> HIDE DEF Inv
<1> QED
  BY <1>1, <1>2, <1>3, PTL DEF Spec

-----------------------------------------------------------------------------
\* Names and functions.

\* The symbol patched for a name is the one meant by it, and the only one.
LEMMA EntryMeant ==
  ASSUME image \in Images, NEW f \in Path, NEW s
  PROVE  /\ Entries(f, s) # {} => /\ Entry(f, s) \in Entries(f, s)
                                  /\ Entry(f, s) \in DOMAIN Bin(f).syms
                                  /\ Bin(f).syms[Entry(f, s)].name = s
                                  /\ Meant(f, Entry(f, s))
         /\ \A k \in DOMAIN Bin(f).syms :
              Bin(f).syms[k].name = s /\ Meant(f, k) => k \in Entries(f, s) /\ k = Entry(f, s)
<1> DEFINE e == Bin(f).syms
           K == Entries(f, s)
           G == {k \in K : e[k].ty = "T"}
           n == Len(e)
<1>1. n \in Nat /\ DOMAIN e = 1..n
  BY BinIsCode DEF IsCode
<1>2. K \in SUBSET (1..n) /\ G \in SUBSET (1..n) /\ G \subseteq K
  BY <1>1 DEF Entries
<1>3. \A k \in DOMAIN e : k \in K <=> /\ e[k].name = s
                                      /\ f \in KernFile => e[k].ty \in {"T", "t", "W", "w"}
  BY DEF Entries
<1>4. f \in KernFile => \A j, k \in G : j = k
  BY <1>1, <1>2, <1>3, CodeAssumption DEF Bin
<1>5. K # {} => /\ FirstOf(K) \in K /\ \A j \in K : FirstOf(K) <= j
                /\ LastOf(K) \in K /\ \A j \in K : j <= LastOf(K)
  <2> HIDE DEF K, n
  <2> QED
    BY <1>1, <1>2, FirstAndLast
<1>6. G # {} => LastOf(G) \in G
  <2> HIDE DEF G, n
  <2> QED
    BY <1>1, <1>2, FirstAndLast
<1>7. Entry(f, s) = IF f \in KernFile /\ G = {} THEN FirstOf(K)
                    ELSE IF f \in KernFile THEN LastOf(G) ELSE LastOf(K)
  BY DEF Entry
<1>8. \A k \in DOMAIN e : e[k].name = s =>
        (Meant(f, k) <=>
           IF f \in Mod THEN \A j \in K : j <= k
           ELSE \/ e[k].ty = "T"
                \/ e[k].ty \in {"t", "W", "w"} /\ \A j \in K : k <= j /\ e[j].ty # "T")
  <2> SUFFICES ASSUME NEW k \in DOMAIN e, e[k].name = s
               PROVE  {j \in DOMAIN e : /\ e[j].name = e[k].name
                                        /\ f \in Mod \/ e[j].ty \in {"T", "t", "W", "w"}} = K
    BY DEF Meant
  <2> QED
    BY <1>2, <1>3, ImageAssumption DEF Path
<1>9. (f \in Mod /\ f \notin KernFile) \/ (f \in KernFile /\ f \notin Mod)
  BY ImageAssumption DEF Path
<1>10. \A k \in K : k \in Nat
  BY <1>2
<1> HIDE DEF K, G, n, e
<1>11. ASSUME K # {}
       PROVE  Entry(f, s) \in K /\ Meant(f, Entry(f, s))
  <2>1. CASE f \in Mod
    <3>1. Entry(f, s) = LastOf(K)
      BY <1>7, <1>9, <2>1
    <3> QED
      BY <1>1, <1>2, <1>3, <1>5, <1>8, <1>11, <2>1, <3>1
  <2>2. CASE f \in KernFile /\ G = {}
    <3>1. Entry(f, s) = FirstOf(K)
      BY <1>7, <2>2
    <3>2. \A j \in K : e[j].ty # "T"
      BY <2>2 DEF G
    <3> QED
      BY <1>1, <1>2, <1>3, <1>5, <1>8, <1>9, <1>11, <2>2, <3>1, <3>2
  <2>3. CASE f \in KernFile /\ G # {}
    <3>1. Entry(f, s) = LastOf(G)
      BY <1>7, <2>3
    <3>2. Entry(f, s) \in K /\ e[Entry(f, s)].ty = "T"
      BY <1>6, <2>3, <3>1 DEF G
    <3> QED
      BY <1>1, <1>2, <1>3, <1>8, <1>9, <2>3, <3>2
  <2> QED
    BY <1>9, <2>1, <2>2, <2>3
<1>12. ASSUME NEW k \in DOMAIN e, e[k].name = s, Meant(f, k)
       PROVE  k \in K /\ k = Entry(f, s)
  <2>1. k \in K
    BY <1>3, <1>8, <1>9, <1>12
  <2>2. CASE f \in Mod
    <3>1. \A j \in K : j <= k
      BY <1>8, <1>12, <2>2
    <3>2. LastOf(K) \in K /\ k <= LastOf(K)
      BY <1>5, <2>1
    <3>3. LastOf(K) = k
      <4>1. k <= LastOf(K) /\ LastOf(K) <= k
        BY <2>1, <3>1, <3>2
      <4>2. k \in Nat /\ LastOf(K) \in Nat
        BY <1>10, <2>1, <3>2
      <4> QED
        BY ONLY <4>1, <4>2
    <3> QED
      BY <1>7, <1>9, <2>1, <2>2, <3>3
  <2>3. CASE f \in KernFile /\ e[k].ty = "T"
    <3>1. k \in G
      BY <2>1, <2>3 DEF G
    <3> QED
      BY <1>4, <1>6, <1>7, <2>1, <2>3, <3>1
  <2>4. CASE f \in KernFile /\ e[k].ty # "T"
    <3>1. \A j \in K : k <= j /\ e[j].ty # "T"
      BY <1>8, <1>9, <1>12, <2>4
    <3>2. G = {}
      BY <3>1 DEF G
    <3>3. FirstOf(K) \in K /\ FirstOf(K) <= k
      BY <1>5, <2>1
    <3>4. FirstOf(K) = k
      <4>1. k <= FirstOf(K) /\ FirstOf(K) <= k
        BY <2>1, <3>1, <3>3
      <4>2. k \in Nat /\ FirstOf(K) \in Nat
        BY <1>10, <2>1, <3>3
      <4> QED
        BY ONLY <4>1, <4>2
    <3> QED
      BY <1>7, <2>1, <2>4, <3>2, <3>4
  <2> QED
    BY <1>9, <2>2, <2>3, <2>4
<1>13. \A k \in K : k \in DOMAIN e /\ e[k].name = s
  BY <1>1, <1>2, <1>3
<1> QED
  BY <1>11, <1>12, <1>13 DEF K, e

\* If no walk strays, every function that is listed is where patch_kernel looks
\* for it, and the walk stays in it.
LEMMA ListedTame ==
  ASSUME NEW f \in Mod \cup {"vmlinuz"}, ~Strays(f),
         NEW k \in DOMAIN Bin(f).syms, Bin(f).syms[k].name \in Listed(f), Meant(f, k)
  PROVE  Tame(Bin(f), k, f = "vmlinuz") /\ Place(f, k) = Bin(f).syms[k].off
<1> DEFINE code == {Bin(f).text[i] : i \in Insns(f, k)}
<1>1. f \in Mod \/ f = "vmlinuz"
  OBVIOUS
<1>2. Cardinality(Insns(f, k)) <= MaxInsn =>
        ~(code \cap (Jump \cup {"ret"}) = {} \/ (f \in Mod /\ code \cap {"sjmp", "loop"} # {}))
  BY DEF Strays
<1>3. Place(f, k) = Bin(f).syms[k].off
  BY DEF Strays
<1> QED
  BY <1>1, <1>2, <1>3 DEF Tame, Insns

\* Patching function k in memory along the walk over the file: k returns
\* afterwards unless capstone failed, and no other function is touched.
LEMMA PatchSound ==
  ASSUME NEW b, IsCode(b), NEW k \in DOMAIN b.syms, NEW va \in BOOLEAN, Tame(b, k, va),
         NEW d, SameShape(b, d), Untouched(b, k, d) \/ Stubbed(b, k, d),
         NEW t, SameShape(b, t), Untouched(b, k, t) \/ Stubbed(b, k, t),
         Stubbed(b, k, d) => Stubbed(b, k, t),
         NEW u, u = PatchRange(t, b.syms[k].off, disasm(d, b.syms[k].off, va).off).data
  PROVE  /\ SameShape(b, u)
         /\ Untouched(b, k, u) \/ Stubbed(b, k, u)
         /\ Stubbed(b, k, t) => Stubbed(b, k, u)
         /\ \/ \E i \in b.syms[k].off..(b.syms[k].end - 1) : b.text[i] = "bad"
            \/ Stubbed(b, k, u)
         /\ \A j \in DOMAIN b.syms :
              /\ j # k /\ Untouched(b, j, t) => Untouched(b, j, u)
              /\ j # k /\ Stubbed(b, j, t) => Stubbed(b, j, u)
              /\ Disabled(t, b.syms[j].off) => Disabled(u, b.syms[j].off)
<1> DEFINE off == b.syms[k].off
           e == disasm(d, off, va).off
           p == PatchRange(t, off, e)
<1>1. /\ e \in Nat /\ e <= b.syms[k].end
      /\ Boundary(b.text, e) \/ (Stubbed(b, k, t) /\ e = StubEnd(b, k) + 1)
      /\ \/ \E i \in off..(b.syms[k].end - 1) : b.text[i] = "bad"
         \/ StubEnd(b, k) < e
  <2>1. CASE Untouched(b, k, d)
    BY <2>1, WalkUntouched
  <2>2. CASE Stubbed(b, k, d)
    <3>1. e = StubEnd(b, k) + 1
      BY <2>2, WalkStubbed
    <3>2. /\ StubEnd(b, k) \in Nat /\ StubEnd(b, k) < b.syms[k].end
          /\ b.syms[k].end \in Nat /\ Stubbed(b, k, t)
      BY <2>2, StubFacts, FunctionFacts DEF Stubbed
    <3> HIDE DEF e
    <3> QED
      BY <3>1, <3>2
  <2> QED
    BY <2>1, <2>2
<1> HIDE DEF e
<1>2. /\ SameShape(b, p.data)
      /\ \A i \in DOMAIN t : i < StubEnd(b, k) \/ i >= e => p.data[i] = t[i]
      /\ \A i \in DOMAIN t : p.data[i] \in {t[i], "ret", "nop"}
      /\ ~p.ret_patched => p.data = t
      /\ p.ret_patched => Stubbed(b, k, p.data)
      /\ StubEnd(b, k) < e => p.ret_patched
  BY <1>1, PatchFunction
<1>3. u = p.data
  BY DEF e
<1> HIDE DEF p
<1>4. u = t \/ Stubbed(b, k, u)
  BY <1>2, <1>3
<1>5. \A j \in DOMAIN b.syms :
        /\ j # k /\ Untouched(b, j, t) => Untouched(b, j, u)
        /\ j # k /\ Stubbed(b, j, t) => Stubbed(b, j, u)
        /\ Disabled(t, b.syms[j].off) => Disabled(u, b.syms[j].off)
  BY <1>1, <1>2, <1>3, <1>4, PatchOthers
<1> QED
  BY <1>1, <1>2, <1>3, <1>4, <1>5

-----------------------------------------------------------------------------
\* The code on the disk and in memory.

\* The functions of file f that some run was asked to disable.
Chosen(f) ==
  {k \in DOMAIN Bin(f).syms : Bin(f).syms[k].name \in Listed(f) /\ Meant(f, k)}

\* Every function of code t is as it was, or one of K that returns at once.
Sound(b, K, t) ==
  /\ SameShape(b, t)
  /\ \A k \in DOMAIN b.syms : Untouched(b, k, t) \/ (k \in K /\ Stubbed(b, k, t))

\* What returns at once in code d does so in code t.
Carried(b, d, t) ==
  \A k \in DOMAIN b.syms :
    /\ Stubbed(b, k, d) => Stubbed(b, k, t)
    /\ Disabled(d, b.syms[k].off) => Disabled(t, b.syms[k].off)

\* Every file that holds code is sound, and so is the code in memory, which
\* started as a copy of the file on the disk.
CodeInv ==
  /\ \A f \in Path : disk[f] \in {Gone, Zeros} \/ Strays(f) \/ Sound(Bin(f), Chosen(f), disk[f])
  /\ pc \in Busy => \/ mem = Zeros \/ Strays(cur)
                    \/ /\ Sound(Bin(cur), Chosen(cur), mem)
                       /\ Carried(Bin(cur), disk[cur], mem)
  /\ pc = "patch" => \A s \in todo : s \in ListedBy(arg, cur) /\ Entries(cur, s) # {}

\* The files of the kernel have the same functions.
LEMMA KernelAlike ==
  ASSUME NEW f \in KernFile, NEW g \in KernFile
  PROVE  /\ Bin(f) = Bin(g) /\ Chosen(f) = Chosen(g)
         /\ Strays(f) <=> Strays(g)
<1>1. f \notin Mod /\ g \notin Mod
  BY ImageAssumption
<1>2. Bin(f) = Bin(g) /\ Listed(f) = Listed(g)
  BY DEF Bin, Listed, ListedBy
<1>3. \A k : (Meant(f, k) <=> Meant(g, k)) /\ Insns(f, k) = Insns(g, k)
  BY <1>1, <1>2 DEF Meant, Insns
<1>4. \A k : Place(f, k) = Place(g, k)
  BY <1>2 DEF Place
<1> QED
  BY <1>1, <1>2, <1>3, <1>4 DEF Chosen, Strays

\* Later runs list more.
LEMMA ListedGrows ==
  ASSUME [Next]_vars
  PROVE  /\ \A f, s : Entries(f, s)' = Entries(f, s)
         /\ \A f : Listed(f) \subseteq Listed(f)' /\ Chosen(f) \subseteq Chosen(f)'
         /\ \A f : Strays(f) => Strays(f)'
<1>1. \A f : Bin(f)' = Bin(f)
  BY ImageKept
<1>2. asked \subseteq asked'
  BY DEF Next, vars, history, Start, LoadKernel, PatchSym, Repack, OpenTarget, FillTarget,
     CloseTarget, Unlink, RemoveModule, EndRemove, LoadModule, WriteBack, EndModules, ReadInitrd,
     OpenInitrd, FillInitrd, Kill
<1>3. ASSUME NEW f, NEW s PROVE Entries(f, s)' = Entries(f, s)
  BY <1>1 DEF Entries
<1>4. ASSUME NEW f PROVE Listed(f) \subseteq Listed(f)'
  BY <1>2 DEF Listed
<1>5. ASSUME NEW f, NEW k PROVE Meant(f, k)' <=> Meant(f, k)
  BY <1>1 DEF Meant
<1>6. ASSUME NEW f, NEW k PROVE Insns(f, k)' = Insns(f, k)
  BY <1>1 DEF Insns
<1>7. ASSUME NEW f PROVE Chosen(f) \subseteq Chosen(f)'
  BY <1>1, <1>4, <1>5 DEF Chosen
<1>8. ASSUME NEW f, Strays(f) PROVE Strays(f)'
  <2>1. PICK k \in DOMAIN Bin(f).syms :
          /\ Bin(f).syms[k].name \in Listed(f) /\ Meant(f, k)
          /\ \/ Place(f, k) # Bin(f).syms[k].off
             \/ /\ Cardinality(Insns(f, k)) <= MaxInsn
                /\ LET code == {Bin(f).text[i] : i \in Insns(f, k)}
                   IN  \/ code \cap (Jump \cup {"ret"}) = {}
                       \/ f \in Mod /\ code \cap {"sjmp", "loop"} # {}
    BY <1>8 DEF Strays
  <2>2. /\ Bin(f)' = Bin(f) /\ Insns(f, k)' = Insns(f, k) /\ Meant(f, k)'
        /\ Place(f, k)' = Place(f, k)
    BY <1>1, <1>5, <1>6, <2>1 DEF Place
  <2>3. Bin(f).syms[k].name \in Listed(f)'
    BY <1>4, <2>1
  <2> QED
    BY <2>1, <2>2, <2>3 DEF Strays
<1> QED
  BY <1>3, <1>4, <1>7, <1>8

\* Code carries over what it has itself.
LEMMA CarriedSelf ==
  ASSUME NEW b, NEW t
  PROVE  Carried(b, t, t)
BY DEF Carried

\* CodeInv: the tree as extracted is untouched.
LEMMA CodeInit ==
  ASSUME Init
  PROVE  CodeInv
<1>1. \A f \in Path : disk[f] = Gone \/ disk[f] = Bin(f).text
  BY DEF Init
<1>2. ASSUME NEW f \in Path PROVE Sound(Bin(f), Chosen(f), Bin(f).text)
  <2>1. Bin(f).text \in Seq(STRING)
    BY BinIsCode DEF Init, IsCode
  <2> QED
    BY <2>1 DEF Sound, SameShape, Untouched
<1> QED
  BY <1>1, <1>2 DEF Init, CodeInv, Busy

\* CodeInv: PatchSym keeps the code in memory sound, FillTarget writes it.
LEMMA CodeNext ==
  ASSUME ControlInv, ShapeInv, InitrdInv, CodeInv, [Next]_vars
  PROVE  CodeInv'
<1> USE AfterWriting, TargetOf, KernelPaths DEF ControlInv, ShapeInv, CodeInv, Busy, KernFile
<1>1. /\ \A f : Bin(f)' = Bin(f)
      /\ \A f, s : Entries(f, s)' = Entries(f, s)
      /\ \A f : Strays(f) => Strays(f)'
      /\ \A f, t : Sound(Bin(f), Chosen(f), t) => Sound(Bin(f), Chosen(f)', t)
  <2>1. ASSUME NEW f, NEW t, Sound(Bin(f), Chosen(f), t)
        PROVE  Sound(Bin(f), Chosen(f)', t)
    BY <2>1, ListedGrows DEF Sound
  <2> QED
    BY <2>1, ImageKept, ListedGrows
<1>2. ASSUME NEW p \in DOMAIN Profile, Start(p)
      PROVE  CodeInv'
  BY <1>2, <1>1
  DEF Start, Forget, Idle, memVars, diskVars, history
<1>3. CASE LoadKernel
  BY <1>3, <1>1, CarriedSelf
  DEF LoadKernel, ListedBy, memVars, diskVars, history
<1>4. ASSUME NEW s \in todo, PatchSym(s)
      PROVE  CodeInv'
  <2> DEFINE b == Bin(cur)
             k == Entry(cur, s)
             va == cur = "vmlinuz"
             off == b.syms[k].off
             K == Chosen(cur)
             u == PatchRange(mem, off, disasm(disk[cur], off, va).off).data
  <2>1. /\ pc = "patch" /\ UNCHANGED <<image, arg, cur, disk, asked>>
        /\ \/ pc' = "failed"
           \/ pc' = "patch" /\ todo' \subseteq todo /\ (Off(cur, s) = off => mem' = u)
    BY <1>4 DEF PatchSym, diskVars, history
  <2>2. CASE pc' = "failed"
    BY <1>1, <2>1, <2>2
  <2>3. CASE Strays(cur) /\ pc' = "patch"
    BY <1>1, <2>1, <2>3
  <2>4. CASE ~Strays(cur) /\ pc' = "patch"
    <3>1. disk[cur] \notin {Gone, Zeros} /\ mem # Zeros /\ cur \in Path
      BY <2>1, SameLengthLong
    <3>2. Sound(b, K, disk[cur]) /\ Sound(b, K, mem) /\ Carried(b, disk[cur], mem)
      BY <2>1, <2>4, <3>1
    <3>3. IsCode(b)
      BY <3>1, BinIsCode
    <3>4. s \in Listed(cur) /\ Entries(cur, s) # {}
      BY <2>1 DEF InitrdInv, Listed
    <3>5. k \in DOMAIN b.syms /\ b.syms[k].name = s /\ Meant(cur, k)
      BY <3>1, <3>4, EntryMeant
    <3>6. k \in K
      BY <3>4, <3>5 DEF Chosen
    <3>7. Tame(b, k, va) /\ mem' = u
      BY <2>1, <2>4, <3>4, <3>5, ListedTame DEF Off
    <3>8. va \in BOOLEAN
      OBVIOUS
    <3> HIDE DEF b, k, va, K, off
    <3>9. /\ Untouched(b, k, disk[cur]) \/ Stubbed(b, k, disk[cur])
          /\ Untouched(b, k, mem) \/ Stubbed(b, k, mem)
          /\ Stubbed(b, k, disk[cur]) => Stubbed(b, k, mem)
          /\ SameShape(b, disk[cur]) /\ SameShape(b, mem)
      BY <3>2, <3>5 DEF Sound, Carried
    <3>10. /\ SameShape(b, u)
           /\ Untouched(b, k, u) \/ Stubbed(b, k, u)
           /\ Stubbed(b, k, mem) => Stubbed(b, k, u)
           /\ \A j \in DOMAIN b.syms :
                /\ j # k /\ Untouched(b, j, mem) => Untouched(b, j, u)
                /\ j # k /\ Stubbed(b, j, mem) => Stubbed(b, j, u)
                /\ Disabled(mem, b.syms[j].off) => Disabled(u, b.syms[j].off)
      BY <3>3, <3>5, <3>7, <3>8, <3>9, PatchSound DEF off
    <3> HIDE DEF u
    <3>11. Sound(b, K, u) /\ Carried(b, disk[cur], u)
      BY <3>2, <3>6, <3>10 DEF Sound, Carried
    <3> QED
      BY <1>1, <2>1, <2>4, <3>7, <3>11 DEF b, K
  <2> QED
    BY <2>1, <2>2, <2>3, <2>4
<1>5. ASSUME NEW size \in Sizes \cup {0}, Repack(size)
      PROVE  CodeInv'
  BY <1>5, <1>1
  DEF Repack, memVars, diskVars, history
<1>6. CASE OpenTarget
  BY <1>6, <1>1
  DEF OpenTarget, memVars, diskVars, history
<1>7. CASE FillTarget
  <2>1. UNCHANGED <<cur, mem>> /\ pc \in DOMAIN After
    BY <1>7 DEF FillTarget, memVars
  <2>2. CASE UNCHANGED disk /\ pc = "writeback" /\ pc' = After[pc]
    BY <1>1, <2>1, <2>2
  <2>3. CASE disk' = [disk EXCEPT ![Target] = mem] /\ pc' = pc
    <3>1. Target = cur \/ (Target \in KernFile /\ cur \in KernFile)
      BY <2>1
    <3>2. /\ Bin(Target) = Bin(cur) /\ Chosen(Target) = Chosen(cur)
          /\ Strays(Target) <=> Strays(cur)
      BY <3>1, KernelAlike
    <3>3. mem = Zeros \/ Strays(Target) \/ Sound(Bin(Target), Chosen(Target), mem)
      BY <2>1, <3>2
    <3>4. \A f \in Path : disk'[f] = IF f = Target THEN mem ELSE disk[f]
      BY <2>3
    <3>5. \A f \in Path : \/ disk'[f] \in {Gone, Zeros} \/ Strays(f)
                          \/ Sound(Bin(f), Chosen(f), disk'[f])
      BY <3>3, <3>4
    <3>6. \A f \in Path : \/ disk'[f] \in {Gone, Zeros} \/ Strays(f)'
                          \/ Sound(Bin(f), Chosen(f), disk[f])'
      BY <1>1, <3>5
    <3>7. disk'[cur] \in {disk[cur], mem}
      BY <3>4
    <3>8. \/ mem = Zeros \/ Strays(cur)
          \/ Sound(Bin(cur), Chosen(cur), mem) /\ Carried(Bin(cur), disk'[cur], mem)
      BY <2>1, <3>7, CarriedSelf
    <3> QED
      BY <1>1, <2>1, <2>3, <3>6, <3>8
  <2> QED
    BY <1>7, <2>2, <2>3 DEF FillTarget
<1>8. CASE CloseTarget
  BY <1>8, <1>1
  DEF CloseTarget, memVars, diskVars, history
<1>9. CASE Unlink
  BY <1>9, <1>1
  DEF Unlink, memVars, diskVars, history
<1>10. ASSUME NEW m \in Mod, RemoveModule(m)
      PROVE  CodeInv'
  BY <1>10, <1>1
  DEF RemoveModule, memVars, diskVars, history
<1>11. CASE EndRemove
  BY <1>11, <1>1
  DEF EndRemove, memVars, diskVars, history
<1>12. ASSUME NEW m \in work, LoadModule(m)
      PROVE  CodeInv'
  <2>1. m \in Mod /\ disk[m] \notin {Gone, Zeros} /\ UNCHANGED <<arg, disk>>
    BY <1>12 DEF LoadModule, diskVars
  <2>2. CASE pc' = "failed"
    BY <1>1, <2>1, <2>2
  <2>3. CASE /\ pc' = "patch" /\ cur' = m /\ mem' = disk[m]
             /\ todo' = {k[1] : k \in {x \in Profile[arg].kos :
                                          x[2] = m /\ Entries(m, x[1]) # {}}}
    <3>1. \A s \in todo' : s \in ListedBy(arg, m) /\ Entries(m, s) # {}
      BY <2>1, <2>3 DEF ListedBy
    <3>2. Strays(m)' \/ Sound(Bin(m), Chosen(m), disk[m])'
      BY <1>1, <2>1
    <3> QED
      BY <1>1, <2>1, <2>3, <3>1, <3>2, CarriedSelf
  <2> QED
    BY <1>12, <2>2, <2>3 DEF LoadModule
<1>13. CASE WriteBack
  BY <1>13, <1>1
  DEF WriteBack, memVars, diskVars, history
<1>14. CASE EndModules
  BY <1>14, <1>1
  DEF EndModules, memVars, diskVars, history
<1>15. CASE ReadInitrd
  BY <1>15, <1>1
  DEF ReadInitrd, memVars, diskVars, history
<1>16. CASE OpenInitrd
  BY <1>16, <1>1
  DEF OpenInitrd, memVars, diskVars, history
<1>17. CASE FillInitrd
  BY <1>17, <1>1
  DEF FillInitrd, memVars, diskVars, history
<1>18. CASE Kill
  BY <1>18, <1>1
  DEF Kill, Forget, Idle, memVars, diskVars, history
<1>19. CASE UNCHANGED vars
  BY <1>19, <1>1
  DEF vars, memVars, diskVars, history
<1> QED
  BY <1>8, <1>2, <1>3, <1>4, <1>5, <1>6, <1>7, <1>9, <1>10, <1>11,
     <1>12, <1>13, <1>14, <1>15, <1>16, <1>17, <1>18, <1>19 DEF Next

\* For any code of whole functions and any runs, a function that nobody listed
\* is as it was, byte for byte, in every file whose code can be read
\* (disasm.py:72-92, hwfilter.py:506-516).
THEOREM NothingElsePatched == Spec => []OthersKept
<1> DEFINE Inv == ControlInv /\ ShapeInv /\ InitrdInv /\ CodeInv
<1>1. Init => Inv
  BY ControlInit, ShapeInit, InitrdInit, CodeInit
<1>2. Inv /\ [Next]_vars => Inv'
  BY ControlNext, ShapeNext, InitrdNext, CodeNext
<1>3. Inv => OthersKept
  BY DEF CodeInv, OthersKept, Readable, Sound, Chosen, Untouched
<1> HIDE DEF Inv
<1> QED
  BY <1>1, <1>2, <1>3, PTL DEF Spec

-----------------------------------------------------------------------------
\* The modules in the initrd.

\* No module comes back, and a run that ends normally left out those it removes.
RemovedInv ==
  /\ initrd.state = "none" => PackedMods(initrd) = {}
  /\ pc = "writerd" => newrd.state # "none" /\ AllMods(newrd) \subseteq AllMods(initrd)
  /\ "tool" \notin faults =>
       /\ pc = "writerd" => \A m \in PackedMods(newrd) : ~Removed(m)
       /\ pc = "done" => \A m \in PackedMods(initrd) : ~Removed(m)

\* RemovedInv holds in the tree as extracted.
LEMMA RemovedInit ==
  ASSUME Init
  PROVE  RemovedInv
<1>1. initrd = image.initrd /\ image \in Images /\ pc = "off"
  BY DEF Init
<1>2. initrd.state = "none" => initrd.arch = <<>>
  BY <1>1, ImageAssumption
<1>3. initrd.state = "none" => PackedMods(initrd) = {}
  BY <1>2 DEF PackedMods
<1> QED
  BY <1>1, <1>3 DEF RemovedInv

\* The new initrd has modules of the old one, the packed ones none to remove.
LEMMA NewMods ==
  ASSUME initrd.arch \in Archives, initrd.left \in 0..Len(initrd.arch)
  PROVE  /\ NewInitrd(Unpacked).state # "none"
         /\ AllMods(NewInitrd(Unpacked)) \subseteq AllMods(initrd)
         /\ \A m \in PackedMods(NewInitrd(Unpacked)) : ~Removed(m)
<1> DEFINE r == NewInitrd(Unpacked)
<1>1. /\ r.arch \in Archives /\ Len(r.arch) = Len(Unpacked) /\ r.state # "none"
      /\ \A i \in 1..Len(Unpacked) :
           /\ r.arch[i].mods \subseteq initrd.arch[i].mods
           /\ r.arch[i].packed => \A m \in r.arch[i].mods : ~Removed(m)
  BY NewInitrdFacts
<1>2. DOMAIN r.arch = 1..Len(Unpacked) /\ 1..Len(Unpacked) \subseteq DOMAIN initrd.arch
  BY <1>1, UnpackedFacts DEF Archives
<1> HIDE DEF r
<1>3. AllMods(r) \subseteq AllMods(initrd)
  BY <1>1, <1>2 DEF AllMods
<1>4. \A m \in PackedMods(r) : ~Removed(m)
  BY <1>1, <1>2 DEF PackedMods
<1> QED
  BY <1>1, <1>3, <1>4 DEF r

\* The same without newrd.img.
LEMMA ShortMods ==
  ASSUME initrd.arch \in Archives, initrd.left \in 0..Len(initrd.arch), Len(Unpacked) >= 1
  PROVE  ShortInitrd.state # "none" /\ AllMods(ShortInitrd) \subseteq AllMods(initrd)
<1>1. /\ DOMAIN ShortInitrd.arch = 1..Len(ShortInitrd.arch)
      /\ 1..Len(ShortInitrd.arch) \subseteq DOMAIN initrd.arch
  BY ShortFacts DEF Archives
<1> QED
  BY <1>1, ShortFacts DEF AllMods

\* An initrd with the same archives has the same modules.
LEMMA SameMods ==
  ASSUME NEW r, NEW q, r.arch = q.arch
  PROVE  AllMods(r) = AllMods(q) /\ PackedMods(r) = PackedMods(q)
BY DEF AllMods, PackedMods

\* RemovedInv: only ReadInitrd prepares a new initrd.
LEMMA RemovedNext ==
  ASSUME ControlInv, RemovedInv, [Next]_vars
  PROVE  RemovedInv'
<1> USE AfterWriting DEF ControlInv, RemovedInv
<1>1. ASSUME NEW p \in DOMAIN Profile, Start(p)
      PROVE  RemovedInv'
  BY <1>1
  DEF Start, Forget, Idle, Removed, memVars, diskVars, history
<1>2. CASE LoadKernel
  BY <1>2
  DEF LoadKernel, Removed, memVars, diskVars, history
<1>3. ASSUME NEW s \in todo, PatchSym(s)
      PROVE  RemovedInv'
  BY <1>3
  DEF PatchSym, Removed, memVars, diskVars, history
<1>4. ASSUME NEW size \in Sizes \cup {0}, Repack(size)
      PROVE  RemovedInv'
  BY <1>4
  DEF Repack, Removed, memVars, diskVars, history
<1>5. CASE OpenTarget
  BY <1>5
  DEF OpenTarget, Removed, memVars, diskVars, history
<1>6. CASE FillTarget
  BY <1>6
  DEF FillTarget, Removed, memVars, diskVars, history
<1>7. CASE CloseTarget
  BY <1>7
  DEF CloseTarget, Removed, memVars, diskVars, history
<1>8. CASE Unlink
  BY <1>8
  DEF Unlink, Removed, memVars, diskVars, history
<1>9. ASSUME NEW m \in Mod, RemoveModule(m)
      PROVE  RemovedInv'
  BY <1>9
  DEF RemoveModule, Removed, memVars, diskVars, history
<1>10. CASE EndRemove
  BY <1>10
  DEF EndRemove, Removed, memVars, diskVars, history
<1>11. ASSUME NEW m \in work, LoadModule(m)
      PROVE  RemovedInv'
  BY <1>11
  DEF LoadModule, Removed, memVars, diskVars, history
<1>12. CASE WriteBack
  BY <1>12
  DEF WriteBack, Removed, memVars, diskVars, history
<1>13. CASE EndModules
  BY <1>13
  DEF EndModules, Removed, memVars, diskVars, history
<1>14. CASE ReadInitrd
  <2>1. /\ pc = "initrd" /\ UNCHANGED <<initrd, arg>> /\ faults \subseteq faults'
    BY <1>14 DEF ReadInitrd, diskVars
  <2>2. CASE pc' = "done"
    BY <1>14, <2>1, <2>2 DEF ReadInitrd
  <2>3. CASE pc' = "failed"
    BY <2>1, <2>3
  <2>4. CASE pc' = "writerd" /\ newrd' = NewInitrd(Unpacked)
    BY <2>1, <2>4, NewMods DEF Removed
  <2>5. CASE pc' = "writerd" /\ "tool" \in faults' /\ newrd' = ShortInitrd /\ Len(Unpacked) >= 1
    BY <2>1, <2>5, ShortMods
  <2> QED
    BY <1>14, <2>2, <2>3, <2>4, <2>5, ReadFacts
<1>15. CASE OpenInitrd
  <2>1. /\ pc = "writerd" /\ pc' = pc /\ UNCHANGED <<newrd, arg, faults>>
        /\ initrd'.state = "torn" /\ initrd'.arch = newrd.arch
    BY <1>15 DEF OpenInitrd, memVars, history
  <2>2. AllMods(initrd') = AllMods(newrd)
    BY <2>1, SameMods
  <2> QED
    BY <2>1, <2>2 DEF Removed
<1>16. CASE FillInitrd
  BY <1>16
  DEF FillInitrd, Removed, memVars, diskVars, history
<1>17. CASE Kill
  BY <1>17
  DEF Kill, Forget, Removed, memVars, diskVars, history
<1>18. CASE UNCHANGED vars
  BY <1>18
  DEF vars, Removed, memVars, diskVars, history
<1> QED
  BY <1>7, <1>1, <1>2, <1>3, <1>4, <1>5, <1>6, <1>8, <1>9, <1>10,
     <1>11, <1>12, <1>13, <1>14, <1>15, <1>16, <1>17, <1>18 DEF Next

\* The invariant behind the theorems on what runs leave on the disk.
LEMMA CodeInductive ==
  /\ Init => ControlInv /\ ShapeInv /\ InitrdInv /\ CodeInv /\ RemovedInv
  /\ ControlInv /\ ShapeInv /\ InitrdInv /\ CodeInv /\ RemovedInv /\ [Next]_vars
       => (ControlInv /\ ShapeInv /\ InitrdInv /\ CodeInv /\ RemovedInv)'
<1>1. Init => ControlInv /\ ShapeInv /\ InitrdInv /\ CodeInv /\ RemovedInv
  BY ControlInit, ShapeInit, InitrdInit, CodeInit, RemovedInit
<1> QED
  BY <1>1, ControlNext, ShapeNext, InitrdNext, CodeNext, RemovedNext

\* A step brings back nothing in a file: it keeps the file, deletes it or
\* writes what was in memory.
LEMMA StepAccumulates ==
  ASSUME ControlInv, ShapeInv, CodeInv, [Next]_vars, NEW f \in Mod \cup {"vmlinuz"}
  PROVE  \/ disk'[f] \in {Gone, Zeros} \/ Strays(f)
         \/ /\ disk[f] \notin {Gone, Zeros}
            /\ \A k \in DOMAIN Bin(f).syms :
                 Disabled(disk[f], Bin(f).syms[k].off) => Disabled(disk'[f], Bin(f).syms[k].off)
<1>1. \/ disk'[f] = disk[f] \/ disk'[f] = Gone
      \/ f = cur /\ pc \in Busy /\ disk'[f] = mem
  <2> DEFINE G == \/ disk'[f] = disk[f] \/ disk'[f] = Gone
                  \/ f = cur /\ pc \in Busy /\ disk'[f] = mem
  <2>1. FillTarget => G
    <3>1. ASSUME FillTarget, disk' = [disk EXCEPT ![Target] = mem]
          PROVE  G
      <4>1. pc \in Busy /\ (f = Target => f = cur)
        BY <3>1, AfterWriting, TargetOf, KernelPaths DEF FillTarget, ShapeInv, Busy, KernFile
      <4> QED
        BY <3>1, <4>1, KernelPaths DEF ControlInv, KernFile
    <3> QED
      BY <3>1 DEF FillTarget
  <2>2. Unlink => G
    BY DEF Unlink, ControlInv
  <2>3. (\E m \in Mod : RemoveModule(m)) => G
    BY KernelPaths DEF RemoveModule, ControlInv, KernFile
  <2>4. (\E p \in DOMAIN Profile : Start(p)) \/ LoadKernel => disk' = disk
    BY DEF Start, LoadKernel, diskVars
  <2>5. (\E s \in todo : PatchSym(s)) \/ (\E size \in Sizes \cup {0} : Repack(size))
          => disk' = disk
    BY DEF PatchSym, Repack, diskVars
  <2>6. OpenTarget \/ CloseTarget \/ EndRemove \/ (\E m \in work : LoadModule(m)) \/ WriteBack \/ EndModules
          => disk' = disk
    BY DEF OpenTarget, CloseTarget, EndRemove, LoadModule, WriteBack, EndModules, diskVars
  <2>7. ReadInitrd \/ OpenInitrd \/ FillInitrd \/ Kill \/ UNCHANGED vars => disk' = disk
    BY DEF ReadInitrd, OpenInitrd, FillInitrd, Kill, vars, diskVars
  <2>8. disk' = disk => G
    OBVIOUS
  <2> HIDE DEF G
  <2>9. G
    BY <2>1, <2>2, <2>3, <2>4, <2>5, <2>6, <2>7, <2>8 DEF Next
  <2> QED
    BY <2>9 DEF G
<1>2. CASE disk'[f] \in {disk[f], Gone}
  BY <1>2
<1>3. CASE f = cur /\ pc \in Busy /\ disk'[f] = mem
  BY <1>3 DEF ShapeInv, CodeInv, Carried
<1> QED
  BY <1>1, <1>2, <1>3

\* For any image, profiles and faults: what one run disabled or deleted, no
\* later run brings back (test/run.sh:94-97, 130; hwfilter.py:764).
THEOREM RunsOnlyAdd == Spec => PatchesAccumulate
<1> DEFINE Inv == ControlInv /\ ShapeInv /\ InitrdInv /\ CodeInv /\ RemovedInv
           A == /\ \A f \in Mod \cup {"vmlinuz"} :
                     \/ disk'[f] \in {Gone, Zeros} \/ Strays(f)
                     \/ /\ disk[f] \notin {Gone, Zeros}
                        /\ \A k \in DOMAIN Bin(f).syms :
                             Disabled(disk[f], Bin(f).syms[k].off)
                               => Disabled(disk'[f], Bin(f).syms[k].off)
                /\ AllMods(initrd') \subseteq AllMods(initrd)
<1>1. Init => Inv
  BY CodeInductive
<1>2. Inv /\ [Next]_vars => Inv'
  BY CodeInductive
<1>3. Inv /\ [Next]_vars => [A]_vars
  <2>1. SUFFICES ASSUME Inv, [Next]_vars PROVE A
    OBVIOUS
  <2>2. AllMods(initrd') \subseteq AllMods(initrd)
    <3>1. initrd' = initrd \/ (pc = "writerd" /\ initrd'.arch = newrd.arch)
      BY <2>1 DEF Next, vars, diskVars, Start, LoadKernel, PatchSym, Repack, OpenTarget,
         FillTarget, CloseTarget, Unlink, RemoveModule, EndRemove, LoadModule, WriteBack, EndModules,
         ReadInitrd, OpenInitrd, FillInitrd, Kill
    <3> QED
      BY <2>1, <3>1, SameMods DEF RemovedInv
  <2> QED
    BY <2>1, <2>2, StepAccumulates
<1>4. PatchesAccumulate <=> [][A]_vars
  BY DEF PatchesAccumulate
<1> HIDE DEF Inv, A
<1> QED
  BY <1>1, <1>2, <1>3, <1>4, PTL DEF Spec

-----------------------------------------------------------------------------
\* What a run has done so far.

\* The functions of file f that are to return at once after this run.
Wanted(f) ==
  {k \in DOMAIN Bin(f).syms :
     /\ f \in KernFile \/ Under[f] = f
     /\ Bin(f).syms[k].name \in ListedBy(arg, f) /\ Meant(f, k)
     /\ \A i \in Insns(f, k) : Bin(f).text[i] # "bad"}

\* In memory every function the run was asked for is still to do, or done, and
\* what has been written is what is in memory.
MemInv ==
  /\ pc \in DOMAIN After /\ half /\ Target \notin blank => disk[Target] = mem
  /\ pc \in Busy /\ "tool" \notin faults => mem # Zeros
  /\ pc \in Busy \ {"patch"} => todo = {}
  /\ pc \in Busy => \/ mem = Zeros \/ Strays(cur)
                    \/ \A k \in Wanted(cur) : \/ Bin(cur).syms[k].name \in todo
                                              \/ Stubbed(Bin(cur), k, mem)

\* The kernel with everything disabled was written, to boot or to boot/patched.
KernelDoneInv ==
  /\ "tool" \notin faults
  /\ \/ pc \in {"unlink", "remove", "modules", "writeback", "initrd", "writerd", "done"}
     \/ pc = "patch" /\ cur \in Mod
  => \/ Strays("vmlinuz")
     \/ \E f \in {"vmlinuz", "patched/vmlinuz"} :
          Readable(f) /\ \A k \in Wanted(f) : Stubbed(Bin(f), k, disk[f])

\* Modules were removed, and every other one is still to do, or done.
ModulesDoneInv ==
  \/ pc \in {"modules", "writeback", "initrd", "writerd", "done"}
  \/ pc = "patch" /\ cur \in Mod
  => \A m \in Mod :
       /\ Removed(m) => disk[m] = Gone
       /\ pc \in {"initrd", "writerd", "done"} => m \notin work
       /\ \/ "tool" \in faults
          \/ m \in work \/ (m = cur /\ pc \in {"patch", "writeback"})
          \/ ~Readable(m) \/ Strays(m)
          \/ \A k \in Wanted(m) : Stubbed(Bin(m), k, disk[m])

\* Within a run the functions to disable stay the same.
LEMMA WantedKept ==
  ASSUME [Next]_vars, arg' = arg, NEW f
  PROVE  Wanted(f)' = Wanted(f)
<1>1. \A g : Bin(g)' = Bin(g)
  BY ImageKept
<1>2. ASSUME NEW k PROVE Meant(f, k)' <=> Meant(f, k)
  BY <1>1 DEF Meant
<1>3. ASSUME NEW k PROVE Insns(f, k)' = Insns(f, k)
  BY <1>1 DEF Insns
<1> QED
  BY <1>1, <1>2, <1>3 DEF Wanted

\* The files of the kernel have the same functions to disable.
LEMMA WantedAlike ==
  ASSUME NEW f \in KernFile, NEW g \in KernFile
  PROVE  Wanted(f) = Wanted(g)
<1>1. f \notin Mod /\ g \notin Mod
  BY ImageAssumption
<1>2. Bin(f) = Bin(g) /\ ListedBy(arg, f) = ListedBy(arg, g)
  BY DEF Bin, ListedBy
<1>3. \A k : (Meant(f, k) <=> Meant(g, k)) /\ Insns(f, k) = Insns(g, k)
  BY <1>1, <1>2 DEF Meant, Insns
<1> QED
  BY <1>2, <1>3 DEF Wanted

\* MemInv: PatchSym disables the one function meant by the name it takes from todo.
LEMMA MemNext ==
  ASSUME ControlInv, ShapeInv, ShapeInv', InitrdInv, CodeInv, MemInv, [Next]_vars
  PROVE  MemInv'
<1> USE AfterWriting, TargetOf, KernelPaths DEF ControlInv, ShapeInv, MemInv, Busy, KernFile
<1>1. /\ \A f : Bin(f)' = Bin(f)
      /\ \A f : Strays(f) => Strays(f)'
      /\ arg' = arg => \A f : Wanted(f)' = Wanted(f)
  BY ImageKept, ListedGrows, WantedKept
\* What is patched is code, and stays so.
<1>2. pc' = "patch" => mem' # Zeros
  <2> SUFFICES ASSUME pc' = "patch" PROVE mem' # Zeros
    OBVIOUS
  <2>1. SameLength(cur', mem') /\ cur' \in Path
    BY ImageKept DEF SameLength, Bin
  <2> QED
    BY <2>1, SameLengthLong
<1>3. ASSUME NEW p \in DOMAIN Profile, Start(p)
      PROVE  MemInv'
  BY <1>3, <1>1
  DEF Start, Forget, Idle, memVars, diskVars, history
<1>4. CASE LoadKernel
  <2>1. pc' = "failed" \/ (/\ pc' = "patch" /\ cur' = "vmlinuz"
                           /\ todo' = {s \in Profile[arg].funcs : Entries("vmlinuz", s) # {}})
    BY <1>4 DEF LoadKernel
  <2>2. \A k \in Wanted("vmlinuz") : Bin("vmlinuz").syms[k].name \in
          {s \in Profile[arg].funcs : Entries("vmlinuz", s) # {}}
    BY EntryMeant DEF Wanted, ListedBy
  <2>3. Wanted("vmlinuz")' = Wanted("vmlinuz") /\ faults \subseteq faults'
    BY <1>4, <1>1 DEF LoadKernel
  <2> QED
    BY <1>1, <2>1, <2>2, <2>3, <1>2
<1>5. ASSUME NEW s \in todo, PatchSym(s)
      PROVE  MemInv'
  <2> DEFINE b == Bin(cur)
             k == Entry(cur, s)
             va == cur = "vmlinuz"
             off == b.syms[k].off
             u == PatchRange(mem, off, disasm(disk[cur], off, va).off).data
  <2>1. /\ pc = "patch" /\ UNCHANGED <<arg, cur, half, blank, disk, faults>>
        /\ \/ pc' = "failed"
           \/ pc' = "patch" /\ todo' = todo \ {s} /\ (Off(cur, s) = off => mem' = u)
    BY <1>5 DEF PatchSym, diskVars, history
  <2>2. CASE pc' = "failed"
    BY <2>1, <2>2
  <2>3. CASE Strays(cur) /\ pc' = "patch"
    BY <1>1, <1>2, <2>1, <2>3
  <2>4. CASE ~Strays(cur) /\ pc' = "patch"
    <3>1. disk[cur] \notin {Gone, Zeros} /\ mem # Zeros /\ cur \in Path
      BY <2>1, SameLengthLong
    <3>2. /\ Sound(b, Chosen(cur), disk[cur]) /\ Sound(b, Chosen(cur), mem)
          /\ Carried(b, disk[cur], mem)
      BY <2>1, <2>4, <3>1 DEF CodeInv
    <3>3. IsCode(b)
      BY <3>1, BinIsCode
    <3>4. s \in Listed(cur) /\ Entries(cur, s) # {}
      BY <2>1 DEF InitrdInv, Listed, CodeInv
    <3>5. k \in DOMAIN b.syms /\ b.syms[k].name = s /\ Meant(cur, k)
      BY <3>1, <3>4, EntryMeant
    <3>6. Tame(b, k, va) /\ mem' = u
      BY <2>1, <2>4, <3>4, <3>5, ListedTame DEF Off
    <3>7. va \in BOOLEAN
      OBVIOUS
    \* No other function is meant by the name just taken from todo.
    <3>8. \A j \in Wanted(cur) : /\ j \in DOMAIN b.syms
                                 /\ b.syms[j].name = s => j = k
                                 /\ \A i \in b.syms[j].off..(b.syms[j].end - 1) : b.text[i] # "bad"
      BY <3>1, EntryMeant DEF Wanted, Insns
    <3>9. \A j \in Wanted(cur) : b.syms[j].name \in todo \/ Stubbed(b, j, mem)
      BY <2>1, <2>4, <3>1
    <3> HIDE DEF b, k, va, off
    <3>10. /\ Untouched(b, k, disk[cur]) \/ Stubbed(b, k, disk[cur])
           /\ Untouched(b, k, mem) \/ Stubbed(b, k, mem)
           /\ Stubbed(b, k, disk[cur]) => Stubbed(b, k, mem)
           /\ SameShape(b, disk[cur]) /\ SameShape(b, mem)
      BY <3>2, <3>5 DEF Sound, Carried
    <3>11. /\ \/ \E i \in b.syms[k].off..(b.syms[k].end - 1) : b.text[i] = "bad"
              \/ Stubbed(b, k, u)
           /\ \A j \in DOMAIN b.syms : j # k /\ Stubbed(b, j, mem) => Stubbed(b, j, u)
      BY <3>3, <3>5, <3>6, <3>7, <3>10, PatchSound DEF off
    <3> HIDE DEF u
    <3>12. \A j \in Wanted(cur) : b.syms[j].name \in todo \ {s} \/ Stubbed(b, j, u)
      BY <3>5, <3>8, <3>9, <3>11
    <3> QED
      BY <1>1, <1>2, <2>1, <2>4, <3>6, <3>12 DEF b
  <2> QED
    BY <2>1, <2>2, <2>3, <2>4
<1>6. ASSUME NEW size \in Sizes \cup {0}, Repack(size)
      PROVE  MemInv'
  BY <1>6, <1>1
  DEF Repack, memVars, diskVars, history
<1>7. CASE OpenTarget
  <2>1. /\ UNCHANGED <<pc, cur, mem, todo, arg, faults>> /\ Target \in blank'
        /\ pc \in DOMAIN After
    BY <1>7 DEF OpenTarget, memVars, history
  <2>2. Target' = Target
    BY <2>1 DEF Target
  <2> QED
    BY <1>1, <2>1, <2>2
<1>8. CASE FillTarget
  <2>1. UNCHANGED <<cur, mem, todo, arg>> /\ pc \in DOMAIN After /\ faults \subseteq faults'
    BY <1>8 DEF FillTarget, memVars
  <2>2. CASE disk' = [disk EXCEPT ![Target] = mem] /\ pc' = pc
    <3>1. Target' = Target /\ Target \in Path
      BY <2>1, <2>2 DEF Target
    <3>2. disk'[Target] = mem
      BY <2>2, <3>1
    <3> QED
      BY <1>1, <2>1, <2>2, <3>1, <3>2
  <2>3. CASE pc' = "modules"
    BY <2>1, <2>3
  <2> QED
    BY <1>8, <2>2, <2>3 DEF FillTarget
<1>9. CASE CloseTarget
  <2>1. UNCHANGED <<cur, mem, todo, arg, faults>> /\ half' = FALSE
        /\ pc \in DOMAIN After /\ pc' = After[pc]
    BY <1>9 DEF CloseTarget, memVars, history
  <2> QED
    BY <1>1, <2>1
<1>10. CASE Unlink
  BY <1>10, <1>1
  DEF Unlink, memVars, diskVars, history
<1>11. ASSUME NEW m \in Mod, RemoveModule(m)
      PROVE  MemInv'
  BY <1>11, <1>1
  DEF RemoveModule, memVars, diskVars, history
<1>12. CASE EndRemove
  BY <1>12, <1>1
  DEF EndRemove, memVars, diskVars, history
<1>13. ASSUME NEW m \in work, LoadModule(m)
      PROVE  MemInv'
  <2> DEFINE T == {k[1] : k \in {x \in Profile[arg].kos : x[2] = m /\ Entries(m, x[1]) # {}}}
  <2>1. m \in Mod /\ arg' = arg /\ (pc' = "failed" \/ (pc' = "patch" /\ cur' = m /\ todo' = T))
    BY <1>13 DEF LoadModule
  <2>2. ASSUME NEW k \in Wanted(m) PROVE Bin(m).syms[k].name \in T
    <3>1. PICK x \in Profile[arg].kos : x[2] = m /\ x[1] = Bin(m).syms[k].name
      BY <2>1, KernelPaths DEF Wanted, ListedBy
    <3>2. Entries(m, x[1]) # {}
      BY <2>1, <3>1, EntryMeant DEF Wanted
    <3> QED
      BY <3>1, <3>2
  <2> HIDE DEF T
  <2> QED
    BY <1>1, <1>2, <2>1, <2>2
<1>14. CASE WriteBack
  BY <1>14, <1>1
  DEF WriteBack, memVars, diskVars, history
<1>15. CASE EndModules
  BY <1>15, <1>1
  DEF EndModules, memVars, diskVars, history
<1>16. CASE ReadInitrd
  BY <1>16, <1>1
  DEF ReadInitrd, memVars, diskVars, history
<1>17. CASE OpenInitrd
  BY <1>17, <1>1
  DEF OpenInitrd, memVars, diskVars, history
<1>18. CASE FillInitrd
  BY <1>18, <1>1
  DEF FillInitrd, memVars, diskVars, history
<1>19. CASE Kill
  BY <1>19, <1>1
  DEF Kill, Forget, Idle, memVars, diskVars, history
<1>20. CASE UNCHANGED vars
  BY <1>20, <1>1
  DEF vars, Target, memVars, diskVars, history
<1> QED
  BY <1>9, <1>3, <1>4, <1>5, <1>6, <1>7, <1>8, <1>10, <1>11, <1>12,
     <1>13, <1>14, <1>15, <1>16, <1>17, <1>18, <1>19, <1>20 DEF Next

\* KernelDoneInv: FillTarget writes the kernel from memory, nothing else writes it.
LEMMA KernelDoneNext ==
  ASSUME ControlInv, ShapeInv, MemInv, KernelDoneInv, [Next]_vars
  PROVE  KernelDoneInv'
<1> USE AfterWriting, TargetOf, KernelPaths
    DEF ControlInv, ShapeInv, KernelDoneInv, Readable, Busy, KernFile
<1>1. /\ \A f : Bin(f)' = Bin(f)
      /\ \A f : Strays(f) => Strays(f)'
      /\ arg' = arg => \A f : Wanted(f)' = Wanted(f)
  BY ImageKept, ListedGrows, WantedKept
<1>2. ASSUME NEW p \in DOMAIN Profile, Start(p)
      PROVE  KernelDoneInv'
  BY <1>2, <1>1
  DEF Start, Forget, Idle, memVars, diskVars, history
<1>3. CASE LoadKernel
  BY <1>3, <1>1
  DEF LoadKernel, memVars, diskVars, history
<1>4. ASSUME NEW s \in todo, PatchSym(s)
      PROVE  KernelDoneInv'
  BY <1>4, <1>1
  DEF PatchSym, memVars, diskVars, history
<1>5. ASSUME NEW size \in Sizes \cup {0}, Repack(size)
      PROVE  KernelDoneInv'
  BY <1>5, <1>1
  DEF Repack, memVars, diskVars, history
<1>6. CASE OpenTarget
  BY <1>6, <1>1
  DEF OpenTarget, memVars, diskVars, history
<1>7. CASE FillTarget
  <2>1. /\ UNCHANGED <<cur, mem, arg>> /\ pc \in DOMAIN After /\ faults \subseteq faults'
        /\ blank' \subseteq blank /\ (pc' = pc \/ pc = "writeback")
    BY <1>7 DEF FillTarget, memVars
  <2>2. CASE pc # "writeback"
    BY <2>1, <2>2
  <2>3. CASE pc = "writeback"
    <3>1. \A f \in {"vmlinuz", "patched/vmlinuz"} : disk'[f] = disk[f]
      BY <1>7, <2>3 DEF FillTarget
    <3> QED
      BY <1>1, <2>1, <2>3, <3>1
  <2> QED
    BY <2>2, <2>3
<1>8. CASE CloseTarget
  <2>1. /\ UNCHANGED <<cur, mem, arg, disk, blank, faults>>
        /\ pc \in DOMAIN After /\ pc' = After[pc] /\ half /\ Target \notin blank
    BY <1>8 DEF CloseTarget, memVars, history
  <2>2. CASE pc = "copy"
    BY <2>1, <2>2
  <2>3. CASE pc = "writeback"
    BY <1>1, <2>1, <2>3
  <2>4. CASE pc \in {"inplace", "raw"} /\ "tool" \notin faults
    <3>1. /\ Target \in {"vmlinuz", "patched/vmlinuz"} /\ cur = "vmlinuz"
          /\ disk[Target] = mem
      BY <2>1, <2>4 DEF MemInv
    <3>2. mem \notin {Gone, Zeros}
      BY <2>1, <2>4, SameLengthLong DEF MemInv
    <3>3. Strays("vmlinuz") \/ \A k \in Wanted("vmlinuz") : Stubbed(Bin("vmlinuz"), k, mem)
      BY <2>1, <2>4, <3>1, <3>2 DEF MemInv
    <3>4. Wanted(Target) = Wanted("vmlinuz") /\ Bin(Target) = Bin("vmlinuz")
      BY <3>1, KernelAlike, WantedAlike
    <3> QED
      BY <1>1, <2>1, <3>1, <3>2, <3>3, <3>4
  <2> QED
    BY <2>1, <2>2, <2>3, <2>4
<1>9. CASE Unlink
  BY <1>9, <1>1
  DEF Unlink, memVars, diskVars, history
<1>10. ASSUME NEW m \in Mod, RemoveModule(m)
      PROVE  KernelDoneInv'
  BY <1>10, <1>1
  DEF RemoveModule, memVars, diskVars, history
<1>11. CASE EndRemove
  BY <1>11, <1>1
  DEF EndRemove, memVars, diskVars, history
<1>12. ASSUME NEW m \in work, LoadModule(m)
      PROVE  KernelDoneInv'
  BY <1>12, <1>1
  DEF LoadModule, memVars, diskVars, history
<1>13. CASE WriteBack
  BY <1>13, <1>1
  DEF WriteBack, memVars, diskVars, history
<1>14. CASE EndModules
  BY <1>14, <1>1
  DEF EndModules, memVars, diskVars, history
<1>15. CASE ReadInitrd
  BY <1>15, <1>1
  DEF ReadInitrd, memVars, diskVars, history
<1>16. CASE OpenInitrd
  BY <1>16, <1>1
  DEF OpenInitrd, memVars, diskVars, history
<1>17. CASE FillInitrd
  BY <1>17, <1>1
  DEF FillInitrd, memVars, diskVars, history
<1>18. CASE Kill
  BY <1>18, <1>1
  DEF Kill, Forget, Idle, memVars, diskVars, history
<1>19. CASE UNCHANGED vars
  BY <1>19, <1>1
  DEF vars, memVars, diskVars, history
<1> QED
  BY <1>8, <1>2, <1>3, <1>4, <1>5, <1>6, <1>7, <1>9, <1>10, <1>11,
     <1>12, <1>13, <1>14, <1>15, <1>16, <1>17, <1>18, <1>19 DEF Next

\* ModulesDoneInv: work holds every module with listed functions (EndRemove).
LEMMA ModulesDoneNext ==
  ASSUME ControlInv, ShapeInv, MemInv, ModulesDoneInv, [Next]_vars
  PROVE  ModulesDoneInv'
<1> USE AfterWriting, TargetOf, KernelPaths
    DEF ControlInv, ShapeInv, ModulesDoneInv, Readable, Busy, KernFile
<1>1. /\ \A f : Bin(f)' = Bin(f)
      /\ \A f : Strays(f) => Strays(f)'
      /\ arg' = arg => \A f : Wanted(f)' = Wanted(f)
  BY ImageKept, ListedGrows, WantedKept
<1>2. ASSUME NEW p \in DOMAIN Profile, Start(p)
      PROVE  ModulesDoneInv'
  BY <1>2, <1>1
  DEF Start, Forget, Idle, Removed, memVars, diskVars, history
<1>3. CASE LoadKernel
  BY <1>3, <1>1
  DEF LoadKernel, Removed, memVars, diskVars, history
<1>4. ASSUME NEW s \in todo, PatchSym(s)
      PROVE  ModulesDoneInv'
  BY <1>4, <1>1
  DEF PatchSym, Removed, memVars, diskVars, history
<1>5. ASSUME NEW size \in Sizes \cup {0}, Repack(size)
      PROVE  ModulesDoneInv'
  BY <1>5, <1>1
  DEF Repack, Removed, memVars, diskVars, history
<1>6. CASE OpenTarget
  BY <1>6, <1>1
  DEF OpenTarget, Removed, memVars, diskVars, history
<1>7. CASE FillTarget
  <2>1. /\ UNCHANGED <<cur, mem, arg, work>> /\ pc \in DOMAIN After /\ faults \subseteq faults'
        /\ pc' = pc \/ (pc = "writeback" /\ pc' = "modules" /\ "tool" \in faults')
    BY <1>7 DEF FillTarget, memVars
  <2>2. CASE pc # "writeback"
    BY <2>1, <2>2
  <2>3. CASE pc = "writeback"
    <3>1. cur \in Mod /\ Target = cur
      BY <2>3
    <3>2. \A m \in Mod : m # cur => disk'[m] = disk[m] /\ (m \in blank' <=> m \in blank)
      BY <1>7, <3>1 DEF FillTarget
    <3>3. \A m \in Mod : Removed(m) => m # cur
      BY <2>3, <3>1, SameLengthLong
    <3> QED
      BY <1>1, <2>1, <2>3, <3>1, <3>2, <3>3 DEF Removed
  <2> QED
    BY <2>2, <2>3
<1>8. CASE CloseTarget
  <2>1. /\ UNCHANGED <<cur, mem, arg, work, disk, blank, faults>>
        /\ pc \in DOMAIN After /\ pc' = After[pc] /\ half /\ Target \notin blank
    BY <1>8 DEF CloseTarget, memVars, history
  <2>2. CASE pc # "writeback"
    BY <2>1, <2>2
  <2>3. CASE pc = "writeback"
    <3>1. cur \in Mod /\ disk[cur] = mem /\ mem # Zeros
      BY <2>1, <2>3, SameLengthLong DEF MemInv
    <3>2. Strays(cur) \/ \A k \in Wanted(cur) : Stubbed(Bin(cur), k, mem)
      BY <2>3, <3>1 DEF MemInv
    <3> QED
      BY <1>1, <2>1, <2>3, <3>1, <3>2 DEF Removed
  <2> QED
    BY <2>2, <2>3
<1>9. CASE Unlink
  BY <1>9, <1>1
  DEF Unlink, Removed, memVars, diskVars, history
<1>10. ASSUME NEW m \in Mod, RemoveModule(m)
      PROVE  ModulesDoneInv'
  BY <1>10, <1>1
  DEF RemoveModule, Removed, memVars, diskVars, history
<1>11. CASE EndRemove
  <2>1. /\ UNCHANGED <<arg, disk>> /\ pc' = "modules"
        /\ work' = {m \in Mod : disk[m] # Gone /\ \E k \in Profile[arg].kos : k[2] = m}
        /\ \A m \in Mod : Removed(m) => disk[m] = Gone
    BY <1>11 DEF EndRemove, diskVars
  <2>2. ASSUME NEW m \in Mod, m \notin work', disk[m] # Gone
        PROVE  Wanted(m) = {}
    BY <2>1, <2>2, KernelPaths DEF Wanted, ListedBy
  <2> QED
    BY <1>1, <2>1, <2>2 DEF Removed
<1>12. ASSUME NEW m \in work, LoadModule(m)
      PROVE  ModulesDoneInv'
  BY <1>12, <1>1
  DEF LoadModule, Removed, memVars, diskVars, history
<1>13. CASE WriteBack
  BY <1>13, <1>1
  DEF WriteBack, Removed, memVars, diskVars, history
<1>14. CASE EndModules
  BY <1>14, <1>1
  DEF EndModules, Removed, memVars, diskVars, history
<1>15. CASE ReadInitrd
  BY <1>15, <1>1
  DEF ReadInitrd, Removed, memVars, diskVars, history
<1>16. CASE OpenInitrd
  BY <1>16, <1>1
  DEF OpenInitrd, Removed, memVars, diskVars, history
<1>17. CASE FillInitrd
  BY <1>17, <1>1
  DEF FillInitrd, Removed, memVars, diskVars, history
<1>18. CASE Kill
  BY <1>18, <1>1
  DEF Kill, Forget, Idle, Removed, memVars, diskVars, history
<1>19. CASE UNCHANGED vars
  BY <1>19, <1>1
  DEF vars, Removed, memVars, diskVars, history
<1> QED
  BY <1>8, <1>2, <1>3, <1>4, <1>5, <1>6, <1>7, <1>9, <1>10, <1>11,
     <1>12, <1>13, <1>14, <1>15, <1>16, <1>17, <1>18, <1>19 DEF Next

\* For any image, profiles and faults but a failing tool, a run that ends
\* normally did what it was asked, whatever runs and kills came before
\* (hwfilter.py:537-571, 671-767).
THEOREM DoneIsDone == Spec => []DoneDisables
<1> DEFINE Code == ControlInv /\ ShapeInv /\ InitrdInv /\ CodeInv /\ RemovedInv
           Done == MemInv /\ KernelDoneInv /\ ModulesDoneInv
           Inv == Code /\ Done
<1>1. Init => Inv
  <2>1. Init => Code
    BY CodeInductive
  <2>2. Init => MemInv /\ KernelDoneInv /\ ModulesDoneInv
    BY AfterWriting DEF Init, MemInv, KernelDoneInv, ModulesDoneInv, Busy
  <2> QED
    BY <2>1, <2>2
<1>2. Inv /\ [Next]_vars => Inv'
  <2>1. Inv /\ [Next]_vars => Code'
    BY CodeInductive
  <2>2. Inv /\ [Next]_vars => Done'
    BY <2>1, MemNext, KernelDoneNext, ModulesDoneNext
  <2> QED
    BY <2>1, <2>2
<1>3. Inv => DoneDisables
  <2> SUFFICES ASSUME Inv, pc = "done", "tool" \notin faults
               PROVE  DoneDisables
    BY DEF DoneDisables
  <2> DEFINE R(f) == \A k \in DOMAIN Bin(f).syms :
                       /\ Bin(f).syms[k].name \in ListedBy(arg, f) /\ Meant(f, k)
                       /\ \A i \in Insns(f, k) : Bin(f).text[i] # "bad"
                       => Disabled(disk[f], Bin(f).syms[k].off)
  <2>1. ASSUME NEW f \in Path, Readable(f), ~Strays(f), f \in KernFile \/ Under[f] = f,
               \A k \in Wanted(f) : Stubbed(Bin(f), k, disk[f])
        PROVE  R(f)
    <3>1. IsCode(Bin(f)) /\ SameShape(Bin(f), disk[f])
      BY <2>1, BinIsCode DEF ControlInv, CodeInv, Readable, Sound
    <3>2. \A k \in Wanted(f) : k \in DOMAIN Bin(f).syms /\ Disabled(disk[f], Bin(f).syms[k].off)
      BY <2>1, <3>1, StubbedReturns DEF Wanted
    <3> QED
      BY <2>1, <3>2 DEF Wanted
  <2> HIDE DEF R
  <2>2. Strays("vmlinuz") \/ \E f \in {"vmlinuz", "patched/vmlinuz"} : Readable(f) /\ R(f)
    BY <2>1, KernelAlike, KernelPaths DEF KernelDoneInv, KernFile
  <2>3. \A m \in Mod : Readable(m) /\ Under[m] = m /\ ~Strays(m) => R(m)
    BY <2>1, KernelPaths DEF ModulesDoneInv
  <2>4. \A m \in Mod : {m, Under[m]} \cap Profile[arg].rm # {} =>
                         disk[m] = Gone /\ m \notin PackedMods(initrd)
    BY DEF ModulesDoneInv, RemovedInv, Removed
  <2> QED
    BY <2>2, <2>3, <2>4 DEF DoneDisables, R
<1> HIDE DEF Inv
<1> QED
  BY <1>1, <1>2, <1>3, PTL DEF Spec

=============================================================================
