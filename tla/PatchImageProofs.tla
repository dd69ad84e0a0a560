-------------------------- MODULE PatchImageProofs --------------------------
(***************************************************************************)
(* patch_image for any image, profiles, number of runs and faults: what a  *)
(* kill can do to the kernel, what dd overwrites, and that only faults     *)
(* leave files half written.                                               *)
(*                                                                         *)
(* SomeKernelWhole is not inductive: that the copy is whole when vmlinuz   *)
(* is opened, and that vmlinuz is whole when the copy is opened or deleted,*)
(* depends on how far the run has come (KernelInv).                        *)
(***************************************************************************)
EXTENDS PatchImage, SequenceTheorems, WellFoundedInduction, TLAPS

\* The archives of an initrd.
OneArchive == [id : STRING, packed : BOOLEAN, mods : SUBSET Mod]
Archives   == Seq(OneArchive)

\* What a run is at work on, and the shape of what it works with.
ControlInv ==
  /\ image \in Images
  /\ DOMAIN disk = Path
  /\ initrd.arch \in Archives /\ newrd.arch \in Archives
  /\ initrd.left \in 0..Len(initrd.arch) /\ newrd.left \in 0..Len(newrd.arch)
  /\ blank \subseteq torn
  /\ work \subseteq Mod
  /\ half => pc \in {"copy", "inplace", "raw", "writeback", "writerd"}
  /\ pc = "writeback" => cur \in Mod

\* Code of two bytes or more: neither missing nor zeros.
Long(t) == 2 \in DOMAIN t

\* Of vmlinuz and its copy one is whole, and the run opens or deletes the other.
KernelInv ==
  faults \cap {"tool", "damage"} = {} =>
    /\ Long(disk["vmlinuz"])
    /\ "vmlinuz" \in torn => Whole("vmlinuz.patched")
    /\ (pc = "patch" /\ cur = "vmlinuz") \/ pc \in {"copy", "raw"} =>
         "vmlinuz" \notin torn /\ Long(mem) /\ ~cut
    /\ pc = "copy" /\ half /\ "vmlinuz.patched" \notin blank =>
         Long(disk["vmlinuz.patched"])
    /\ pc = "inplace" => Whole("vmlinuz.patched") /\ Long(mem) /\ ~cut
    /\ pc = "unlink" => "vmlinuz" \notin torn

\* Without faults the only unfinished file is the one being written, and the
\* copy is there only while it is used.
QuietInv ==
  faults = {} =>
    /\ ~cut
    /\ torn \subseteq IF half /\ pc # "writerd" THEN {Target} ELSE {}
    /\ disk["vmlinuz.patched"] = Gone \/ pc \in {"inplace", "unlink"} \/ (pc = "copy" /\ half)
    /\ initrd.state \in {"none", "whole"} \/ (half /\ pc = "writerd")
    /\ pc = "writerd" => newrd.state = "whole"

-----------------------------------------------------------------------------
\* What follows the writing of a file.
LEMMA AfterWriting ==
  /\ DOMAIN After = {"copy", "inplace", "raw", "writeback"}
  /\ After["copy"] = "inplace" /\ After["inplace"] = "unlink"
  /\ After["raw"] = "remove" /\ After["writeback"] = "modules"
BY DEF After

\* The file each step overwrites.
LEMMA TargetOf ==
  /\ pc = "copy" => Target = "vmlinuz.patched"
  /\ pc = "inplace" => Target = "vmlinuz"
  /\ pc = "raw" => Target = "patched/vmlinuz"
  /\ pc = "writeback" => Target = cur
BY DEF Target

\* Code is neither of the two marks.
LEMMA LongIsCode ==
  ASSUME NEW t, Long(t)
  PROVE  t \notin {Gone, Zeros}
BY DEF Long, Gone, Zeros

\* Patching keeps the length.
LEMMA PatchKeepsLength ==
  ASSUME NEW data, NEW off, NEW end
  PROVE  DOMAIN PatchRange(data, off, end).data = DOMAIN data
BY DEF PatchRange

\* The files of the kernel are no modules.
LEMMA KernelPaths ==
  /\ KernFile \subseteq Path
  /\ Mod \subseteq Path
  /\ \A m \in Mod : m \notin {"vmlinuz", "vmlinuz.patched", "patched/vmlinuz"}
BY ImageAssumption DEF Path, KernFile

-----------------------------------------------------------------------------
\* Least and greatest elements.

\* A nonempty set of numbers has a least element.
LEMMA LeastExists ==
  ASSUME NEW S \in SUBSET Nat, S # {}
  PROVE  \E x \in S : \A y \in S : x <= y
<1>1. PICK x \in S : \A y \in S : <<y, x>> \notin OpToRel(<, Nat)
  BY NatLessThanWellFounded, WFMin
<1>2. \A y \in S : ~(y < x)
  BY <1>1 DEF OpToRel
<1> QED
  BY <1>2

\* Of a nonempty set of symbols FirstOf is the least, LastOf the greatest.
LEMMA FirstAndLast ==
  ASSUME NEW n \in Nat, NEW K \in SUBSET (1..n), K # {}
  PROVE  /\ FirstOf(K) \in K /\ \A j \in K : FirstOf(K) <= j
         /\ LastOf(K) \in K /\ \A j \in K : j <= LastOf(K)
<1>1. \E k \in K : \A j \in K : k <= j
  <2>1. K \in SUBSET Nat
    OBVIOUS
  <2> QED
    BY <2>1, LeastExists
<1>2. \E k \in K : \A j \in K : j <= k
  <2> DEFINE D == {n - k : k \in K}
  <2>1. D \in SUBSET Nat
    OBVIOUS
  <2>2. D # {}
    OBVIOUS
  <2> HIDE DEF D
  <2>3. PICK d \in D : \A e \in D : d <= e
    BY <2>2, <2>1, LeastExists
  <2>4. PICK k \in K : d = n - k
    BY DEF D
  <2>5. ASSUME NEW j \in K PROVE j <= k
    <3>1. n - j \in D
      BY DEF D
    <3>2. n - k <= n - j
      BY <2>3, <2>4, <3>1
    <3> QED
      BY <3>2, k \in 1..n, j \in 1..n
  <2> QED
    BY <2>5
<1> QED
  BY <1>1, <1>2 DEF FirstOf, LastOf

-----------------------------------------------------------------------------
\* The parts of the initrd.

\* The first n archives.
LEMMA TakeFacts ==
  ASSUME NEW a \in Archives, NEW n \in Nat, n <= Len(a)
  PROVE  /\ SubSeq(a, 1, n) \in Archives
         /\ Len(SubSeq(a, 1, n)) = n
         /\ \A i \in 1..n : SubSeq(a, 1, n)[i] = a[i]
<1>1. \A i \in 1..n : a[i] \in OneArchive
  BY DEF Archives
<1>2. /\ SubSeq(a, 1, n) \in Seq(OneArchive)
      /\ Len(SubSeq(a, 1, n)) = IF 1 <= n THEN n - 1 + 1 ELSE 0
      /\ \A i \in 1..(n - 1 + 1) : SubSeq(a, 1, n)[i] = a[1 + i - 1]
  BY <1>1, SubSeqProperties
<1> QED
  BY <1>2 DEF Archives

\* unpack-initramfs.sh gives archives of the initrd, from the first on, and all
\* of them if only the last is packed.
LEMMA UnpackedFacts ==
  ASSUME initrd.arch \in Archives, initrd.left \in 0..Len(initrd.arch)
  PROVE  /\ Unpacked \in Archives
         /\ Len(Unpacked) <= Len(initrd.arch)
         /\ \A i \in 1..Len(Unpacked) : Unpacked[i] = initrd.arch[i]
         /\ \/ Len(Unpacked) = initrd.left
            \/ Len(Unpacked) \in 1..initrd.left /\ initrd.arch[Len(Unpacked)].packed
<1> DEFINE packed == {i \in 1..initrd.left : initrd.arch[i].packed}
           n == IF packed = {} THEN initrd.left ELSE FirstOf(packed)
<1>1. n = initrd.left \/ n \in packed
  <2>1. packed \in SUBSET (1..initrd.left) /\ initrd.left \in Nat
    OBVIOUS
  <2> HIDE DEF packed
  <2> QED
    BY <2>1, FirstAndLast
<1>2. n \in 0..Len(initrd.arch)
  BY <1>1
<1>3. Unpacked = SubSeq(initrd.arch, 1, n)
  BY DEF Unpacked
<1> HIDE DEF n
<1>4. /\ SubSeq(initrd.arch, 1, n) \in Archives
      /\ Len(SubSeq(initrd.arch, 1, n)) = n
      /\ \A i \in 1..n : SubSeq(initrd.arch, 1, n)[i] = initrd.arch[i]
  BY <1>2, TakeFacts
<1> QED
  BY <1>1, <1>2, <1>3, <1>4

\* However os.walk lists the files, every part comes to its place.
LEMMA PartsInOrder ==
  ASSUME initrd.arch \in Archives, initrd.left \in 0..Len(initrd.arch),
         NEW files \in Listings
  PROVE  Parts(files) = Unpacked
<1> DEFINE n == Len(Unpacked)
<1>1. Unpacked \in Archives
  BY UnpackedFacts
<1>2. n \in Nat /\ Unpacked = [i \in 1..n |-> Unpacked[i]]
  BY <1>1 DEF Archives
<1>3. PICK o \in [1..n -> 1..n] :
        /\ \A i \in 1..n : \E k \in 1..n : o[k] = i
        /\ files = [k \in 1..n |-> [num |-> o[k], data |-> Unpacked[o[k]]]]
  BY DEF Listings
<1> HIDE DEF n
<1>4. ASSUME NEW i \in 1..n
      PROVE  (CHOOSE f \in {files[k] : k \in DOMAIN files} : f.num = i).data = Unpacked[i]
  <2> DEFINE S == {files[k] : k \in DOMAIN files}
  <2>1. \A f \in S : f.num = i => f.data = Unpacked[i]
    <3>1. \A k \in DOMAIN files : files[k].num = o[k] /\ files[k].data = Unpacked[o[k]]
      BY <1>3
    <3> QED
      BY <3>1
  <2>2. \E f \in S : f.num = i
    <3>1. PICK k \in 1..n : o[k] = i
      BY <1>3
    <3>2. k \in DOMAIN files /\ files[k].num = i
      BY <1>3, <3>1
    <3> QED
      BY <3>2
  <2> HIDE DEF S
  <2>3. (CHOOSE f \in S : f.num = i).data = Unpacked[i]
    BY <2>1, <2>2
  <2> QED
    BY <2>3 DEF S
<1>5. DOMAIN files = 1..n
  BY <1>3
<1>6. Parts(files) = [i \in 1..n |-> Unpacked[i]]
  BY <1>4, <1>5 DEF Parts
<1> QED
  BY <1>2, <1>6

\* The new initrd has the archives that were unpacked, and only the packed ones
\* lose modules.
LEMMA NewInitrdFacts ==
  ASSUME initrd.arch \in Archives, initrd.left \in 0..Len(initrd.arch)
  PROVE  /\ NewInitrd(Unpacked).arch \in Archives
         /\ Len(NewInitrd(Unpacked).arch) = Len(Unpacked)
         /\ NewInitrd(Unpacked).left = Len(Unpacked)
         /\ NewInitrd(Unpacked).state \in {"whole", "short"}
         /\ NewInitrd(Unpacked).state = "whole" <=> initrd.state = "whole"
         /\ \A i \in 1..Len(Unpacked) :
              LET x == NewInitrd(Unpacked).arch[i]
              IN  /\ x.id = initrd.arch[i].id /\ x.packed = initrd.arch[i].packed
                  /\ x.mods \subseteq initrd.arch[i].mods
                  /\ ~x.packed => x = initrd.arch[i]
                  /\ x.packed => \A m \in x.mods : ~Removed(m)
                  /\ \A m \in initrd.arch[i].mods \ x.mods : Removed(m)
<1> DEFINE u == Unpacked
           x(i) == IF u[i].packed
                   THEN [u[i] EXCEPT !.mods = {m \in u[i].mods : ~Removed(m)}] ELSE u[i]
<1>1. /\ u \in Archives /\ \A i \in 1..Len(u) : u[i] = initrd.arch[i]
  BY UnpackedFacts
<1> HIDE DEF u
<1>2. Len(u) \in Nat /\ DOMAIN u = 1..Len(u)
      /\ \A i \in 1..Len(u) : u[i] \in OneArchive
  BY <1>1 DEF Archives
<1>3. /\ NewInitrd(u).arch = [i \in 1..Len(u) |-> x(i)]
      /\ NewInitrd(u).left = Len(u)
      /\ NewInitrd(u).state = IF initrd.state = "whole" THEN "whole" ELSE "short"
  BY <1>2 DEF NewInitrd
<1>4. ASSUME NEW i \in 1..Len(u)
      PROVE  /\ x(i) \in OneArchive
             /\ x(i).id = u[i].id /\ x(i).packed = u[i].packed
             /\ x(i).mods \subseteq u[i].mods
             /\ ~x(i).packed => x(i) = u[i]
             /\ x(i).packed => \A m \in x(i).mods : ~Removed(m)
             /\ \A m \in u[i].mods \ x(i).mods : Removed(m)
  <2> USE DEF OneArchive
  <2>1. u[i] \in OneArchive
    BY <1>2
  <2>2. CASE u[i].packed
    <3> DEFINE kept == {m \in u[i].mods : ~Removed(m)}
    <3>1. x(i) = [u[i] EXCEPT !.mods = kept]
      BY <2>2
    <3>2. kept \in SUBSET Mod /\ kept \subseteq u[i].mods
          /\ (\A m \in kept : ~Removed(m)) /\ (\A m \in u[i].mods \ kept : Removed(m))
      BY <2>1
    <3> HIDE DEF kept
    <3>3. x(i).id = u[i].id /\ x(i).packed = u[i].packed /\ x(i).mods = kept
      BY <2>1, <3>1
    <3> HIDE DEF x
    <3>4. x(i) \in OneArchive
      BY <2>1, <3>1, <3>2
    <3> QED
      BY <2>2, <3>2, <3>3, <3>4
  <2>3. CASE ~u[i].packed
    <3>1. x(i) = u[i]
      BY <2>3
    <3> HIDE DEF x
    <3> QED
      BY <2>1, <2>3, <3>1
  <2> QED
    BY <2>2, <2>3
<1> HIDE DEF x
<1>5. /\ [i \in 1..Len(u) |-> x(i)] \in Archives
      /\ Len([i \in 1..Len(u) |-> x(i)]) = Len(u)
  BY <1>2, <1>4 DEF Archives
<1> QED
  BY <1>1, <1>2, <1>3, <1>4, <1>5 DEF u

\* What ReadInitrd prepares.
LEMMA ReadFacts ==
  ASSUME initrd.arch \in Archives, initrd.left \in 0..Len(initrd.arch), ReadInitrd
  PROVE  \/ newrd' = newrd /\ pc' \in {"done", "failed"} /\ faults' = faults
         \/ newrd' = NewInitrd(Unpacked) /\ pc' = "writerd" /\ faults' = faults
         \/ /\ newrd' = ShortInitrd /\ pc' = "writerd" /\ "tool" \in faults'
            /\ Len(Unpacked) >= 1
<1>1. Unpacked \in Archives
  BY UnpackedFacts
<1>2. (\E i \in DOMAIN Unpacked : Unpacked[i].packed) => Len(Unpacked) >= 1
  BY <1>1 DEF Archives
<1> QED
  BY <1>2, PartsInOrder DEF ReadInitrd

\* Without newrd.img the archives before it are left.
LEMMA ShortFacts ==
  ASSUME initrd.arch \in Archives, initrd.left \in 0..Len(initrd.arch),
         Len(Unpacked) >= 1
  PROVE  /\ ShortInitrd.arch \in Archives
         /\ ShortInitrd.left = Len(ShortInitrd.arch)
         /\ Len(ShortInitrd.arch) <= Len(initrd.arch)
         /\ ShortInitrd.state = "short"
         /\ \A i \in 1..Len(ShortInitrd.arch) : ShortInitrd.arch[i] = initrd.arch[i]
<1> DEFINE n == Len(Unpacked) - 1
           short == SubSeq(Unpacked, 1, n)
<1>1. /\ Unpacked \in Archives /\ Len(Unpacked) <= Len(initrd.arch)
      /\ \A i \in 1..Len(Unpacked) : Unpacked[i] = initrd.arch[i]
  BY UnpackedFacts
<1>2. n \in Nat /\ n <= Len(Unpacked) /\ Len(Unpacked) \in Nat
  BY <1>1 DEF Archives
<1>3. /\ short \in Archives /\ Len(short) = n
      /\ \A i \in 1..n : short[i] = Unpacked[i]
  BY <1>1, <1>2, TakeFacts
<1>4. ShortInitrd = [state |-> "short", arch |-> short, left |-> n]
  BY DEF ShortInitrd
<1> HIDE DEF n, short
<1>5. ShortInitrd.arch = short /\ ShortInitrd.left = n /\ ShortInitrd.state = "short"
  BY <1>4
<1>6. Len(initrd.arch) \in Nat
  BY DEF Archives
<1> QED
  BY <1>1, <1>2, <1>3, <1>5, <1>6

-----------------------------------------------------------------------------
\* ControlInv.

\* ControlInv holds in the tree as extracted.
LEMMA ControlInit ==
  ASSUME Init
  PROVE  ControlInv
<1>1. initrd = image.initrd /\ newrd = initrd /\ image \in Images
  BY DEF Init
<1>2. initrd.arch \in Archives /\ initrd.left = Len(initrd.arch)
  BY <1>1, ImageAssumption DEF Archives, OneArchive
<1>3. Len(initrd.arch) \in Nat
  BY <1>2 DEF Archives
<1> QED
  BY <1>1, <1>2, <1>3 DEF Init, ControlInv

\* Every step, also a kill, keeps ControlInv.
LEMMA ControlNext ==
  ASSUME ControlInv, [Next]_vars
  PROVE  ControlInv'
<1> USE AfterWriting DEF ControlInv
<1>1. ASSUME NEW p \in DOMAIN Profile, Start(p)
     PROVE  ControlInv'
  BY <1>1 DEF Start, Forget, memVars, diskVars, history
<1>2. CASE LoadKernel
  BY <1>2 DEF LoadKernel, memVars, diskVars, history
<1>3. ASSUME NEW s \in todo, PatchSym(s)
     PROVE  ControlInv'
  BY <1>3 DEF PatchSym, memVars, diskVars, history
<1>4. ASSUME NEW size \in Sizes \cup {0}, Repack(size)
     PROVE  ControlInv'
  BY <1>4 DEF Repack, memVars, diskVars, history
<1>5. CASE OpenTarget
  BY <1>5 DEF OpenTarget, memVars, diskVars, history
<1>6. CASE FillTarget
  BY <1>6 DEF FillTarget, memVars, diskVars, history
<1>7. CASE CloseTarget
  BY <1>7 DEF CloseTarget, memVars, diskVars, history
<1>8. CASE Unlink
  BY <1>8 DEF Unlink, memVars, diskVars, history
<1>9. ASSUME NEW m \in Mod, RemoveModule(m)
     PROVE  ControlInv'
  BY <1>9 DEF RemoveModule, memVars, diskVars, history
<1>10. CASE EndRemove
  BY <1>10 DEF EndRemove, memVars, diskVars, history
<1>11. ASSUME NEW m \in work, LoadModule(m)
     PROVE  ControlInv'
  BY <1>11 DEF LoadModule, memVars, diskVars, history
<1>12. CASE WriteBack
  BY <1>12 DEF WriteBack, memVars, diskVars, history
<1>13. CASE EndModules
  BY <1>13 DEF EndModules, memVars, diskVars, history
<1>14. CASE ReadInitrd
  <2>1. newrd'.arch \in Archives /\ newrd'.left \in 0..Len(newrd'.arch)
    BY <1>14, ReadFacts, NewInitrdFacts, ShortFacts, UnpackedFacts DEF Archives
  <2> QED
    BY <1>14, <2>1 DEF ReadInitrd, memVars, diskVars, history
<1>15. CASE OpenInitrd
  BY <1>15 DEF OpenInitrd, memVars, diskVars, history
<1>16. CASE FillInitrd
  BY <1>16 DEF FillInitrd, memVars, diskVars, history
<1>17. CASE Kill
  BY <1>17 DEF Kill, Forget, memVars, diskVars, history
<1>18. CASE UNCHANGED vars
  BY <1>18 DEF vars, memVars, diskVars, history
<1> QED
  BY <1>1, <1>2, <1>3, <1>4, <1>5, <1>6, <1>8, <1>9, <1>10,
     <1>11, <1>12, <1>13, <1>14, <1>15, <1>16, <1>17, <1>18, <1>7 DEF Next

-----------------------------------------------------------------------------
\* KernelInv.

\* KernelInv holds in the tree as extracted.
LEMMA KernelInit ==
  ASSUME Init
  PROVE  KernelInv
<1>1. Long(image.kernel.text)
  BY CodeAssumption DEF Init, Long, IsCode
<1>2. disk["vmlinuz"] = image.kernel.text
  BY KernelPaths DEF Init, Bin, KernFile
<1> QED
  BY <1>1, <1>2 DEF Init, KernelInv

\* KernelInv: vmlinuz is opened only when the copy is whole.
LEMMA KernelNext ==
  ASSUME ControlInv, KernelInv, [Next]_vars
  PROVE  KernelInv'
<1> USE AfterWriting, TargetOf, KernelPaths DEF ControlInv, KernelInv, Whole, Readable, KernFile
<1>1. ASSUME NEW p \in DOMAIN Profile, Start(p)
     PROVE  KernelInv'
  BY <1>1 DEF Start, Forget, memVars, diskVars, history
<1>2. CASE LoadKernel
  BY <1>2 DEF LoadKernel, memVars, diskVars, history
<1>3. ASSUME NEW s \in todo, PatchSym(s)
     PROVE  KernelInv'
  BY <1>3, PatchKeepsLength DEF PatchSym, Long, memVars, diskVars, history
<1>4. ASSUME NEW size \in Sizes \cup {0}, Repack(size)
     PROVE  KernelInv'
  BY <1>4 DEF Repack, memVars, diskVars, history
<1>5. CASE OpenTarget
  BY <1>5 DEF OpenTarget, memVars, diskVars, history
<1>6. CASE FillTarget
  BY <1>6, LongIsCode DEF FillTarget, memVars, diskVars, history
<1>7. CASE CloseTarget
  BY <1>7, LongIsCode DEF CloseTarget, memVars, diskVars, history
<1>8. CASE Unlink
  BY <1>8 DEF Unlink, memVars, diskVars, history
<1>9. ASSUME NEW m \in Mod, RemoveModule(m)
     PROVE  KernelInv'
  BY <1>9 DEF RemoveModule, memVars, diskVars, history
<1>10. CASE EndRemove
  BY <1>10 DEF EndRemove, memVars, diskVars, history
<1>11. ASSUME NEW m \in work, LoadModule(m)
     PROVE  KernelInv'
  BY <1>11 DEF LoadModule, memVars, diskVars, history
<1>12. CASE WriteBack
  BY <1>12 DEF WriteBack, memVars, diskVars, history
<1>13. CASE EndModules
  BY <1>13 DEF EndModules, memVars, diskVars, history
<1>14. CASE ReadInitrd
  BY <1>14 DEF ReadInitrd, memVars, diskVars, history
<1>15. CASE OpenInitrd
  BY <1>15 DEF OpenInitrd, memVars, diskVars, history
<1>16. CASE FillInitrd
  BY <1>16 DEF FillInitrd, memVars, diskVars, history
<1>17. CASE Kill
  BY <1>17 DEF Kill, Forget, memVars, diskVars, history
<1>18. CASE UNCHANGED vars
  BY <1>18 DEF vars, memVars, diskVars, history
<1> QED
  BY <1>1, <1>2, <1>3, <1>4, <1>5, <1>6, <1>8, <1>9, <1>10,
     <1>11, <1>12, <1>13, <1>14, <1>15, <1>16, <1>17, <1>18, <1>7 DEF Next

\* At every moment, killed or not, vmlinuz or the copy beside it is a whole
\* kernel, for any image and any number of runs (repack_bzimage.py:84-93).
THEOREM KernelSurvives == Spec => []SomeKernelWhole
<1>1. Init => ControlInv /\ KernelInv
  BY ControlInit, KernelInit
<1>2. ControlInv /\ KernelInv /\ [Next]_vars => (ControlInv /\ KernelInv)'
  BY ControlNext, KernelNext
<1>3. ControlInv /\ KernelInv => SomeKernelWhole
  BY LongIsCode DEF ControlInv, KernelInv, SomeKernelWhole, Whole, Readable
<1> QED
  BY <1>1, <1>2, <1>3, PTL DEF Spec

-----------------------------------------------------------------------------
\* QuietInv.

\* No file is unfinished at first.
LEMMA QuietInit ==
  ASSUME Init
  PROVE  QuietInv
BY ImageAssumption, KernelPaths DEF Init, QuietInv, KernFile

\* QuietInv: a file that is opened is written before the next.
LEMMA QuietNext ==
  ASSUME ControlInv, QuietInv, [Next]_vars
  PROVE  QuietInv'
<1> USE AfterWriting, TargetOf, KernelPaths DEF ControlInv, QuietInv, KernFile
<1>1. ASSUME NEW p \in DOMAIN Profile, Start(p)
     PROVE  QuietInv'
  BY <1>1 DEF Start, Forget, Idle, memVars, diskVars, history
<1>2. CASE LoadKernel
  BY <1>2 DEF LoadKernel, memVars, diskVars, history
<1>3. ASSUME NEW s \in todo, PatchSym(s)
     PROVE  QuietInv'
  BY <1>3 DEF PatchSym, memVars, diskVars, history
<1>4. ASSUME NEW size \in Sizes \cup {0}, Repack(size)
     PROVE  QuietInv'
  BY <1>4 DEF Repack, memVars, diskVars, history
<1>5. CASE OpenTarget
  BY <1>5 DEF OpenTarget, Target, memVars, diskVars, history
<1>6. CASE FillTarget
  <2>1. CASE "tool" \in faults'
    BY <2>1
  <2>2. CASE "tool" \notin faults'
    <3>1. UNCHANGED <<pc, half, cur, cut, torn, initrd, newrd, faults>>
          /\ disk' = [disk EXCEPT ![Target] = mem] /\ pc \in DOMAIN After /\ half
      BY <1>6, <2>2 DEF FillTarget, memVars
    <3>2. Target' = Target
      BY <3>1 DEF Target
    <3> QED
      BY <3>1, <3>2
  <2> QED
    BY <2>1, <2>2
<1>7. CASE CloseTarget
  BY <1>7 DEF CloseTarget, memVars, diskVars, history
<1>8. CASE Unlink
  BY <1>8 DEF Unlink, memVars, diskVars, history
<1>9. ASSUME NEW m \in Mod, RemoveModule(m)
     PROVE  QuietInv'
  BY <1>9 DEF RemoveModule, memVars, diskVars, history
<1>10. CASE EndRemove
  BY <1>10 DEF EndRemove, memVars, diskVars, history
<1>11. ASSUME NEW m \in work, LoadModule(m)
     PROVE  QuietInv'
  BY <1>11 DEF LoadModule, memVars, diskVars, history
<1>12. CASE WriteBack
  BY <1>12 DEF WriteBack, memVars, diskVars, history
<1>13. CASE EndModules
  BY <1>13 DEF EndModules, memVars, diskVars, history
<1>14. CASE ReadInitrd
  <2>1. \/ newrd' = newrd /\ pc' \in {"done", "failed"}
        \/ newrd' = NewInitrd(Unpacked)
        \/ "tool" \in faults'
    BY <1>14, ReadFacts
  <2>2. NewInitrd(Unpacked).state = "whole" <=> initrd.state = "whole"
    BY NewInitrdFacts
  <2> QED
    BY <1>14, <2>1, <2>2 DEF ReadInitrd, memVars, diskVars, history
<1>15. CASE OpenInitrd
  BY <1>15 DEF OpenInitrd, memVars, diskVars, history
<1>16. CASE FillInitrd
  BY <1>16 DEF FillInitrd, memVars, diskVars, history
<1>17. CASE Kill
  BY <1>17 DEF Kill, Forget, memVars, diskVars, history
<1>18. CASE UNCHANGED vars
  BY <1>18 DEF vars, memVars, diskVars, history, Target
<1> QED
  BY <1>1, <1>2, <1>3, <1>4, <1>5, <1>6, <1>8, <1>9, <1>10,
     <1>11, <1>12, <1>13, <1>14, <1>15, <1>16, <1>17, <1>18, <1>7 DEF Next

\* Without a kill or a failing tool no run, also one that gives up, leaves a
\* half-written file or the copy of vmlinuz behind (hwfilter.py:742,
\* repack_bzimage.py:91-93).
THEOREM GivesUpCleanly == Spec => []WholeUnlessDisturbed
<1>1. Init => ControlInv /\ QuietInv
  BY ControlInit, QuietInit
<1>2. ControlInv /\ QuietInv /\ [Next]_vars => (ControlInv /\ QuietInv)'
  BY ControlNext, QuietNext
<1>3. ControlInv /\ QuietInv => WholeUnlessDisturbed
  BY DEF ControlInv, QuietInv, WholeUnlessDisturbed, Idle
<1> QED
  BY <1>1, <1>2, <1>3, PTL DEF Spec

-----------------------------------------------------------------------------
\* OnlyKernelReplaced.

\* The least multiple of 16 behind start is no more than any other behind it.
LEMMA NextAligned ==
  ASSUME NEW start \in Nat, NEW e \in Nat, start < e, e % 16 = 0
  PROVE  start - (start % 16) + 16 <= e
OBVIOUS

\* In a bzImage that is recognised, what identify and find_piggy find is the
\* kernel, and no end behind the stub.
LEMMA RecognisedEnds ==
  ASSUME ControlInv, Recognised, NEW s \in identify, NEW e \in find_piggy(s.pos)
  PROVE  s.pos = image.layout.kernel /\ e \in Nat /\ e <= image.layout.stub
<1> DEFINE k == image.layout.kernel
           stub == image.layout.stub
           from == IF k = 0 THEN 0 ELSE k - (k % 16) + 16
<1>1. /\ k \in Nat /\ stub \in Nat /\ k < stub
      /\ image.layout.piggies \subseteq Nat
      /\ image.layout.sigs \subseteq [alg : Nat, pos : Nat, unpacks : BOOLEAN]
  BY LayoutAssumption DEF ControlInv
<1>2. stub \in image.layout.piggies /\ stub % 16 = 0
  BY DEF Recognised, Align
<1>3. s.pos = k
  <2>1. PICK r \in image.layout.sigs :
          /\ r.unpacks /\ r.pos = k
          /\ \A x \in image.layout.sigs : x.unpacks =>
               r.alg < x.alg \/ (r.alg = x.alg /\ r.pos <= x.pos)
    BY DEF Recognised
  <2>2. /\ s \in image.layout.sigs /\ s.unpacks
        /\ s.alg < r.alg \/ (s.alg = r.alg /\ s.pos <= r.pos)
    BY <2>1 DEF identify
  <2>3. r.alg < s.alg \/ (r.alg = s.alg /\ r.pos <= s.pos)
    BY <2>1, <2>2
  <2>4. s.alg \in Nat /\ s.pos \in Nat /\ r.alg \in Nat /\ r.pos \in Nat
    BY <1>1, <2>1, <2>2
  <2> QED
    BY <2>1, <2>2, <2>3, <2>4
<1>4. /\ e \in image.layout.piggies
      /\ \A j \in image.layout.piggies : j >= from /\ j % 16 = 0 => e <= j
  BY <1>3 DEF find_piggy, Align
<1> HIDE DEF k, stub
<1>5. stub >= from
  BY <1>1, <1>2, NextAligned
<1> QED
  BY <1>1, <1>2, <1>3, <1>4, <1>5 DEF k, stub

\* Only Repack chooses where dd writes.
LEMMA SlotNext ==
  ASSUME ControlInv, OnlyKernelReplaced, [Next]_vars
  PROVE  OnlyKernelReplaced'
<1> USE AfterWriting DEF OnlyKernelReplaced
<1>1. ASSUME NEW p \in DOMAIN Profile, Start(p)
     PROVE  OnlyKernelReplaced'
  BY <1>1 DEF Start, Forget, Recognised, memVars, diskVars, history
<1>2. CASE LoadKernel
  BY <1>2 DEF LoadKernel, Recognised, memVars, diskVars, history
<1>3. ASSUME NEW s \in todo, PatchSym(s)
     PROVE  OnlyKernelReplaced'
  BY <1>3 DEF PatchSym, Recognised, memVars, diskVars, history
<1>4. ASSUME NEW size \in Sizes \cup {0}, Repack(size)
     PROVE  OnlyKernelReplaced'
  <2>1. SUFFICES ASSUME pc' \in {"copy", "inplace", "unlink"}, Recognised
                 PROVE  /\ slot'.from = image.layout.kernel
                        /\ slot'.from + slot'.size <= slot'.end
                        /\ slot'.end <= image.layout.stub
    BY <1>4 DEF Repack, Recognised
  <2>2. PICK s \in identify : \E e \in find_piggy(s.pos) :
          size <= e - s.pos /\ slot' = [from |-> s.pos, size |-> size, end |-> e]
    BY <1>4, <2>1 DEF Repack
  <2>3. PICK e \in find_piggy(s.pos) :
          size <= e - s.pos /\ slot' = [from |-> s.pos, size |-> size, end |-> e]
    BY <2>2
  <2>4. /\ s.pos = image.layout.kernel /\ image.layout.kernel \in Nat
        /\ e \in Nat /\ e <= image.layout.stub
    BY <2>1, RecognisedEnds, LayoutAssumption DEF ControlInv
  <2>5. size \in Nat
    BY ImageAssumption
  <2>6. s.pos + size <= e
    BY <2>3, <2>4, <2>5
  <2> QED
    BY <2>3, <2>4, <2>6
<1>5. CASE OpenTarget
  BY <1>5 DEF OpenTarget, Recognised, memVars, diskVars, history
<1>6. CASE FillTarget
  BY <1>6 DEF FillTarget, Recognised, memVars, diskVars, history
<1>7. CASE CloseTarget
  BY <1>7 DEF CloseTarget, Recognised, memVars, diskVars, history
<1>8. CASE Unlink
  BY <1>8 DEF Unlink, Recognised, memVars, diskVars, history
<1>9. ASSUME NEW m \in Mod, RemoveModule(m)
     PROVE  OnlyKernelReplaced'
  BY <1>9 DEF RemoveModule, Recognised, memVars, diskVars, history
<1>10. CASE EndRemove
  BY <1>10 DEF EndRemove, Recognised, memVars, diskVars, history
<1>11. ASSUME NEW m \in work, LoadModule(m)
     PROVE  OnlyKernelReplaced'
  BY <1>11 DEF LoadModule, Recognised, memVars, diskVars, history
<1>12. CASE WriteBack
  BY <1>12 DEF WriteBack, Recognised, memVars, diskVars, history
<1>13. CASE EndModules
  BY <1>13 DEF EndModules, Recognised, memVars, diskVars, history
<1>14. CASE ReadInitrd
  BY <1>14 DEF ReadInitrd, Recognised, memVars, diskVars, history
<1>15. CASE OpenInitrd
  BY <1>15 DEF OpenInitrd, Recognised, memVars, diskVars, history
<1>16. CASE FillInitrd
  BY <1>16 DEF FillInitrd, Recognised, memVars, diskVars, history
<1>17. CASE Kill
  BY <1>17 DEF Kill, Forget, Recognised, memVars, diskVars, history
<1>18. CASE UNCHANGED vars
  BY <1>18 DEF vars, Recognised, memVars, diskVars, history
<1> QED
  BY <1>1, <1>2, <1>3, <1>4, <1>5, <1>6, <1>8, <1>9, <1>10,
     <1>11, <1>12, <1>13, <1>14, <1>15, <1>16, <1>17, <1>18, <1>7 DEF Next

\* For every bzImage whose kernel is the first thing that unpacks and whose stub
\* find_piggy knows, the zeros and the kernel dd writes start where the compressed
\* kernel starts and end before the code behind it, whatever other signatures
\* there are (repack_bzimage.py:29-60, 88-89, 119).
THEOREM OnlyKernelOverwritten == Spec => []OnlyKernelReplaced
<1>1. Init => ControlInv /\ OnlyKernelReplaced
  BY ControlInit DEF Init, OnlyKernelReplaced
<1>2. ControlInv /\ OnlyKernelReplaced /\ [Next]_vars => (ControlInv /\ OnlyKernelReplaced)'
  BY ControlNext, SlotNext
<1> QED
  BY <1>1, <1>2, PTL DEF Spec

-----------------------------------------------------------------------------
\* InitrdKept.

\* Is only the last archive of the extracted initrd packed?
PackedLast ==
  \A i \in DOMAIN image.initrd.arch :
    image.initrd.arch[i].packed => i = Len(image.initrd.arch)

\* Was module m removed for a profile of some run?
Asked(m) == \E p \in asked : m \in Profile[p].rm \/ Under[m] \in Profile[p].rm

\* A whole initrd r has the archives of the image, but for removed modules.
Explained(r) ==
  r.state = "whole" /\ PackedLast =>
    /\ r.left = Len(r.arch) /\ Len(r.arch) = Len(image.initrd.arch)
    /\ \A i \in 1..Len(r.arch) :
         /\ r.arch[i].id = image.initrd.arch[i].id
         /\ r.arch[i].packed = image.initrd.arch[i].packed
         /\ ~r.arch[i].packed => r.arch[i] = image.initrd.arch[i]
         /\ \A m \in image.initrd.arch[i].mods \ r.arch[i].mods : Asked(m)

InitrdInv ==
  /\ pc # "off" => arg \in asked
  /\ Explained(initrd) /\ Explained(newrd)

\* The extracted initrd lacks nothing.
LEMMA InitrdInit ==
  ASSUME Init
  PROVE  InitrdInv
BY ImageAssumption DEF Init, InitrdInv, Explained, Archives

\* InitrdInv: only ReadInitrd prepares a new initrd.
LEMMA InitrdNext ==
  ASSUME ControlInv, InitrdInv, [Next]_vars
  PROVE  InitrdInv'
<1> USE AfterWriting DEF ControlInv, InitrdInv, Explained
<1>1. ASSUME NEW p \in DOMAIN Profile, Start(p)
     PROVE  InitrdInv'
  BY <1>1 DEF Start, Forget, PackedLast, Asked, memVars, diskVars, history
<1>2. CASE LoadKernel
  BY <1>2 DEF LoadKernel, PackedLast, Asked, memVars, diskVars, history
<1>3. ASSUME NEW s \in todo, PatchSym(s)
     PROVE  InitrdInv'
  BY <1>3 DEF PatchSym, PackedLast, Asked, memVars, diskVars, history
<1>4. ASSUME NEW size \in Sizes \cup {0}, Repack(size)
     PROVE  InitrdInv'
  BY <1>4 DEF Repack, PackedLast, Asked, memVars, diskVars, history
<1>5. CASE OpenTarget
  BY <1>5 DEF OpenTarget, PackedLast, Asked, memVars, diskVars, history
<1>6. CASE FillTarget
  BY <1>6 DEF FillTarget, PackedLast, Asked, memVars, diskVars, history
<1>7. CASE CloseTarget
  BY <1>7 DEF CloseTarget, PackedLast, Asked, memVars, diskVars, history
<1>8. CASE Unlink
  BY <1>8 DEF Unlink, PackedLast, Asked, memVars, diskVars, history
<1>9. ASSUME NEW m \in Mod, RemoveModule(m)
     PROVE  InitrdInv'
  BY <1>9 DEF RemoveModule, PackedLast, Asked, memVars, diskVars, history
<1>10. CASE EndRemove
  BY <1>10 DEF EndRemove, PackedLast, Asked, memVars, diskVars, history
<1>11. ASSUME NEW m \in work, LoadModule(m)
     PROVE  InitrdInv'
  BY <1>11 DEF LoadModule, PackedLast, Asked, memVars, diskVars, history
<1>12. CASE WriteBack
  BY <1>12 DEF WriteBack, PackedLast, Asked, memVars, diskVars, history
<1>13. CASE EndModules
  BY <1>13 DEF EndModules, PackedLast, Asked, memVars, diskVars, history
<1>14. CASE ReadInitrd
  <2>1. UNCHANGED <<image, initrd, asked, arg>> /\ pc # "off" /\ pc' # "off"
    BY <1>14 DEF ReadInitrd, diskVars
  <2>2. Explained(NewInitrd(Unpacked))
    <3>1. SUFFICES ASSUME NewInitrd(Unpacked).state = "whole", PackedLast
                   PROVE  Explained(NewInitrd(Unpacked))
      OBVIOUS
    <3>2. initrd.state = "whole"
      BY <3>1, NewInitrdFacts
    <3> DEFINE old == image.initrd.arch
    <3>3. /\ initrd.left = Len(initrd.arch) /\ Len(initrd.arch) = Len(old)
          /\ \A i \in 1..Len(initrd.arch) :
               /\ initrd.arch[i].id = old[i].id /\ initrd.arch[i].packed = old[i].packed
               /\ ~initrd.arch[i].packed => initrd.arch[i] = old[i]
               /\ \A m \in old[i].mods \ initrd.arch[i].mods : Asked(m)
      BY <3>1, <3>2
    <3>4. old \in Archives
      BY ImageAssumption DEF Archives, OneArchive
    <3>5. Len(Unpacked) = Len(old)
      <4>1. \A i \in 1..Len(old) : old[i].packed => i = Len(old)
        BY <3>1, <3>4 DEF PackedLast, Archives
      <4> QED
        BY <3>3, <4>1, UnpackedFacts
    <3>6. \A m : Removed(m) => Asked(m)
      BY <2>1 DEF Removed, Asked
    <3> QED
      BY <3>3, <3>5, <3>6, NewInitrdFacts
  <2>3. Explained(ShortInitrd)
    BY DEF ShortInitrd
  <2>4. Explained(newrd)'
    BY <1>14, <2>1, <2>2, <2>3, ReadFacts DEF PackedLast, Asked
  <2> QED
    BY <2>1, <2>4 DEF PackedLast, Asked
<1>15. CASE OpenInitrd
  BY <1>15 DEF OpenInitrd, PackedLast, Asked, memVars, diskVars, history
<1>16. CASE FillInitrd
  BY <1>16 DEF FillInitrd, PackedLast, Asked, memVars, diskVars, history
<1>17. CASE Kill
  BY <1>17 DEF Kill, Forget, PackedLast, Asked, memVars, diskVars, history
<1>18. CASE UNCHANGED vars
  BY <1>18 DEF vars, PackedLast, Asked, memVars, diskVars, history
<1> QED
  BY <1>1, <1>2, <1>3, <1>4, <1>5, <1>6, <1>8, <1>9, <1>10,
     <1>11, <1>12, <1>13, <1>14, <1>15, <1>16, <1>17, <1>18, <1>7 DEF Next

\* For any image whose initrd has its packed archive last, any profiles, faults
\* and orders of os.walk, an initrd that is whole has its archives in their
\* order and every module no profile removes (hwfilter.py:623-665).
THEOREM InitrdLosesNothingElse == Spec => []InitrdKept
<1>1. Init => ControlInv /\ InitrdInv
  BY ControlInit, InitrdInit
<1>2. ControlInv /\ InitrdInv /\ [Next]_vars => (ControlInv /\ InitrdInv)'
  BY ControlNext, InitrdNext
<1>3. ControlInv /\ InitrdInv => InitrdKept
  BY ImageAssumption DEF ControlInv, InitrdInv, InitrdKept, Explained, PackedLast, Asked, Archives
<1> QED
  BY <1>1, <1>2, <1>3, PTL DEF Spec

-----------------------------------------------------------------------------
\* What PatchRange does to a function.

\* The bytes from off on are well formed: endbr has four bytes, a call five.
WellFormed(data, off) ==
  \A i \in DOMAIN data : i >= off =>
    /\ data[i] = "endbr" => \A k \in (i + 1)..(i + 3) : k \in DOMAIN data /\ data[k] = "."
    /\ data[i] = "call" => \A k \in (i + 1)..(i + 4) : k \in DOMAIN data /\ data[k] = "."

\* A range that was patched makes its function return at once: at most endbr
\* and one call come before ret, in every code (hwfilter.py:546-571, 720-741).
THEOREM PatchedReturns ==
  ASSUME NEW data \in Seq(STRING), NEW off \in DOMAIN data, NEW end \in Nat,
         end <= Len(data) + 1, WellFormed(data, off),
         PatchRange(data, off, end).ret_patched
  PROVE  Disabled(PatchRange(data, off, end).data, off)
<1> DEFINE a == IF data[off] = "endbr" THEN off + 4 ELSE off
           b == IF a < end /\ data[a] = "call" THEN a + 5 ELSE a
           new == PatchRange(data, off, end).data
<1>1. /\ off \in Nat /\ off >= 1 /\ off <= Len(data)
      /\ a \in Nat /\ off <= a /\ b \in Nat /\ a <= b
  OBVIOUS
<1>2. b < end
  BY DEF PatchRange, EndbrLen, CallLen
<1>3. /\ DOMAIN new = 1..Len(data)
      /\ new[b] = "ret"
      /\ \A i \in off..(b - 1) : new[i] = data[i]
  BY <1>1, <1>2 DEF PatchRange, EndbrLen, CallLen
<1>4. \A i \in off..(a - 1) : data[i] = IF i = off THEN "endbr" ELSE "."
  BY <1>1 DEF WellFormed
<1>5. \A i \in a..(b - 1) : data[i] = IF i = a THEN "call" ELSE "."
  BY <1>1, <1>2 DEF WellFormed
<1>6. /\ b \in off..Len(new)
      /\ \A i \in off..(b - 1) : new[i] \in {"endbr", "call", "."}
      /\ \A i, j \in off..(b - 1) : new[i] = "call" /\ new[j] = "call" => i = j
  <2>1. Len(new) = Len(data)
    BY <1>3
  <2>2. ASSUME NEW i \in off..(b - 1)
        PROVE  i \in off..(a - 1) \/ i \in a..(b - 1)
    BY <1>1
  <2> HIDE DEF a, b, new
  <2>3. \A i \in off..(b - 1) : new[i] \in {"endbr", "call", "."} /\ (new[i] = "call" => i = a)
    BY <1>1, <1>3, <1>4, <1>5, <2>2
  <2> QED
    BY <1>1, <1>2, <2>1, <2>3
<1> HIDE DEF a, b, new
<1>7. Disabled(new, off)
  BY <1>3, <1>6 DEF Disabled
<1> QED
  BY <1>7 DEF new

\* Bytes outside the range stay as they are (hwfilter.py:562-571).
THEOREM PatchStaysInRange ==
  ASSUME NEW data \in Seq(STRING), NEW off \in Nat, NEW end \in Nat,
         NEW i \in DOMAIN data, i < off \/ i >= end
  PROVE  PatchRange(data, off, end).data[i] = data[i]
BY DEF PatchRange, EndbrLen, CallLen

=============================================================================
