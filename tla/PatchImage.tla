----------------------------- MODULE PatchImage -----------------------------
(***************************************************************************)
(* patch_image (kernel_patch/patch-disk-image.py): disable the functions of *)
(* the kernel, pack it again, delete modules, disable functions in the     *)
(* remaining ones and pack the initrd again, all in place on the extracted *)
(* tree.  The tree outlives the run: runs with other profiles follow, and  *)
(* a run may be killed between any two steps.                              *)
(***************************************************************************)
EXTENDS FunctionPatch, Integers, FiniteSets

CONSTANTS
  Mod,       \* stems of the module files
  Under,     \* stem -> the stem with "_" for "-"
  Profile,   \* name -> what patch_image is called with: [funcs, rm, kos]
  Images,    \* the extracted trees: the code and symbols of the kernel
             \* (System.map, .text) and of each module (objdump), is there a
             \* link boot/vmlinuz, the layout of the bzImage, the archives of
             \* the initrd
  Sizes,     \* sizes the compressed kernel may have
  MaxRuns,   \* bound: how often the script is started
  Faults     \* subset of {"kill", "tool"}

Align == 16  \* find_piggy looks at multiples of 16

KernFile == {"vmlinuz", "vmlinuz.patched", "patched/vmlinuz"}
Path     == KernFile \cup Mod

Gone  == <<"gone">>   \* no such file
Zeros == <<"zeros">>  \* a bzImage without a kernel in it

ASSUME ImageAssumption ==
  /\ MaxRuns \in Nat /\ Faults \subseteq {"kill", "tool"}
  /\ Sizes \subseteq Nat \ {0}
  /\ DOMAIN Under = Mod
  /\ Mod \cap KernFile = {}
  /\ DOMAIN Profile # {}
  /\ \A i \in Images : /\ DOMAIN i.module = Mod
                       /\ DOMAIN i.initrd = {"state", "arch", "left"}
                       /\ i.initrd.state \in {"none", "whole"}
                       /\ i.initrd.arch \in Seq([id : STRING, packed : BOOLEAN, mods : SUBSET Mod])
                       /\ i.initrd.left = Len(i.initrd.arch)
                       /\ i.initrd.state = "none" => i.initrd.arch = <<>>

\* Something starts, or the code ends, before byte i of text t.
Boundary(t, i) == i = Len(t) + 1 \/ (i \in DOMAIN t /\ t[i] # ".")

\* The instruction at i has n bytes.
HasSize(t, i, n) == Boundary(t, i + n) /\ \A k \in (i + 1)..(i + n - 1) : t[k] = "."

\* Code as compilers leave it: functions of whole instructions, none sharing
\* bytes with another; endbr has four bytes, a call five.
IsCode(b) ==
  /\ b.text \in Seq(STRING) /\ 2 \in DOMAIN b.text
  /\ b.syms \in Seq([name : STRING, ty : STRING, off : Nat, end : Nat])
  /\ \A k \in DOMAIN b.syms :
       /\ 1 <= b.syms[k].off /\ b.syms[k].off < b.syms[k].end
       /\ Boundary(b.text, b.syms[k].off) /\ Boundary(b.text, b.syms[k].end)
       /\ \A j \in DOMAIN b.syms \ {k} :
            b.syms[k].end <= b.syms[j].off \/ b.syms[j].end <= b.syms[k].off
  /\ \A i \in DOMAIN b.text : /\ b.text[i] = "endbr" => HasSize(b.text, i, EndbrLen)
                              /\ b.text[i] = "call" => HasSize(b.text, i, CallLen)

\* Where patch_kernel looks for symbol k: the address System.map gives it, as if
\* it were in .text, which starts text_off bytes behind the start of the file.
KernelPlace(b, k) == b.addr[k] - b.textaddr + b.text_off + 1

\* In the kernel a name is global at most once.
ASSUME CodeAssumption ==
  \A i \in Images :
    /\ IsCode(i.kernel) /\ \A m \in Mod : IsCode(i.module[m])
    /\ i.kernel.textaddr \in Nat /\ i.kernel.text_off \in Nat
    /\ \A k \in DOMAIN i.kernel.syms :
         i.kernel.addr[k] \in Nat /\ KernelPlace(i.kernel, k) \in DOMAIN i.kernel.text
    /\ \A j, k \in DOMAIN i.kernel.syms :
         /\ i.kernel.syms[j].name = i.kernel.syms[k].name
         /\ i.kernel.syms[j].ty = "T" /\ i.kernel.syms[k].ty = "T"
         => j = k

\* The bzImage: where the compressed kernel and the code behind it start, where
\* there are signatures of compressed data (does something come out?) and of
\* that code, by chance too.
ASSUME LayoutAssumption ==
  \A i \in Images :
    /\ i.layout.kernel \in Nat /\ i.layout.stub \in Nat /\ i.layout.kernel < i.layout.stub
    /\ i.layout.piggies \subseteq Nat
    /\ i.layout.sigs \subseteq [alg : Nat, pos : Nat, unpacks : BOOLEAN]

VARIABLES
  pc,      \* the next step of patch_image
  image,   \* the image, as extracted
  arg,     \* the profile of this run
  cur, mem, todo, work,  \* the file being patched, its bytes in memory, the
                         \* functions left, the module files left
  cut,     \* is something behind the code of that file missing or overwritten?
  half,    \* is the file being written open?
  slot,    \* where dd writes zeros and then the compressed kernel
  newrd,   \* the parts of the initrd, the packed one replaced by newrd.img
  disk,    \* the code of the files, as last written
  torn,    \* the files that were truncated and not written to the end
  blank,   \* those of them whose code cannot be read
  initrd,  \* its archives, and how many of them can be read
  runs, asked, faults    \* history: runs started, their profiles, faults

memVars  == <<arg, cur, mem, todo, work, cut, slot, newrd>>
diskVars == <<disk, torn, blank, initrd>>
history  == <<runs, asked, faults>>
vars == <<pc, image, memVars, half, diskVars, history>>

\* The original code and the symbols of a file.
Bin(f) == IF f \in KernFile THEN image.kernel ELSE image.module[f]

Idle == {"off", "failed", "done"}

\* What is written in place, and what comes after it.
After == [copy |-> "inplace", inplace |-> "unlink", raw |-> "remove",
          writeback |-> "modules"]
Target == IF pc = "writeback" THEN cur
          ELSE [copy |-> "vmlinuz.patched", inplace |-> "vmlinuz", raw |-> "patched/vmlinuz"][pc]

TypeOK ==
  /\ pc \in Idle \cup DOMAIN After \cup
            {"kernel", "patch", "unlink", "remove", "modules", "initrd", "writerd"}
  /\ arg \in DOMAIN Profile
  /\ cur \in Path /\ work \subseteq Mod
  /\ todo \subseteq {Bin(cur).syms[k].name : k \in DOMAIN Bin(cur).syms}
  /\ cut \in BOOLEAN /\ half \in BOOLEAN /\ (half => pc \in DOMAIN After \cup {"writerd"})
  /\ \A f \in Path : disk[f] \in {Gone, Zeros} \/ Len(disk[f]) = Len(Bin(f).text)
  /\ torn \subseteq Path /\ blank \subseteq torn
  /\ initrd.state \in {"none", "whole", "torn", "short"}
  /\ initrd.left \in 0..Len(initrd.arch)
  /\ runs \in 0..MaxRuns /\ asked \subseteq DOMAIN Profile
  /\ faults \subseteq Faults \cup {"damage"}

Init ==
  /\ pc = "off" /\ image \in Images /\ arg = CHOOSE p \in DOMAIN Profile : TRUE
  /\ cur = "vmlinuz" /\ mem = <<>> /\ todo = {} /\ work = {} /\ cut = FALSE /\ half = FALSE
  /\ slot = [from |-> 0, size |-> 0, end |-> 0] /\ initrd = image.initrd /\ newrd = initrd
  /\ disk = [f \in Path |-> IF f \in Mod \cup {"vmlinuz"} THEN Bin(f).text ELSE Gone]
  /\ torn = {} /\ blank = {} /\ runs = 0 /\ asked = {} /\ faults = {}

\* The process starts or dies: nothing but the files stays.
Forget ==
  /\ cur' = "vmlinuz" /\ mem' = <<>> /\ todo' = {} /\ work' = {} /\ cut' = FALSE /\ half' = FALSE
  /\ slot' = [from |-> 0, size |-> 0, end |-> 0] /\ newrd' = initrd

Start(p) ==
  /\ pc \in Idle /\ runs < MaxRuns
  /\ pc' = "kernel" /\ arg' = p
  /\ runs' = runs + 1 /\ asked' = asked \cup {p}
  /\ Forget
  /\ UNCHANGED <<image, diskVars, faults>>

-----------------------------------------------------------------------------
\* patch_kernel, patch_module: the functions of one file.

\* The entries of System.map or of objdump that name function s.
Entries(f, s) == {k \in DOMAIN Bin(f).syms :
                    /\ Bin(f).syms[k].name = s
                    /\ f \in KernFile => Bin(f).syms[k].ty \in {"T", "t", "W", "w"}}
FirstOf(K) == CHOOSE k \in K : \A j \in K : k <= j
LastOf(K)  == CHOOSE k \in K : \A j \in K : j <= k

\* Mutant of Entry: in the kernel too the last entry counts.
EntryLast(f, s) == LastOf(Entries(f, s))

\* sym_map: the first entry counts, but a global one replaces it; off_map: the
\* last entry counts.
Entry(f, s) ==
  LET globals == {k \in Entries(f, s) : Bin(f).syms[k].ty = "T"}
  IN  IF f \in KernFile /\ globals = {} THEN FirstOf(Entries(f, s))
      ELSE IF f \in KernFile THEN LastOf(globals) ELSE LastOf(Entries(f, s))

\* objdump prints the offset of a module's function in the file.
Place(f, k) == IF f \in KernFile THEN KernelPlace(Bin(f), k) ELSE Bin(f).syms[k].off

Off(f, s) == Place(f, Entry(f, s))

\* The code of file f can be read, though what follows it may be missing.
Readable(f) == disk[f] \notin {Gone, Zeros} /\ f \notin blank

Exists(f) == disk[f] # Gone \/ f \in torn

\* Without the link boot/vmlinuz the last of vmlinuz-* counts, which is a
\* vmlinuz-<version>.patched if an earlier run left one.
get_kernel == IF image.linked \/ ~Exists("vmlinuz.patched")
              THEN "vmlinuz" ELSE "vmlinuz.patched"

\* Mutant of LoadKernel: every run starts from the kernel as shipped.
LoadKernelPristine ==
  /\ pc = "kernel" /\ pc' = "patch"
  /\ mem' = Bin("vmlinuz").text
  /\ todo' = {s \in Profile[arg].funcs : Entries("vmlinuz", s) # {}}
  /\ UNCHANGED <<image, arg, cur, work, cut, slot, newrd, half, diskVars, history>>

\* A version ending in .patched has no modules, and a file from which no kernel
\* comes out has no .text: both end the script.  A vmlinuz that was cut off
\* behind the compressed kernel is as good as a whole one to the script: going
\* on with it counts as damage.
LoadKernel ==
  /\ pc = "kernel"
  /\ \/ /\ get_kernel # "vmlinuz" \/ "vmlinuz" \in torn \/ disk["vmlinuz"] = Zeros
        /\ pc' = "failed" /\ UNCHANGED <<cur, mem, todo, cut, faults>>
     \/ /\ get_kernel = "vmlinuz" /\ Readable("vmlinuz")
        /\ pc' = "patch" /\ cur' = "vmlinuz" /\ mem' = disk["vmlinuz"]
        /\ todo' = {s \in Profile[arg].funcs : Entries("vmlinuz", s) # {}}
        /\ cut' = ("vmlinuz" \in torn)
        /\ faults' = IF "vmlinuz" \in torn THEN faults \cup {"damage"} ELSE faults
  /\ UNCHANGED <<image, arg, work, slot, newrd, half, diskVars, runs, asked>>

\* The ranges come from the file, the bytes go to the copy in memory.  Only
\* patch_module insists that something was patched.
PatchSym(s) ==
  /\ pc = "patch" /\ s \in todo
  /\ LET w == disasm(disk[cur], Off(cur, s), cur = "vmlinuz")
         p == PatchRange(mem, Off(cur, s), w.off)
     IN  IF w.error \/ (cur # "vmlinuz" /\ ~p.ret_patched)
         THEN pc' = "failed" /\ UNCHANGED <<mem, todo>>
         ELSE mem' = p.data /\ todo' = todo \ {s} /\ UNCHANGED pc
  /\ UNCHANGED <<image, arg, cur, work, cut, slot, newrd, half, diskVars, history>>

-----------------------------------------------------------------------------
\* repack_bzimage and replace_kernel.

\* Mutant of identify: the first signature counts, tried or not.
identify_untried ==
  {s \in image.layout.sigs :
     \A r \in image.layout.sigs : s.alg < r.alg \/ (s.alg = r.alg /\ s.pos <= r.pos)}

\* identify_compression_algorithm: algorithm by algorithm, the first signature
\* from where something can be unpacked.  At most one.
identify ==
  LET good == {s \in image.layout.sigs : s.unpacks}
  IN  {s \in good : \A r \in good : s.alg < r.alg \/ (s.alg = r.alg /\ s.pos <= r.pos)}

\* The first aligned occurrence of the code behind the kernel.  At most one.
find_piggy(start) ==
  LET from == IF start = 0 THEN 0 ELSE start - (start % Align) + Align
      hits == {i \in image.layout.piggies : i >= from /\ i % Align = 0}
  IN  {i \in hits : \A j \in hits : i <= j}

\* Does a kernel of this size fit between start and what is taken for the code
\* behind it?
Fits(size) == \E s \in identify : \E e \in find_piggy(s.pos) : size <= e - s.pos

\* Zeros are written from start to end, then the compressed kernel at start:
\* does that overwrite anything but the old kernel, or leave a part of it?
Misses(start, end) == start # image.layout.kernel \/ end > image.layout.stub

\* Mutant of Repack: vmlinuz is overwritten without a copy beside it.
RepackDirect(size) ==
  /\ pc = "patch" /\ cur = "vmlinuz" /\ todo = {} /\ Fits(size)
  /\ pc' = "inplace"
  /\ UNCHANGED <<image, memVars, half, diskVars, history>>

\* Size 0 is a compressor that failed, which nobody notices: it fits.  In a
\* file that was cut off the code behind the kernel may be missing.
Repack(size) ==
  /\ pc = "patch" /\ cur = "vmlinuz" /\ todo = {}
  /\ size = 0 => "tool" \in Faults
  /\ \/ \E s \in identify : \E e \in find_piggy(s.pos) :
          /\ size <= e - s.pos
          /\ pc' = "copy" /\ slot' = [from |-> s.pos, size |-> size, end |-> e]
          /\ mem' = IF size = 0 THEN Zeros ELSE mem
          /\ cut' = (cut \/ Misses(s.pos, e))
          /\ faults' = faults \cup (IF size = 0 THEN {"tool"} ELSE {})
                              \cup (IF Misses(s.pos, e) THEN {"damage"} ELSE {})
     \/ /\ size # 0 /\ (cut \/ ~Fits(size))
        /\ pc' = "raw" /\ UNCHANGED <<slot, mem, cut, faults>>
  /\ UNCHANGED <<image, arg, cur, todo, work, newrd, half, diskVars, runs, asked>>

\* Files are overwritten in place: opening truncates, then the bytes follow.
OpenTarget ==
  /\ pc \in DOMAIN After /\ ~half
  /\ torn' = torn \cup {Target} /\ blank' = blank \cup {Target} /\ half' = TRUE
  /\ UNCHANGED <<pc, image, memVars, disk, initrd, history>>

\* The code has been written.  The copy vmlinuz.patched has gone through the
\* copying, the zeros and the second dd: until then it counts as unreadable.
\* A module's compressor may fail, which nobody notices either.
FillTarget ==
  /\ pc \in DOMAIN After /\ half /\ Target \in blank
  /\ \/ /\ disk' = [disk EXCEPT ![Target] = mem] /\ blank' = blank \ {Target}
        /\ UNCHANGED <<pc, half, faults>>
     \/ /\ pc = "writeback" /\ "tool" \in Faults
        /\ pc' = After[pc] /\ half' = FALSE
        /\ faults' = faults \cup {"tool"}
        /\ UNCHANGED <<disk, blank>>
  /\ UNCHANGED <<image, memVars, torn, initrd, runs, asked>>

\* The rest has been written too.  vmlinuz is the copy, and the copy is the old
\* vmlinuz with another kernel in it: what was missing still is.
CloseTarget ==
  /\ pc \in DOMAIN After /\ half /\ Target \notin blank
  /\ torn' = IF cut /\ pc # "raw" THEN torn ELSE torn \ {Target}
  /\ half' = FALSE /\ pc' = After[pc]
  /\ UNCHANGED <<image, memVars, disk, blank, initrd, history>>

\* Mutant of Unlink: the copy stays.
UnlinkForgotten ==
  /\ pc = "unlink" /\ pc' = "remove"
  /\ UNCHANGED <<image, memVars, half, diskVars, history>>

Unlink ==
  /\ pc = "unlink" /\ pc' = "remove"
  /\ disk' = [disk EXCEPT !["vmlinuz.patched"] = Gone]
  /\ torn' = torn \ {"vmlinuz.patched"} /\ blank' = blank \ {"vmlinuz.patched"}
  /\ UNCHANGED <<image, memVars, half, initrd, history>>

-----------------------------------------------------------------------------
\* remove_module, patch_module and patch_initrd.

\* Mutant of Removed: names are compared as they are.
RemovedExact(m) == m \in Profile[arg].rm

Removed(m) == m \in Profile[arg].rm \/ Under[m] \in Profile[arg].rm

RemoveModule(m) ==
  /\ pc = "remove" /\ Removed(m) /\ disk[m] # Gone
  /\ disk' = [disk EXCEPT ![m] = Gone] /\ torn' = torn \ {m} /\ blank' = blank \ {m}
  /\ UNCHANGED <<pc, image, memVars, half, initrd, history>>

\* The files patch_module visits, in any order: here names are compared as
\* they are, and mod_patch has the names of the build, with "_" for "-".
EndRemove ==
  /\ pc = "remove" /\ \A m \in Mod : Removed(m) => disk[m] = Gone
  /\ pc' = "modules"
  /\ work' = {m \in Mod : disk[m] # Gone /\ \E k \in Profile[arg].kos : k[2] = m}
  /\ UNCHANGED <<image, arg, cur, mem, todo, cut, slot, newrd, half, diskVars, history>>

\* Mutant of LoadModule: functions objdump does not show are not left out.
LoadModuleUnfiltered(m) ==
  /\ pc = "modules" /\ m \in work
  /\ pc' = "patch" /\ cur' = m /\ mem' = disk[m] /\ work' = work \ {m}
  /\ todo' = {k[1] : k \in {x \in Profile[arg].kos : x[2] = m}}
  /\ UNCHANGED <<image, arg, cut, slot, newrd, half, diskVars, history>>

\* If objdump finds nothing in a truncated module, that ends the script.
LoadModule(m) ==
  /\ pc = "modules" /\ m \in work
  /\ \/ m \in torn /\ pc' = "failed" /\ UNCHANGED <<cur, mem, todo, work, cut>>
     \/ /\ m \notin blank
        /\ pc' = "patch" /\ cur' = m /\ mem' = disk[m] /\ work' = work \ {m}
        /\ todo' = {k[1] : k \in {x \in Profile[arg].kos :
                                    x[2] = m /\ Entries(m, x[1]) # {}}}
        /\ cut' = (m \in torn)
  /\ UNCHANGED <<image, arg, slot, newrd, half, diskVars, history>>

WriteBack ==
  /\ pc = "patch" /\ cur \in Mod /\ todo = {}
  /\ pc' = "writeback"
  /\ UNCHANGED <<image, memVars, half, diskVars, history>>

EndModules ==
  /\ pc = "modules" /\ work = {}
  /\ pc' = "initrd"
  /\ UNCHANGED <<image, memVars, half, diskVars, history>>

\* unpack-initramfs.sh: the archives one by one, numbered, up to the first packed
\* one, whose file has all that follows; of that only the first archive is read.
Unpacked ==
  LET packed == {i \in 1..initrd.left : initrd.arch[i].packed}
  IN  SubSeq(initrd.arch, 1, IF packed = {} THEN initrd.left ELSE FirstOf(packed))

\* The files of out/ in an order os.walk may give.
Listings ==
  LET n == Len(Unpacked)
  IN  {[k \in 1..n |-> [num |-> o[k], data |-> Unpacked[o[k]]]] :
         o \in {p \in [1..n -> 1..n] : \A i \in 1..n : \E k \in 1..n : p[k] = i}}

\* Mutant of Parts: in the order of the listing.
PartsListed(files) == [k \in DOMAIN files |-> files[k].data]

\* parts: each file at the place its number gives it.
Parts(files) ==
  [i \in DOMAIN files |-> (CHOOSE f \in {files[k] : k \in DOMAIN files} : f.num = i).data]

\* The packed part is unpacked, loses modules and is packed again.  What can be
\* unpacked of a torn initrd is packed again as if it were all.
NewInitrd(parts) ==
  [state |-> IF initrd.state = "whole" THEN "whole" ELSE "short",
   arch  |-> [i \in DOMAIN parts |->
                IF parts[i].packed
                THEN [parts[i] EXCEPT !.mods = {m \in @ : ~Removed(m)}] ELSE parts[i]],
   left  |-> Len(parts)]

\* cpio or the compressor failed, which nobody notices: newrd.img is empty.
ShortInitrd ==
  [state |-> "short", arch |-> SubSeq(Unpacked, 1, Len(Unpacked) - 1),
   left |-> Len(Unpacked) - 1]

\* Without a packed part the suffix is "cpio", which unpack_helper lacks; an
\* empty file has no part at all.
ReadInitrd ==
  /\ pc = "initrd"
  /\ \/ initrd.state = "none" /\ pc' = "done" /\ UNCHANGED <<newrd, faults>>
     \/ /\ initrd.state # "none" /\ \A i \in DOMAIN Unpacked : ~Unpacked[i].packed
        /\ pc' = "failed" /\ UNCHANGED <<newrd, faults>>
     \/ /\ initrd.state # "none" /\ \E i \in DOMAIN Unpacked : Unpacked[i].packed
        /\ pc' = "writerd"
        /\ \/ \E files \in Listings : newrd' = NewInitrd(Parts(files)) /\ UNCHANGED faults
           \/ /\ "tool" \in Faults /\ faults' = faults \cup {"tool"}
              /\ newrd' = ShortInitrd
  /\ UNCHANGED <<image, arg, cur, mem, todo, work, cut, slot, half, diskVars, runs, asked>>

OpenInitrd ==
  /\ pc = "writerd" /\ ~half
  /\ half' = TRUE
  /\ \E n \in 0..Len(newrd.arch) :
       initrd' = [state |-> "torn", arch |-> newrd.arch, left |-> n]
  /\ UNCHANGED <<pc, image, memVars, disk, torn, blank, history>>

FillInitrd ==
  /\ pc = "writerd" /\ half
  /\ half' = FALSE /\ initrd' = newrd /\ pc' = "done"
  /\ UNCHANGED <<image, memVars, disk, torn, blank, history>>

Kill ==
  /\ "kill" \in Faults /\ pc \notin Idle
  /\ pc' = "off" /\ faults' = faults \cup {"kill"}
  /\ Forget
  /\ UNCHANGED <<image, arg, diskVars, runs, asked>>

Next ==
  \/ \E p \in DOMAIN Profile : Start(p)
  \/ LoadKernel
  \/ \E s \in todo : PatchSym(s)
  \/ \E size \in Sizes \cup {0} : Repack(size)
  \/ OpenTarget \/ FillTarget \/ CloseTarget \/ Unlink
  \/ \E m \in Mod : RemoveModule(m)
  \/ EndRemove
  \/ \E m \in work : LoadModule(m)
  \/ WriteBack \/ EndModules
  \/ ReadInitrd \/ OpenInitrd \/ FillInitrd
  \/ Kill

Spec == Init /\ [][Next]_vars

-----------------------------------------------------------------------------
\* Properties.

Whole(f) == Readable(f) /\ f \notin torn

\* The functions of file f that profile p lists, in either spelling of the file's
\* name, and some run was asked for.
ListedBy(p, f) ==
  IF f \in KernFile THEN Profile[p].funcs
  ELSE {k[1] : k \in {x \in Profile[p].kos : x[2] \in {f, Under[f]}}}
Listed(f) == UNION {ListedBy(p, f) : p \in asked}

\* Is symbol k the one meant by its name?  Of several functions with one name:
\* in the kernel a global one, else the first; in a module the last.
Meant(f, k) ==
  LET e == Bin(f).syms
      same == {j \in DOMAIN e : /\ e[j].name = e[k].name
                                /\ f \in Mod \/ e[j].ty \in {"T", "t", "W", "w"}}
  IN  IF f \in Mod THEN \A j \in same : j <= k
      ELSE \/ e[k].ty = "T"
           \/ e[k].ty \in {"t", "W", "w"} /\ \A j \in same : k <= j /\ e[j].ty # "T"

Insns(f, k) == {i \in Bin(f).syms[k].off..(Bin(f).syms[k].end - 1) : Bin(f).text[i] # "."}

\* The walk over some listed function leaves it.  The function has fewer than
\* three instructions and ends in neither ret nor jump (ud2, a call that does not
\* return) or, in a module, starts with a short jump; or it is in another section
\* of the kernel than .text and not where patch_kernel looks for it.
Strays(f) ==
  \E k \in DOMAIN Bin(f).syms :
    /\ Bin(f).syms[k].name \in Listed(f) /\ Meant(f, k)
    /\ \/ Place(f, k) # Bin(f).syms[k].off
       \/ /\ Cardinality(Insns(f, k)) <= MaxInsn
          /\ LET code == {Bin(f).text[i] : i \in Insns(f, k)}
             IN  \/ code \cap (Jump \cup {"ret"}) = {}
                 \/ f \in Mod /\ code \cap {"sjmp", "loop"} # {}

\* The modules in the archives of initrd r that are packed, and in all of them.
PackedMods(r) == UNION {r.arch[i].mods : i \in {j \in DOMAIN r.arch : r.arch[j].packed}}
AllMods(r)    == UNION {r.arch[i].mods : i \in DOMAIN r.arch}

\* A run that ends normally did what it was asked: every listed function whose
\* code capstone can decode returns at once, in vmlinuz or in the raw kernel
\* left in boot/patched, or in its module; no listed module is left on the disk
\* or in a packed archive of the initrd.  It holds after any runs and kills
\* before it and for any order of the functions.  Left out, because the code
\* does not do it: functions of a module file with "-" in its name, which
\* patch_module looks up with "-" although they are listed with "_", and modules
\* in an archive that is not packed (hwfilter.py:537-571, 671-767).
DoneDisables ==
  pc = "done" /\ "tool" \notin faults =>
    LET AllReturn(f) ==
          \A k \in DOMAIN Bin(f).syms :
            /\ Bin(f).syms[k].name \in ListedBy(arg, f) /\ Meant(f, k)
            /\ \A i \in Insns(f, k) : Bin(f).text[i] # "bad"
            => Disabled(disk[f], Bin(f).syms[k].off)
    IN  /\ \/ Strays("vmlinuz")
           \/ \E f \in {"vmlinuz", "patched/vmlinuz"} : Readable(f) /\ AllReturn(f)
        /\ \A m \in Mod : Readable(m) /\ Under[m] = m /\ ~Strays(m) => AllReturn(m)
        /\ \A m \in Mod : {m, Under[m]} \cap Profile[arg].rm # {} =>
                           disk[m] = Gone /\ m \notin PackedMods(initrd)

\* Functions nobody listed stay as they were, byte for byte, those with the
\* name of a listed one included, and walking again over what an earlier run
\* patched never goes further than the first walk (disasm.py:72-92,
\* hwfilter.py:506-516).
OthersKept ==
  \A f \in Path : Readable(f) /\ ~Strays(f) =>
    \A k \in DOMAIN Bin(f).syms :
      \/ Bin(f).syms[k].name \in Listed(f) /\ Meant(f, k)
      \/ \A i \in Bin(f).syms[k].off..(Bin(f).syms[k].end - 1) :
           disk[f][i] = Bin(f).text[i]

\* Patches only add up: what one run disabled in vmlinuz or a module or deleted,
\* no later run brings back, although its profile may need it, because every run
\* starts from the tree the last one left.  The raw kernel in boot/patched is
\* left out: nothing reads it, and each run that cannot repack overwrites it
\* (test/run.sh:94-97, 130; hwfilter.py:764).
PatchesAccumulate ==
  [][/\ \A f \in Mod \cup {"vmlinuz"} :
          \/ disk'[f] \in {Gone, Zeros} \/ Strays(f)
          \/ /\ disk[f] \notin {Gone, Zeros}
             /\ \A k \in DOMAIN Bin(f).syms :
                  Disabled(disk[f], Bin(f).syms[k].off)
                    => Disabled(disk'[f], Bin(f).syms[k].off)
     /\ AllMods(initrd') \subseteq AllMods(initrd)]_vars

\* At every moment, killed or not, the tree holds a kernel that boots: vmlinuz
\* or, while that is overwritten, the whole copy beside it.  Two things end
\* this: a compressor that fails, and damage, that is a signature or a stub
\* recognised in the wrong place, or a run that goes on from a vmlinuz which a
\* kill cut short behind the compressed kernel: it starts by writing that over
\* the whole copy (repack_bzimage.py:84-93, 40-43).
SomeKernelWhole ==
  faults \cap {"tool", "damage"} = {} => Whole("vmlinuz") \/ Whole("vmlinuz.patched")

\* The kernel's own signature is the first, algorithm by algorithm, from which
\* something comes out, and the code behind it is one find_piggy knows.
Recognised ==
  LET lay == image.layout
  IN  /\ \E k \in lay.sigs :
           /\ k.unpacks /\ k.pos = lay.kernel
           /\ \A s \in lay.sigs : s.unpacks =>
                k.alg < s.alg \/ (k.alg = s.alg /\ k.pos <= s.pos)
      /\ lay.stub \in lay.piggies /\ lay.stub % Align = 0

\* In such a bzImage dd changes the compressed kernel and nothing else: zeros and
\* kernel start where the kernel starts and end before the code behind it,
\* whatever else looks like compressed data or like that code.  In others a
\* signature met by chance from which anything comes out is taken for the
\* kernel's (repack_bzimage.py:29-60, 88-89, 119).
OnlyKernelReplaced ==
  pc \in {"copy", "inplace", "unlink"} /\ Recognised =>
    /\ slot.from = image.layout.kernel
    /\ slot.from + slot.size <= slot.end /\ slot.end <= image.layout.stub

\* A run that gives up has not left a file half written, and no run leaves
\* vmlinuz.patched behind, which the next one would take for the kernel: only
\* a kill, a failing tool or damage does (hwfilter.py:742, repack_bzimage.py:91-93).
WholeUnlessDisturbed ==
  pc \in Idle /\ faults = {} =>
    /\ torn = {} /\ disk["vmlinuz.patched"] = Gone
    /\ initrd.state \in {"none", "whole"}

\* An initrd whose packed archive is the last keeps its archives, in their order
\* however os.walk lists the parts; those that are not packed keep all of their
\* content, and the packed one every module no profile removes
\* (hwfilter.py:623-665).
InitrdKept ==
  LET old == image.initrd.arch
  IN  initrd.state = "whole" /\ (\A i \in DOMAIN old : old[i].packed => i = Len(old)) =>
        /\ Len(initrd.arch) = Len(old)
        /\ \A i \in DOMAIN old :
             /\ initrd.arch[i].id = old[i].id
             /\ ~old[i].packed => initrd.arch[i] = old[i]
             /\ \A m \in old[i].mods \ initrd.arch[i].mods :
                  \E p \in asked : m \in Profile[p].rm \/ Under[m] \in Profile[p].rm

=============================================================================
