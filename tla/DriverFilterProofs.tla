------------------------- MODULE DriverFilterProofs -------------------------
(***************************************************************************)
(* Proofs about DriverFilter, for any images, names and relations.         *)
(***************************************************************************)
EXTENDS DriverFilter, FiniteSetTheorems, WellFoundedInduction, TLAPS

\* driver_map has the modules of hw.db, once that is read.
DbInv ==
  /\ stage \in {"load", "failed"} => driver_map = <<>>
  /\ stage \notin {"load", "failed"} =>
       DOMAIN driver_map = {Bare(img.hwdb[i].mod) : i \in DOMAIN img.hwdb}

\* An initcall at position j of System.map that the scan looks at.
ScannedAt(j) ==
  /\ img.symtab[j].style \in {"kmod", "old"}
  /\ \E b \in 1..(j - 1) : img.symtab[b].style = "start"

\* The loop over System.map: how far it is and what it has seen.
PosInv ==
  /\ stage \in {"load", "failed", "modules"} => pos = 1 /\ ~start_flag
  /\ \A j \in 1..(pos - 1) : img.symtab[j].style # "end"
  /\ start_flag <=> \E b \in 1..(pos - 1) : img.symtab[b].style = "start"
  /\ stage \notin {"load", "failed", "modules", "scan"} =>
       (pos <= Len(img.symtab) => img.symtab[pos].style = "end")

\* An initcall behind the loop is patched if a driver it belongs to is not
\* wanted, and otherwise skipped.
SortedInv ==
  \A j \in 1..(pos - 1) :
    ScannedAt(j) =>
      IF Unwanted(img.symtab[j]) = {} THEN img.symtab[j] \in skip_list
      ELSE \E p \in patch_list : p[2] = img.symtab[j]

\* Nothing else is patched or skipped, and the variable mod has a value when
\* something is removed.
OriginInv ==
  /\ stage \in {"load", "failed", "modules"} =>
       patch_list = {} /\ skip_list = {} /\ builtin_mod_remove = {}
  /\ \A p \in patch_list : Unwanted(p[2]) # {}
  /\ \A p \in patch_list : \E j \in 1..(pos - 1) : p[2] = img.symtab[j] /\ ScannedAt(j)
  /\ \A s \in skip_list : \E j \in 1..(pos - 1) : s = img.symtab[j] /\ ScannedAt(j)
  /\ builtin_mod_remove # {} => last_mod # {}
  /\ builtin_mod_remove \subseteq DOMAIN driver_map

ScanInv == PosInv /\ SortedInv /\ OriginInv

\* CheckDeps has added an initcall for every dependent, and no other.
DepsInv ==
  /\ stage \in {"load", "failed", "modules", "scan", "deps"} => new_patch_list = {}
  /\ stage \in {"collect", "call", "done"} =>
       /\ patch_list \subseteq new_patch_list
       /\ \A d \in BuiltinDeps :
            \E p \in new_patch_list :
              p[2] \in skip_list /\ match_initcall_sig(d, InitOf(d), p[2])
  /\ \A p \in new_patch_list :
       \/ p \in patch_list
       \/ /\ p[2] \in skip_list
          /\ \E d \in BuiltinDeps : match_initcall_sig(d, InitOf(d), p[2])

\* The functions CollectInit has filed, and for which pairs it has.
FiledInv ==
  /\ patch_sym \subseteq img.odeps.exports
  /\ \A i \in patch_sym : \E p \in new_patch_list : p[2].fn = i[2]
  /\ stage \in {"load", "failed", "modules", "scan", "deps"} => patch_sym = {}
  /\ stage \in {"call", "done"} =>
       todo = {} /\ patch_sym \subseteq fdep_checklist
                 /\ fdep_checklist \subseteq img.odeps.exports
  /\ stage \in {"collect", "call", "done"} =>
       \A p \in new_patch_list \ todo : \A f \in initcall_sym2init(p[2]) :
         Cardinality(get_mods(img.odeps, f)) = 1
           => \E o \in get_mods(img.odeps, f) : <<o, f>> \in patch_sym

-----------------------------------------------------------------------------
\* Least and greatest elements.

\* A nonempty set of numbers has a least element.
LEMMA MinExists ==
  ASSUME NEW I \in SUBSET Nat, I # {}
  PROVE  \E i \in I : \A j \in I : i <= j
<1>1. PICK i \in I : \A j \in I : ~(<<j, i>> \in OpToRel(<, Nat))
  BY NatLessThanWellFounded, WFMin
<1>2. \A j \in I : ~(j < i)
  BY <1>1 DEF OpToRel
<1> QED
  BY <1>2

\* A nonempty set of positions has a greatest element.
LEMMA MaxExists ==
  ASSUME NEW n \in Nat, NEW I \in SUBSET (1..n), I # {}
  PROVE  \E i \in I : \A j \in I : j <= i
<1> DEFINE D == {n - i : i \in I}
<1>1. D \in SUBSET Nat
  OBVIOUS
<1>2. D # {}
  OBVIOUS
<1> HIDE DEF D
<1>3. PICK d \in D : \A e \in D : d <= e
  BY <1>1, <1>2, MinExists
<1>4. PICK i \in I : d = n - i
  BY DEF D
<1>5. ASSUME NEW j \in I
      PROVE  j <= i
  <2>1. n - j \in D
    BY DEF D
  <2>2. n - i <= n - j
    BY <1>3, <1>4, <2>1
  <2> QED
    BY <2>2, i \in 1..n, j \in 1..n
<1> QED
  BY <1>5

-----------------------------------------------------------------------------
\* The input and the names in it.

\* What the parts of an image are.
LEMMA ImageParts ==
  ASSUME img \in Images
  PROVE  /\ Len(img.hwdb) \in Nat /\ DOMAIN img.hwdb = 1..Len(img.hwdb)
         /\ \A i \in DOMAIN img.hwdb : img.hwdb[i].mod \in Base /\ img.hwdb[i].entry \in Sym
         /\ img.files \in SUBSET Name
         /\ Len(img.symtab) \in Nat /\ DOMAIN img.symtab = 1..Len(img.symtab)
         /\ \A i \in DOMAIN img.symtab : img.symtab[i] \in Entry
         /\ img.odeps \in Tables
<1>1. img \in Image
  BY ImagesAssumption
<1> DEFINE Lines == [entry : Sym, mod : Base, sig : Sig]
<1>2. /\ img.hwdb \in Seq(Lines)
      /\ img.symtab \in Seq(Entry) /\ img.files \in SUBSET Name /\ img.odeps \in Tables
  BY <1>1 DEF Image
<1> HIDE DEF Lines
<1>3. /\ Len(img.hwdb) \in Nat /\ DOMAIN img.hwdb = 1..Len(img.hwdb)
      /\ \A i \in DOMAIN img.hwdb : img.hwdb[i] \in Lines
  BY <1>2
<1>4. \A i \in DOMAIN img.symtab : img.symtab[i] \in Entry
  BY <1>2
<1> QED
  BY <1>2, <1>3, <1>4 DEF Lines

\* The operations on names give names.
LEMMA NamesOf ==
  /\ BareName \subseteq Name
  /\ \A n \in Name : norm_mod(n) \in Name /\ Stem(n) \in BareName
  /\ \A x \in Base : Bare(x) \in BareName
<1>1. \A x \in Base : Bare(x) \in BareName /\ Bare(x) \in Name
  BY DEF BareName, Bare, Name, Ext
<1>2. BareName \subseteq Name
  BY <1>1 DEF BareName
<1>3. ASSUME NEW n \in Name
      PROVE  norm_mod(n) \in Name /\ Stem(n) \in BareName
  BY <1>1 DEF Name, Ext, norm_mod, Stem
<1> QED
  BY <1>1, <1>2, <1>3

\* The last line for a module or a signature exists.
LEMMA LastLineIn ==
  ASSUME img \in Images, NEW I \in SUBSET DOMAIN img.hwdb, I # {}
  PROVE  \E i \in I : LastLine(I) = img.hwdb[i]
<1>1. \E i \in I : \A j \in I : j <= i
  BY ImageParts, MaxExists
<1>2. (CHOOSE i \in I : \A j \in I : j <= i) \in I
  BY <1>1
<1> QED
  BY <1>2 DEF LastLine

\* So does the first line for a module.
LEMMA RankIn ==
  ASSUME img \in Images, NEW k \in DOMAIN img.hwdb
  PROVE  Rank(Bare(img.hwdb[k].mod)) \in DOMAIN img.hwdb
<1> DEFINE m == Bare(img.hwdb[k].mod)
           I == {i \in DOMAIN img.hwdb : Bare(img.hwdb[i].mod) = m}
<1>1. I \in SUBSET Nat /\ I # {}
  BY ImageParts
<1>2. PICK i \in I : \A j \in I : i <= j
  BY <1>1, MinExists
<1>3. \A j \in 1..(i - 1) : Bare(img.hwdb[j].mod) # m
  <2> SUFFICES ASSUME NEW j \in 1..(i - 1)
               PROVE  Bare(img.hwdb[j].mod) # m
    OBVIOUS
  <2>1. j \in DOMAIN img.hwdb /\ ~(i <= j)
    BY ImageParts
  <2> QED
    BY <1>2, <2>1
<1>4. \E r \in DOMAIN img.hwdb :
        /\ Bare(img.hwdb[r].mod) = m
        /\ \A j \in 1..(r - 1) : Bare(img.hwdb[j].mod) # m
  BY <1>3
<1> HIDE DEF m
<1> QED
  BY <1>4 DEF Rank, m

-----------------------------------------------------------------------------
\* The inner loop of the scan: it visits a module, and stops at one.

\* Some module of the database is the last the loop visits.
LEMMA VisitedLast ==
  ASSUME TypeOK, DbInv, stage \notin {"load", "failed"}, DOMAIN driver_map # {}, NEW s
  PROVE  /\ driver_map # <<>>
         /\ \E m \in Visited(s) : \A n \in Visited(s) : Rank(n) <= Rank(m)
<1>1. \A m \in DOMAIN driver_map : Rank(m) \in 1..Len(img.hwdb)
  BY RankIn, ImageParts DEF TypeOK, DbInv
<1>2. Len(img.hwdb) \in Nat
  BY ImageParts DEF TypeOK
<1>3. Visited(s) # {}
  <2>1. CASE Unwanted(s) = {}
    BY <2>1 DEF Visited
  <2>2. CASE Unwanted(s) # {}
    <3> DEFINE R == {Rank(u) : u \in Unwanted(s)}
    <3>1. \A u \in Unwanted(s) : Rank(u) \in Nat
      BY <1>1 DEF Unwanted
    <3>2. R \in SUBSET Nat /\ R # {}
      BY <2>2, <3>1
    <3>3. PICK r \in R : \A q \in R : r <= q
      BY <3>2, MinExists
    <3>4. PICK u \in Unwanted(s) : r = Rank(u)
      OBVIOUS
    <3>5. u \in Visited(s)
      BY <3>3, <3>4 DEF Visited, Unwanted
    <3> QED
      BY <3>5
  <2> QED
    BY <2>1, <2>2
<1> DEFINE V == {Rank(m) : m \in Visited(s)}
<1>4. V \in SUBSET (1..Len(img.hwdb)) /\ V # {}
  BY <1>1, <1>3 DEF Visited
<1>5. PICK r \in V : \A q \in V : q <= r
  BY <1>2, <1>4, MaxExists
<1>6. PICK m \in Visited(s) : r = Rank(m)
  OBVIOUS
<1>7. \A n \in Visited(s) : Rank(n) <= Rank(m)
  BY <1>5, <1>6
<1>8. driver_map # <<>>
  OBVIOUS
<1> QED
  BY <1>7, <1>8

-----------------------------------------------------------------------------
\* TypeOK and DbInv.

\* Nothing is read at first.
LEMMA TypeInit ==
  ASSUME Init
  PROVE  TypeOK /\ DbInv
<1>1. img \in Images /\ files \in SUBSET Name /\ pos \in 1..(Len(img.symtab) + 1)
  BY ImageParts DEF Init
<1>2. DOMAIN driver_map = {}
  BY DEF Init
<1> QED
  BY <1>1, <1>2 DEF Init, TypeOK, DbInv

\* Every loop of check_drivers keeps the types.
LEMMA TypeNext ==
  ASSUME TypeOK, DbInv, [Next]_vars
  PROVE  TypeOK' /\ DbInv'
<1>1. img \in Images
  BY DEF TypeOK
<1> USE DEF dbVars, modVars, scanVars, depVars, fdepVars
<1>2. CASE load_db
  <2>1. \A m \in DOMAIN driver_map' : driver_map'[m] \in Sym
    <3> SUFFICES ASSUME NEW i \in DOMAIN img.hwdb
                 PROVE  driver_map'[Bare(img.hwdb[i].mod)] \in Sym
      BY <1>2 DEF load_db
    <3>1. LastLine(ModLines(Bare(img.hwdb[i].mod))).entry \in Sym
      BY <1>1, LastLineIn, ImageParts DEF ModLines
    <3> QED
      BY <1>2, <3>1 DEF load_db
  <2>2. DOMAIN driver_map' = {Bare(img.hwdb[i].mod) : i \in DOMAIN img.hwdb}
    BY <1>2 DEF load_db
  <2>3. DOMAIN driver_map' \subseteq BareName
    BY <2>2, <1>1, ImageParts, NamesOf
  <2>4. \A i \in DOMAIN img.hwdb : devdb(img.hwdb[i].sig) \in BareName
    BY <1>1, LastLineIn, ImageParts, NamesOf DEF devdb, SigLines
  <2>5. modlist' \in SUBSET BareName
    BY <1>2, <2>4 DEF load_db
  <2> QED
    BY <1>2, <2>1, <2>2, <2>3, <2>5 DEF load_db, TypeOK, DbInv
<1>3. CASE FilterModules
  <2>1. alldiskmods \in SUBSET Name
    BY NamesOf DEF alldiskmods, TypeOK
  <2>2. mod_remove' \in SUBSET Name /\ mod_keeps' \in SUBSET Name
    <3>1. mod_remove' \subseteq alldiskmods
      BY ONLY <1>3 DEF FilterModules
    <3>2. mod_keeps' \subseteq alldiskmods
      <4> DEFINE needed == UNION {mod_dep(m) : m \in alldiskmods \cap modlist}
      <4>1. mod_keeps' = (alldiskmods \cap modlist) \cup (needed \cap alldiskmods)
        BY ONLY <1>3 DEF FilterModules
      <4> HIDE DEF needed
      <4> QED
        BY ONLY <4>1
    <3> QED
      BY <2>1, <3>1, <3>2
  <2>3. last_mod' \in SUBSET Name
    BY <1>3, <2>1 DEF FilterModules, TypeOK
  <2> QED
    BY <1>3, <2>2, <2>3 DEF FilterModules, TypeOK, DbInv
<1>4. CASE ScanSymbol
  <2> DEFINE s == img.symtab[pos]
  <2>1. s \in Entry /\ pos' \in 1..(Len(img.symtab) + 1)
    BY <1>1, <1>4, ImageParts DEF ScanSymbol, TypeOK
  <2>2. Visited(s) \subseteq BareName /\ Unwanted(s) \subseteq DOMAIN driver_map
    BY DEF Visited, Unwanted, TypeOK
  <2>3. driver_map = <<>> => Unwanted(s) = {}
    BY <2>2
  <2>4. CASE s.style = "start" \/ ~start_flag
    BY <1>4, <2>1, <2>4 DEF ScanSymbol, TypeOK, DbInv
  <2>5. CASE s.style # "start" /\ start_flag
    <3>1. last_mod' \in SUBSET Name
      BY <1>4, <2>2, <2>5, NamesOf DEF ScanSymbol, TypeOK
    <3>2. Unwanted(s) # {} => last_mod' \in SUBSET BareName
      BY <1>4, <2>2, <2>3, <2>5 DEF ScanSymbol
    <3>3. builtin_mod_exists' \in SUBSET BareName
      BY <1>4, <2>2, <2>5 DEF ScanSymbol, TypeOK
    <3>4. skip_list' \in SUBSET Entry
      BY <1>4, <2>1, <2>5 DEF ScanSymbol, TypeOK
    <3>5. patch_list' \in SUBSET (BareName \X Entry)
      <4>1. \/ patch_list' = patch_list
            \/ /\ Unwanted(s) # {}
               /\ patch_list' = patch_list \cup {<<m, s>> : m \in last_mod'}
        BY <1>4, <2>5 DEF ScanSymbol
      <4> QED
        BY <2>1, <3>2, <4>1 DEF TypeOK
    <3>6. builtin_mod_remove' \in SUBSET BareName
      BY <1>4, <2>5, <3>2 DEF ScanSymbol, TypeOK
    <3> QED
      BY <1>4, <2>1, <2>5, <3>1, <3>3, <3>4, <3>5, <3>6 DEF ScanSymbol, TypeOK, DbInv
  <2> QED
    BY <2>4, <2>5
<1>5. CASE EndScan
  BY <1>5 DEF EndScan, TypeOK, DbInv
<1>6. CASE CheckDeps
  <2>1. alldiskmods \in SUBSET Name /\ noentry \in SUBSET Name
    BY NamesOf DEF alldiskmods, noentry, TypeOK
  <2>2. new_patch_list' \in SUBSET (Name \X Entry)
    BY <1>6, NamesOf DEF CheckDeps, TypeOK
  <2>3. new_new_mod_remove' \in SUBSET Name /\ dep_remove' \in SUBSET Name
    <3>1. new_new_mod_remove' \subseteq mod_remove \cup alldiskmods
      <4> DEFINE needs(S) == UNION {rev_dep(m) : m \in S}
      <4>1. new_new_mod_remove' =
              mod_remove \cup (needs(mod_remove) \cap alldiskmods)
                \cup (needs(builtin_mod_remove \cup BuiltinDeps) \cap alldiskmods)
        BY ONLY <1>6 DEF CheckDeps
      <4> HIDE DEF needs
      <4> QED
        BY ONLY <4>1
    <3>2. dep_remove' \subseteq noentry
      BY ONLY <1>6 DEF CheckDeps
    <3> QED
      BY <2>1, <3>1, <3>2 DEF TypeOK
  <2>4. last_m' \in SUBSET Name
    BY <1>6, <2>1 DEF CheckDeps, TypeOK
  <2>5. todo' \subseteq new_patch_list' /\ stage' = "collect" /\ stage = "deps"
    BY <1>6 DEF CheckDeps
  <2> QED
    BY <1>6, <2>2, <2>3, <2>5, <2>4 DEF CheckDeps, TypeOK, DbInv
<1>7. ASSUME NEW p \in todo, CollectInit(p)
      PROVE  TypeOK' /\ DbInv'
  <2>1. \A f \in initcall_sym2init(p[2]) : f \in Sym
    BY DEF initcall_sym2init, TypeOK, Entry
  <2>2. \A f \in Sym : \A o \in Owners(p[1], get_mods(img.odeps, f)) : <<o, f>> \in Item
    BY DEF Owners, get_mods, Item, Mod
  <2>3. patch_sym' \in SUBSET Item
    BY <1>7, <2>1, <2>2 DEF CollectInit, TypeOK
  <2> QED
    BY <1>7, <2>3 DEF CollectInit, TypeOK, DbInv
<1>8. CASE CollectImports
  <2>1. img.odeps.exports \subseteq Item
    BY <1>1, ImageParts DEF Tables, Item, Mod
  <2>2. fdep_checklist' \in SUBSET Item
    BY <1>8, <2>1 DEF CollectImports, TypeOK
  <2> QED
    BY <1>8, <2>2 DEF CollectImports, TypeOK, DbInv
<1>9. CASE remove_module
  BY <1>9 DEF remove_module, TypeOK, DbInv
<1>10. CASE UNCHANGED vars
  BY <1>10 DEF vars, TypeOK, DbInv
<1>11. CASE Unreadable
  BY <1>11 DEF Unreadable, TypeOK, DbInv
<1> QED
  BY <1>2, <1>3, <1>4, <1>5, <1>6, <1>7, <1>8, <1>9, <1>10, <1>11 DEF Next

\* Every variable keeps its type, whatever is on the image.
THEOREM FilterTypeCorrect == Spec => []TypeOK
<1>1. Init => TypeOK /\ DbInv
  BY TypeInit
<1>2. TypeOK /\ DbInv /\ [Next]_vars => (TypeOK /\ DbInv)'
  BY TypeNext
<1> QED
  BY <1>1, <1>2, PTL DEF Spec

-----------------------------------------------------------------------------
\* ScanInv.

\* Which drivers are unwanted only depends on the database.
LEMMA UnwantedStable ==
  ASSUME UNCHANGED dbVars
  PROVE  \A s : Unwanted(s)' = Unwanted(s)
BY DEF dbVars, Unwanted

\* Nothing is scanned at first.
LEMMA ScanInit ==
  ASSUME Init
  PROVE  ScanInv
BY DEF Init, ScanInv, PosInv, SortedInv, OriginInv

\* Only the scan of System.map touches what ScanInv is about.
LEMMA ScanNext ==
  ASSUME TypeOK, DbInv, ScanInv, [Next]_vars
  PROVE  ScanInv'
<1> USE DEF ScanInv
<1>1. CASE load_db
  BY <1>1 DEF load_db, PosInv, SortedInv, OriginInv, ScannedAt, scanVars
<1>2. CASE Unreadable
  BY <1>2 DEF Unreadable, PosInv, SortedInv, OriginInv, ScannedAt, scanVars
<1>3. CASE FilterModules
  <2>1. pos = 1 /\ UNCHANGED <<img, pos, start_flag, patch_list, skip_list,
                               builtin_mod_remove>>
    BY <1>3 DEF FilterModules, PosInv
  <2>2. builtin_mod_remove = {} /\ patch_list = {} /\ skip_list = {} /\ stage' = "scan"
    BY <1>3 DEF FilterModules, OriginInv
  <2> QED
    BY <2>1, <2>2 DEF PosInv, SortedInv, OriginInv, ScannedAt
<1>4. CASE ScanSymbol
  <2> DEFINE s == img.symtab[pos]
  <2>1. PICK k : k = pos
    OBVIOUS
  <2>2. /\ pos \in 1..Len(img.symtab) /\ pos' = pos + 1 /\ s.style # "end"
        /\ UNCHANGED <<stage, img, dbVars>> /\ stage = "scan"
    BY <1>4 DEF ScanSymbol, TypeOK
  <2>3. \A x : Unwanted(x)' = Unwanted(x)
    BY <2>2, UnwantedStable
  <2>4. \A j \in 1..(pos' - 1) : j \in 1..(pos - 1) \/ j = pos
    BY <2>2
  <2>5. PosInv'
    <3>1. start_flag' <=> start_flag \/ s.style = "start"
      BY <1>4 DEF ScanSymbol, TypeOK
    <3>2. stage = "scan" /\ stage' = "scan" /\ img' = img
      BY <2>2
    <3>3. \A j \in 1..(pos' - 1) : img.symtab[j].style # "end"
      BY <2>2, <2>4 DEF PosInv
    <3>4. start_flag' <=> \E b \in 1..(pos' - 1) : img.symtab[b].style = "start"
      BY <2>2, <2>4, <3>1 DEF PosInv
    <3> QED
      BY <3>2, <3>3, <3>4 DEF PosInv
  <2>6. ScannedAt(k) <=> s.style \in {"kmod", "old"} /\ start_flag
    BY <2>1 DEF ScannedAt, PosInv
  <2>7. \A j : ScannedAt(j)' <=> ScannedAt(j)
    BY <2>2 DEF ScannedAt
  <2>8. patch_list \subseteq patch_list' /\ skip_list \subseteq skip_list'
    BY <1>4 DEF ScanSymbol
  <2>9. CASE s.style = "start" \/ ~start_flag
    <3>1. ~ScannedAt(k)
      BY <2>6, <2>9
    <3>2. UNCHANGED <<patch_list, skip_list, builtin_mod_remove, last_mod>>
      BY <1>4, <2>9 DEF ScanSymbol
    <3>3. SortedInv'
      BY <2>1, <2>2, <2>3, <2>4, <2>7, <3>1, <3>2 DEF SortedInv
    <3>4. OriginInv'
      BY <2>2, <2>3, <2>4, <2>7, <3>2 DEF OriginInv, dbVars
    <3> QED
      BY <2>5, <3>3, <3>4
  <2>10. CASE s.style # "start" /\ start_flag
    <3>1. \/ /\ Unwanted(s) = {}
             /\ skip_list' = IF s.style = "other" THEN skip_list ELSE skip_list \cup {s}
             /\ UNCHANGED <<builtin_mod_remove, patch_list>>
          \/ /\ Unwanted(s) # {}
             /\ patch_list' = patch_list \cup {<<m, s>> : m \in last_mod'}
             /\ builtin_mod_remove' = builtin_mod_remove \cup last_mod'
             /\ UNCHANGED skip_list
      BY <1>4, <2>10 DEF ScanSymbol
    <3>2. DOMAIN driver_map # {} => last_mod' # {}
      <4>1. SUFFICES ASSUME DOMAIN driver_map # {} PROVE last_mod' # {}
        OBVIOUS
      <4>2. /\ driver_map # <<>>
            /\ \E m \in Visited(s) : \A n \in Visited(s) : Rank(n) <= Rank(m)
        BY <2>2, <4>1, VisitedLast
      <4>3. last_mod' = {m \in Visited(s) : \A n \in Visited(s) : Rank(n) <= Rank(m)}
        BY <1>4, <2>10, <4>2 DEF ScanSymbol
      <4> QED
        BY <4>2, <4>3
    <3>3. Unwanted(s) # {} => last_mod' # {}
      BY <3>2 DEF Unwanted
    <3>4. s.style \in {"kmod", "old", "other"}
      BY <2>2, <2>10, ImageParts DEF TypeOK, Entry
    <3>5. SortedInv'
      <4> SUFFICES ASSUME NEW j \in 1..(pos' - 1), ScannedAt(j)'
                   PROVE  (IF Unwanted(img.symtab[j]) = {} THEN img.symtab[j] \in skip_list
                           ELSE \E p \in patch_list : p[2] = img.symtab[j])'
        BY DEF SortedInv
      <4>1. CASE j \in 1..(pos - 1)
        BY <2>2, <2>3, <2>7, <2>8, <4>1 DEF SortedInv
      <4>2. CASE j = pos /\ Unwanted(s) = {}
        BY <2>1, <2>2, <2>3, <2>6, <2>7, <3>1, <4>2
      <4>3. CASE j = pos /\ Unwanted(s) # {}
        <5>1. PICK m \in last_mod' : TRUE
          BY <3>3, <4>3
        <5>2. <<m, s>> \in patch_list' /\ <<m, s>>[2] = s
          BY <3>1, <4>3
        <5> QED
          BY <2>2, <2>3, <4>3, <5>2
      <4> QED
        BY <2>4, <4>1, <4>2, <4>3
    <3>6. OriginInv'
      <4>1. \A p \in patch_list' : Unwanted(p[2])' # {}
        BY <2>3, <3>1 DEF OriginInv
      <4>2. ASSUME NEW p \in patch_list'
            PROVE  \E j \in 1..(pos' - 1) : p[2] = img'.symtab[j] /\ ScannedAt(j)'
        <5>1. CASE p \in patch_list
          BY <2>2, <2>7, <5>1 DEF OriginInv
        <5>2. CASE p \notin patch_list
          <6>1. p[2] = s /\ Unwanted(s) # {}
            BY <3>1, <5>2
          <6>2. s.style \in {"kmod", "old"}
            BY <6>1 DEF Unwanted, match_initcall_sig
          <6>3. ScannedAt(k)'
            BY <2>6, <2>7, <2>10, <6>2
          <6> QED
            BY <2>1, <2>2, <6>1, <6>3
        <5> QED
          BY <5>1, <5>2
      <4>3. \A x \in skip_list' : \E j \in 1..(pos' - 1) : x = img'.symtab[j] /\ ScannedAt(j)'
        <5> SUFFICES ASSUME NEW x \in skip_list'
                     PROVE  \E j \in 1..(pos' - 1) : x = img'.symtab[j] /\ ScannedAt(j)'
          OBVIOUS
        <5>1. CASE x \in skip_list
          BY <2>2, <2>7, <5>1 DEF OriginInv
        <5>2. CASE x \notin skip_list
          <6>1. x = s /\ s.style # "other"
            BY <3>1, <5>2
          <6>2. ScannedAt(k)'
            BY <2>6, <2>7, <2>10, <3>4, <6>1
          <6> QED
            BY <2>1, <2>2, <6>1, <6>2
        <5> QED
          BY <5>1, <5>2
      <4>4. builtin_mod_remove' # {} => last_mod' # {}
        BY <3>1, <3>2, <3>3 DEF OriginInv
      <4>5. builtin_mod_remove' \subseteq DOMAIN driver_map'
        <5>1. Unwanted(s) # {} => last_mod' \subseteq DOMAIN driver_map
          <6>1. Unwanted(s) # {} => driver_map # <<>>
            <7>1. Unwanted(s) \subseteq DOMAIN driver_map
              BY DEF Unwanted
            <7> QED
              BY <7>1
          <6> QED
            BY <1>4, <2>10, <6>1 DEF ScanSymbol, Visited
        <5> QED
          BY <2>2, <3>1, <5>1 DEF OriginInv, dbVars
      <4> QED
        BY <2>2, <4>1, <4>3, <4>4, <4>5, <4>2 DEF OriginInv
    <3> QED
      BY <2>5, <3>5, <3>6
  <2> QED
    BY <2>9, <2>10
<1>5. ASSUME UNCHANGED <<img, dbVars, scanVars>>,
             \/ stage' = stage
             \/ {stage, stage'} \cap {"load", "failed", "modules"} = {},
             stage' \in {stage, "scan"} \/ stage \notin {"load", "failed", "modules", "scan"}
                \/ (pos <= Len(img.symtab) => img.symtab[pos].style = "end")
      PROVE  ScanInv'
  <2>1. \A x : Unwanted(x)' = Unwanted(x)
    BY <1>5, UnwantedStable
  <2>2. \A j : ScannedAt(j)' <=> ScannedAt(j)
    BY <1>5 DEF ScannedAt
  <2>3. PosInv'
    BY <1>5 DEF PosInv, scanVars
  <2>4. SortedInv'
    BY <1>5, <2>1, <2>2 DEF SortedInv, scanVars
  <2>5. OriginInv'
    BY <1>5, <2>1, <2>2 DEF OriginInv, scanVars, dbVars
  <2> QED
    BY <2>3, <2>4, <2>5
<1>6. CASE EndScan
  BY <1>5, <1>6 DEF EndScan
<1>7. CASE CheckDeps
  BY <1>5, <1>7 DEF CheckDeps
<1>8. ASSUME NEW p \in todo, CollectInit(p)
      PROVE  ScanInv'
  BY <1>5, <1>8 DEF CollectInit
<1>9. CASE CollectImports
  BY <1>5, <1>9 DEF CollectImports
<1>10. CASE remove_module
  BY <1>5, <1>10 DEF remove_module
<1>11. CASE UNCHANGED vars
  BY <1>5, <1>11 DEF vars
<1> QED
  BY <1>1, <1>3, <1>4, <1>6, <1>7, <1>8, <1>9, <1>10, <1>11, <1>2 DEF Next

\* What the loop has looked at when it ends: every initcall between the markers.
LEMMA AllScanned ==
  ASSUME TypeOK, PosInv, stage \notin {"load", "failed", "modules", "scan"},
         NEW s \in Initcalls
  PROVE  \E j \in 1..(pos - 1) : s = img.symtab[j] /\ ScannedAt(j)
<1>1. PICK j \in DOMAIN img.symtab :
        /\ s = img.symtab[j] /\ ScannedAt(j)
        /\ ~\E e \in 1..(j - 1) : img.symtab[e].style = "end"
  BY DEF Initcalls, ScannedAt
<1>2. j \in 1..Len(img.symtab) /\ pos \in Nat \ {0}
  BY ImageParts DEF TypeOK
<1>3. ~(pos <= j)
  <2> SUFFICES ASSUME pos <= j PROVE FALSE
    OBVIOUS
  <2>1. img.symtab[pos].style = "end"
    BY <1>2 DEF PosInv
  <2>2. pos = j \/ pos \in 1..(j - 1)
    BY <1>2
  <2> QED
    BY <1>1, <2>1, <2>2 DEF ScannedAt
<1> QED
  BY <1>1, <1>2, <1>3

\* And nothing it skipped or patched is outside them.
LEMMA ScannedAreInitcalls ==
  ASSUME TypeOK, PosInv, OriginInv
  PROVE  skip_list \subseteq Initcalls /\ \A p \in patch_list : p[2] \in Initcalls
<1> SUFFICES ASSUME NEW s, s \in skip_list \/ \E p \in patch_list : s = p[2]
             PROVE  s \in Initcalls
  OBVIOUS
<1>1. PICK j \in 1..(pos - 1) : s = img.symtab[j] /\ ScannedAt(j)
  BY DEF OriginInv
<1>2. j \in DOMAIN img.symtab /\ \A e \in 1..(j - 1) : e \in 1..(pos - 1)
  BY ImageParts DEF TypeOK
<1> QED
  BY <1>1, <1>2 DEF Initcalls, ScannedAt, PosInv

\* No unwanted driver is missed: the loop over System.map patches each initcall
\* of one, for every database, profile and symbol table (hwfilter.py:337-360).
THEOREM NoUnwantedMissed == Spec => []UnwantedInitcallsPatched
<1>1. Init => TypeOK /\ DbInv /\ ScanInv
  BY TypeInit, ScanInit
<1>2. TypeOK /\ DbInv /\ ScanInv /\ [Next]_vars => (TypeOK /\ DbInv /\ ScanInv)'
  BY TypeNext, ScanNext
<1>3. TypeOK /\ ScanInv => UnwantedInitcallsPatched
  <2> SUFFICES ASSUME TypeOK, ScanInv, stage \notin {"load", "failed", "modules", "scan"},
                      NEW s \in Initcalls, Unwanted(s) # {}
               PROVE  s \in {p[2] : p \in patch_list}
    BY DEF UnwantedInitcallsPatched
  <2>1. PICK j \in 1..(pos - 1) : s = img.symtab[j] /\ ScannedAt(j)
    BY AllScanned DEF ScanInv
  <2> QED
    BY <2>1 DEF ScanInv, SortedInv
<1> QED
  BY <1>1, <1>2, <1>3, PTL DEF Spec

-----------------------------------------------------------------------------
\* DepsInv.

\* The dependents only depend on what was read and removed.
LEMMA DepsStable ==
  ASSUME UNCHANGED <<img, driver_map, builtin_mod_remove, skip_list>>
  PROVE  BuiltinDeps' = BuiltinDeps /\ \A d : InitOf(d)' = InitOf(d)
BY DEF BuiltinDeps, InitOf, rev_dep

\* No dependent is looked for at first.
LEMMA DepsInit ==
  ASSUME Init
  PROVE  DepsInv
BY DEF Init, DepsInv

\* Only CheckDeps changes new_patch_list.
LEMMA DepsNext ==
  ASSUME TypeOK, ScanInv, DepsInv, [Next]_vars
  PROVE  DepsInv'
<1>1. ASSUME stage \in {"load", "modules", "scan"},
             stage' \in {"failed", "modules", "scan", "deps"}, UNCHANGED new_patch_list
      PROVE  DepsInv'
  BY <1>1 DEF DepsInv
<1>2. ASSUME UNCHANGED <<img, driver_map, scanVars, new_patch_list>>,
             stage' = stage \/ {stage, stage'} \subseteq {"collect", "call", "done"}
      PROVE  DepsInv'
  <2>1. BuiltinDeps' = BuiltinDeps /\ \A d : InitOf(d)' = InitOf(d)
    BY <1>2, DepsStable DEF scanVars
  <2> QED
    BY <1>2, <2>1 DEF DepsInv, scanVars
<1>3. CASE load_db
  BY <1>1, <1>3 DEF load_db, depVars
<1>4. CASE FilterModules
  BY <1>1, <1>4 DEF FilterModules, depVars
<1>5. CASE ScanSymbol
  BY <1>1, <1>5 DEF ScanSymbol, depVars
<1>6. CASE EndScan
  BY <1>1, <1>6 DEF EndScan, depVars
<1>7. CASE CheckDeps
  <2>1. PICK pick \in [BuiltinDeps -> skip_list] :
          /\ \A d \in BuiltinDeps : match_initcall_sig(d, InitOf(d), pick[d])
          /\ new_patch_list' =
               patch_list \cup {<<m, pick[d]>> : m \in last_mod, d \in BuiltinDeps}
    BY <1>7 DEF CheckDeps
  <2>2. UNCHANGED <<img, driver_map, scanVars>> /\ stage' = "collect"
    BY <1>7 DEF CheckDeps, dbVars
  <2>3. BuiltinDeps' = BuiltinDeps /\ \A d : InitOf(d)' = InitOf(d)
    BY <2>2, DepsStable DEF scanVars
  <2>4. ASSUME NEW d \in BuiltinDeps
        PROVE  \E p \in new_patch_list' :
                 p[2] \in skip_list /\ match_initcall_sig(d, InitOf(d), p[2])
    <3>1. builtin_mod_remove # {}
      BY DEF BuiltinDeps
    <3>2. PICK m \in last_mod : TRUE
      BY <3>1 DEF ScanInv, OriginInv
    <3>3. <<m, pick[d]>> \in new_patch_list' /\ <<m, pick[d]>>[2] = pick[d]
      BY <2>1, <3>2
    <3> QED
      BY <2>1, <3>3
  <2>5. ASSUME NEW p \in new_patch_list', p \notin patch_list
        PROVE  /\ p[2] \in skip_list
               /\ \E d \in BuiltinDeps : match_initcall_sig(d, InitOf(d), p[2])
    <3>1. PICK m \in last_mod, d \in BuiltinDeps : p = <<m, pick[d]>>
      BY <2>1, <2>5
    <3> QED
      BY <2>1, <3>1
  <2> QED
    BY <2>1, <2>2, <2>3, <2>4, <2>5 DEF DepsInv, scanVars
<1>8. ASSUME NEW p \in todo, CollectInit(p)
      PROVE  DepsInv'
  BY <1>2, <1>8 DEF CollectInit, dbVars, depVars
<1>9. CASE CollectImports
  BY <1>2, <1>9 DEF CollectImports, dbVars, depVars
<1>10. CASE remove_module
  BY <1>2, <1>10 DEF remove_module, dbVars, depVars
<1>11. CASE UNCHANGED vars
  BY <1>2, <1>11 DEF vars, dbVars, depVars
<1>12. CASE Unreadable
  BY <1>1, <1>12 DEF Unreadable, depVars
<1> QED
  BY <1>3, <1>4, <1>5, <1>6, <1>7, <1>8, <1>9, <1>10, <1>11, <1>12 DEF Next

-----------------------------------------------------------------------------
\* FiledInv.

\* A single defining object is an owner, whatever the stale m holds.
LEMMA SingleOwner ==
  ASSUME NEW f \in Sym, NEW n, Cardinality(get_mods(img.odeps, f)) = 1
  PROVE  /\ Owners(n, get_mods(img.odeps, f)) = get_mods(img.odeps, f)
         /\ get_mods(img.odeps, f) # {}
<1>1. Cardinality({}) = 0
  BY FS_EmptySet
<1> QED
  BY <1>1 DEF Owners

\* Nothing is filed at first.
LEMMA FiledInit ==
  ASSUME Init
  PROVE  FiledInv
BY DEF Init, FiledInv

\* CollectInit files the functions of one pair at a time.
LEMMA FiledNext ==
  ASSUME TypeOK, FiledInv, [Next]_vars
  PROVE  FiledInv'
<1> USE DEF dbVars, modVars, scanVars, depVars, fdepVars
<1>1. ASSUME UNCHANGED <<img, patch_sym, fdep_checklist, todo, new_patch_list>>,
             \/ stage' = stage
             \/ {stage, stage'} \subseteq {"load", "failed", "modules", "scan", "deps"}
             \/ stage = "call" /\ stage' = "done"
      PROVE  FiledInv'
  BY <1>1 DEF FiledInv
<1>2. CASE load_db
  BY <1>1, <1>2 DEF load_db
<1>3. CASE FilterModules
  BY <1>1, <1>3 DEF FilterModules
<1>4. CASE ScanSymbol
  BY <1>1, <1>4 DEF ScanSymbol
<1>5. CASE EndScan
  BY <1>1, <1>5 DEF EndScan
<1>6. CASE CheckDeps
  <2>1. /\ todo' = new_patch_list' /\ UNCHANGED <<img, patch_sym>>
        /\ stage = "deps" /\ stage' = "collect"
    BY <1>6 DEF CheckDeps
  <2> QED
    BY <2>1 DEF FiledInv
<1>7. ASSUME NEW p \in todo, CollectInit(p)
      PROVE  FiledInv'
  <2>1. /\ stage = "collect" /\ todo' = todo \ {p}
        /\ UNCHANGED <<stage, img, new_patch_list, fdep_checklist>>
    BY <1>7 DEF CollectInit
  <2> DEFINE owners(f) == Owners(p[1], get_mods(img.odeps, f))
             found == {f \in initcall_sym2init(p[2]) : owners(f) # {}}
  <2>2. \/ found = {} /\ UNCHANGED patch_sym
        \/ \E f \in found : \E o \in owners(f) : patch_sym' = patch_sym \cup {<<o, f>>}
    BY <1>7 DEF CollectInit
  <2>3. patch_sym' \subseteq img.odeps.exports /\ patch_sym \subseteq patch_sym'
    <3>1. \A f : \A o \in owners(f) : <<o, f>> \in img.odeps.exports
      BY DEF Owners, get_mods
    <3> QED
      BY <2>2, <3>1 DEF FiledInv
  <2>4. \A i \in patch_sym' : \E q \in new_patch_list : q[2].fn = i[2]
    <3>1. ASSUME NEW f \in found, NEW o \in owners(f)
          PROVE  p[2].fn = <<o, f>>[2] /\ p \in new_patch_list
      BY DEF initcall_sym2init, TypeOK
    <3> QED
      BY <2>2, <3>1 DEF FiledInv
  <2>5. ASSUME NEW f \in initcall_sym2init(p[2]),
               Cardinality(get_mods(img.odeps, f)) = 1
        PROVE  \E o \in get_mods(img.odeps, f) : <<o, f>> \in patch_sym'
    <3>1. f \in Sym /\ f = p[2].fn
      BY DEF initcall_sym2init, TypeOK, Entry
    <3>2. owners(f) = get_mods(img.odeps, f) /\ f \in found
      BY <2>5, <3>1, SingleOwner
    <3>3. \A g \in found : g = f
      BY <3>1 DEF initcall_sym2init
    <3> QED
      BY <2>2, <3>2, <3>3
  <2>6. ASSUME NEW q \in new_patch_list \ todo', NEW f \in initcall_sym2init(q[2]),
               Cardinality(get_mods(img.odeps, f)) = 1
        PROVE  \E o \in get_mods(img.odeps, f) : <<o, f>> \in patch_sym'
    <3>1. CASE q = p
      BY <2>5, <2>6, <3>1
    <3>2. CASE q # p
      BY <2>1, <2>3, <2>6, <3>2 DEF FiledInv
    <3> QED
      BY <3>1, <3>2
  <2> QED
    BY <2>1, <2>3, <2>6, <2>4 DEF FiledInv
<1>8. CASE CollectImports
  <2>1. /\ patch_sym \subseteq fdep_checklist'
        /\ fdep_checklist' \subseteq patch_sym \cup img.odeps.exports
    BY <1>8 DEF CollectImports
  <2>2. /\ stage = "collect" /\ stage' = "call" /\ todo = {}
        /\ UNCHANGED <<img, patch_sym, todo, new_patch_list>>
    BY <1>8 DEF CollectImports
  <2> QED
    BY <2>1, <2>2 DEF FiledInv
<1>9. CASE remove_module
  BY <1>1, <1>9 DEF remove_module
<1>10. CASE UNCHANGED vars
  BY <1>1, <1>10 DEF vars
<1>11. CASE Unreadable
  BY <1>1, <1>11 DEF Unreadable
<1> QED
  BY <1>2, <1>3, <1>4, <1>5, <1>6, <1>7, <1>8, <1>9, <1>10, <1>11 DEF Next

\* A driver in use keeps its initcall: whatever check_drivers disables belongs
\* to an unwanted driver or to a module that needs one, and so does each
\* function it collects (hwfilter.py:337-392, 423-436).
THEOREM WantedSurvive == Spec => []WantedInitcallsSurvive
<1> DEFINE Inv == TypeOK /\ DbInv /\ ScanInv /\ DepsInv /\ FiledInv
<1>1. Init => Inv
  BY TypeInit, ScanInit, DepsInit, FiledInit
<1>2. Inv /\ [Next]_vars => Inv'
  BY TypeNext, ScanNext, DepsNext, FiledNext
<1>3. Inv => WantedInitcallsSurvive
  <2> SUFFICES ASSUME Inv PROVE WantedInitcallsSurvive
    OBVIOUS
  <2>1. ASSUME NEW p \in new_patch_list
        PROVE  MayGo(p[2])
    <3>1. CASE p \in patch_list
      BY <3>1 DEF ScanInv, OriginInv, MayGo
    <3>2. CASE p \notin patch_list
      <4>1. PICK d \in BuiltinDeps : match_initcall_sig(d, InitOf(d), p[2])
        BY <3>2 DEF DepsInv
      <4>2. PICK m \in builtin_mod_remove : d \in rev_dep(m)
        BY DEF BuiltinDeps
      <4>3. m \in mod_dep(d)
        BY <4>2 DEF rev_dep, mod_dep
      <4>4. \/ p[2].style = "kmod" /\ Bare(p[2].mod) = d
            \/ p[2].fn \in InitOf(d)
        BY <4>1 DEF match_initcall_sig
      <4> QED
        BY <4>2, <4>3, <4>4 DEF InitOf, MayGo
    <3> QED
      BY <3>1, <3>2
  <2>2. ASSUME NEW i \in patch_sym
        PROVE  \E s \in Initcalls : s.fn = i[2] /\ MayGo(s)
    <3>1. PICK p \in new_patch_list : p[2].fn = i[2]
      BY DEF FiledInv
    <3>2. p[2] \in Initcalls
      BY ScannedAreInitcalls DEF DepsInv, ScanInv
    <3> QED
      BY <2>1, <3>1, <3>2
  <2> QED
    BY <2>1, <2>2 DEF WantedInitcallsSurvive
<1> HIDE DEF Inv
<1>4. Spec => []Inv
  BY <1>1, <1>2, PTL DEF Spec
<1> QED
  BY <1>3, <1>4, PTL

\* check_fdep is always called with tables and lists as CheckFdep assumes them
\* (hwfilter.py:421-484).
THEOREM CallsCheckFdepProperly == Spec => []CheckFdepContract
<1>1. Init => TypeOK /\ DbInv /\ FiledInv
  BY TypeInit, FiledInit
<1>2. TypeOK /\ DbInv /\ FiledInv /\ [Next]_vars => (TypeOK /\ DbInv /\ FiledInv)'
  BY TypeNext, FiledNext
<1>3. TypeOK /\ FiledInv => CheckFdepContract
  BY ImageParts DEF TypeOK, FiledInv, CheckFdepContract, IsInput
<1> QED
  BY <1>1, <1>2, <1>3, PTL DEF Spec

\* Nothing starts on top of a removed driver: each dependent with an initcall
\* loses one, and the function is filed for check_fdep when a single object
\* defines it (hwfilter.py:376-391, 423-430).
THEOREM DependentsLoseAnInitcall == Spec => []DependentsDisabled
<1> DEFINE Inv == TypeOK /\ DbInv /\ ScanInv /\ DepsInv /\ FiledInv
<1>1. Init => Inv
  BY TypeInit, ScanInit, DepsInit, FiledInit
<1>2. Inv /\ [Next]_vars => Inv'
  BY TypeNext, ScanNext, DepsNext, FiledNext
<1>3. Inv => DependentsDisabled
  <2> DEFINE own(d) == {s \in Initcalls : match_initcall_sig(d, InitOf(d), s)}
  <2> SUFFICES ASSUME Inv, stage \in {"call", "done"},
                      NEW m \in builtin_mod_remove, NEW d \in rev_dep(m), own(d) # {}
               PROVE  \E s \in own(d) :
                        /\ \E p \in new_patch_list : p[2] = s
                        /\ \A f \in initcall_sym2init(s) :
                             Cardinality(get_mods(img.odeps, f)) = 1
                               => \E o \in get_mods(img.odeps, f) : <<o, f>> \in patch_sym
    BY DEF DependentsDisabled
  <2>1. \E p \in new_patch_list : p[2] \in own(d)
    <3>1. CASE d \in BuiltinDeps
      <4>1. PICK p \in new_patch_list :
              p[2] \in skip_list /\ match_initcall_sig(d, InitOf(d), p[2])
        BY <3>1 DEF DepsInv
      <4> QED
        BY <4>1, ScannedAreInitcalls DEF ScanInv
    <3>2. CASE d \notin BuiltinDeps
      <4>1. PICK s \in own(d) : TRUE
        OBVIOUS
      <4>2. s \notin skip_list
        BY <3>2 DEF BuiltinDeps
      <4>3. PICK j \in 1..(pos - 1) : s = img.symtab[j] /\ ScannedAt(j)
        BY AllScanned DEF ScanInv
      <4>4. PICK p \in patch_list : p[2] = s
        BY <4>2, <4>3 DEF ScanInv, SortedInv
      <4> QED
        BY <4>4 DEF DepsInv
    <3> QED
      BY <3>1, <3>2
  <2>2. PICK p \in new_patch_list : p[2] \in own(d)
    BY <2>1
  <2>3. \A f \in initcall_sym2init(p[2]) :
          Cardinality(get_mods(img.odeps, f)) = 1
            => \E o \in get_mods(img.odeps, f) : <<o, f>> \in patch_sym
    BY DEF FiledInv
  <2> QED
    BY <2>2, <2>3
<1> HIDE DEF Inv
<1>4. Spec => []Inv
  BY <1>1, <1>2, PTL DEF Spec
<1> QED
  BY <1>3, <1>4, PTL

=============================================================================
