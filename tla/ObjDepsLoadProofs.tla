------------------------- MODULE ObjDepsLoadProofs -------------------------
(***************************************************************************)
(* For every build tree and every order of os.walk: the tables of ObjDeps  *)
(* are well typed, those kept in two directions agree at all times, and    *)
(* the calls recorded at the end are those the files determine.            *)
(***************************************************************************)
EXTENDS ObjDepsLoad, TLAPS

-----------------------------------------------------------------------------
\* The types.  Each kind of file has rows of its own type.

\* What the rows of a file are, by its kind.
LEMMA FileType ==
  ASSUME NEW x \in File
  PROVE  /\ x.kind = "symtab" => x.obj \in Obj /\ x.rows \subseteq {"U", "T", "t"} \X Sym
         /\ x.kind \in {"imptab", "impnoin", "symlnk", "symcbs", "fptref"} =>
              x.obj \in Obj /\ x.rows \subseteq Sym \X Sym
         /\ x.kind = "mod" => x.obj \in Ko /\ x.rows \subseteq Obj \X Obj
         /\ x.kind = "nonbc" => x.obj \in Obj
  BY DEF File

\* The empty tables are well typed.
LEMMA InitType == Init => TypeOK
  BY BuildsAssumption DEF Init, TypeOK

\* Reading a file and the passes after the walk keep the tables well typed.
LEMMA NextType == TypeOK /\ [Next]_vars => TypeOK'
<1>1. SUFFICES ASSUME TypeOK, [Next]_vars PROVE TypeOK'
  OBVIOUS
<1>2. ASSUME NEW x \in todo, LoadFile(x) PROVE TypeOK'
  <2>1. x \in File /\ pc = "walk"
    BY <1>1, <1>2 DEF TypeOK, LoadFile, LoadSymtab, LoadImptab, LoadImpnoin,
       LoadSymlnk, LoadSymcbs, LoadFptref, LoadMod, LoadNonbc, Take
  <2>2. CASE LoadSymtab(x)
    <3>1. x.obj \in Obj /\ \A r \in x.rows : r[2] \in Sym
      BY <2>1, <2>2, FileType DEF LoadSymtab, Take
    <3>2. QED
      BY <1>1, <2>2, <3>1 DEF TypeOK, LoadSymtab, Take, callVars, gdatVars, refVars
  <2>3. ASSUME x.kind \in {"imptab", "impnoin", "symlnk", "symcbs", "fptref"}
        PROVE  /\ x.obj \in Obj
               /\ OwnRows(x) \subseteq Sym \X Sym
               /\ \A r \in OwnRows(x) : r[1] \in Sym /\ r[2] \in Sym
    BY <2>1, <2>3, FileType DEF OwnRows
  <2>4. CASE LoadImptab(x)
    BY <1>1, <2>3, <2>4 DEF TypeOK, LoadImptab, Take, symVars, gdatVars, refVars
  <2>5. CASE LoadImpnoin(x)
    BY <1>1, <2>3, <2>5
    DEF TypeOK, LoadImpnoin, Take, symVars, callVars, gdatVars, refVars
  <2>6. CASE LoadSymlnk(x)
    BY <1>1, <2>3, <2>6 DEF TypeOK, LoadSymlnk, Take, symVars, callVars, refVars
  <2>7. CASE LoadSymcbs(x)
    BY <1>1, <2>3, <2>7 DEF TypeOK, LoadSymcbs, Take, symVars, callVars, refVars
  <2>8. CASE LoadFptref(x)
    BY <1>1, <2>3, <2>8 DEF TypeOK, LoadFptref, Take, symVars, callVars, gdatVars
  <2>9. CASE LoadMod(x)
    <3>1. x.obj \in Ko /\ \A r \in x.rows : r[1] \in Obj
      BY <2>1, <2>9, FileType DEF LoadMod, Take
    <3>2. QED
      BY <1>1, <2>9, <3>1
      DEF TypeOK, LoadMod, Take, symVars, callVars, gdatVars, refVars
  <2>10. CASE LoadNonbc(x)
    <3>1. x.obj \in Obj
      BY <2>1, <2>10, FileType DEF LoadNonbc, Take
    <3>2. QED
      BY <1>1, <2>10, <3>1
      DEF TypeOK, LoadNonbc, Take, symVars, callVars, gdatVars, refVars
  <2>11. QED
    BY <1>2, <2>2, <2>4, <2>5, <2>6, <2>7, <2>8, <2>9, <2>10 DEF LoadFile
<1>3. CASE EndWalk
  BY <1>1, <1>3 DEF EndWalk, TypeOK, symVars, callVars, gdatVars, refVars
<1>4. CASE LinkThroughData
  <2>1. \A l \in gdat_lnks : l[1] \in Obj /\ l[2] \in Sym
    BY <1>1 DEF TypeOK
  <2>2. \A c \in gdat_cbs : c[2] \in Sym
    BY <1>1 DEF TypeOK
  <2>3. QED
    BY <1>1, <1>4, <2>1, <2>2
    DEF LinkThroughData, TypeOK, symVars, gdatVars, refVars
<1>5. CASE FindInlined
  <2>1. \A n \in frevdep_map_noinline : n[1] \in Obj /\ n[2] \in Sym
    BY <1>1 DEF TypeOK
  <2>2. inlined' \subseteq Obj \X Sym
    <3>1. SUFFICES ASSUME NEW e \in inlined' PROVE e \in Obj \X Sym
      OBVIOUS
    <3>2. PICK t \in frevdep_map_noinline : e = <<t[1], t[2]>>
      BY <1>5, Zenon DEF FindInlined
    <3>3. QED
      BY <2>1, <3>2
  <2>3. QED
    BY <1>1, <1>5, <2>2
    DEF FindInlined, TypeOK, symVars, callVars, gdatVars, refVars
<1>6. CASE MergeNoinline
  <2>1. \A n \in Restored : n[1] \in Obj /\ n[2] \in Sym /\ n[3] \in Sym
    BY <1>1 DEF TypeOK, Restored
  <2>2. QED
    BY <1>1, <1>6, <2>1 DEF MergeNoinline, TypeOK, symVars, gdatVars, refVars
<1>7. CASE UNCHANGED vars
  BY <1>1, <1>7 DEF vars, TypeOK, symVars, callVars, gdatVars, refVars
<1>8. QED
  BY <1>1, <1>2, <1>3, <1>4, <1>5, <1>6, <1>7 DEF Next

\* Whatever the build tree holds, the load fills the tables with values of
\* their types.
THEOREM LoadTypeCorrect == Spec => []TypeOK
  BY InitType, NextType, PTL DEF Spec

-----------------------------------------------------------------------------
\* The two directions.

\* The empty tables agree.
LEMMA InitMirrored == Init => Mirrored
  BY DEF Init, Mirrored

\* Every step updates both directions of a table alike.
LEMMA NextMirrored == Mirrored /\ [Next]_vars => Mirrored'
<1>1. SUFFICES ASSUME Mirrored, [Next]_vars PROVE Mirrored'
  OBVIOUS
<1>2. ASSUME NEW x \in todo, LoadFile(x) PROVE Mirrored'
  <2>1. CASE LoadSymtab(x)
    BY <1>1, <2>1 DEF Mirrored, LoadSymtab, callVars, refVars
  <2>2. CASE LoadImptab(x)
    BY <1>1, <2>2 DEF Mirrored, LoadImptab, symVars, refVars
  <2>3. CASE LoadImpnoin(x)
    BY <1>1, <2>3 DEF Mirrored, LoadImpnoin, symVars, callVars, refVars
  <2>4. CASE LoadSymlnk(x)
    BY <1>1, <2>4 DEF Mirrored, LoadSymlnk, symVars, callVars, refVars
  <2>5. CASE LoadSymcbs(x)
    BY <1>1, <2>5 DEF Mirrored, LoadSymcbs, symVars, callVars, refVars
  <2>6. CASE LoadFptref(x)
    BY <1>1, <2>6 DEF Mirrored, LoadFptref, symVars, callVars
  <2>7. CASE LoadMod(x)
    BY <1>1, <2>7 DEF Mirrored, LoadMod, symVars, callVars, refVars
  <2>8. CASE LoadNonbc(x)
    BY <1>1, <2>8 DEF Mirrored, LoadNonbc, symVars, callVars, refVars
  <2>9. QED
    BY <1>2, <2>1, <2>2, <2>3, <2>4, <2>5, <2>6, <2>7, <2>8 DEF LoadFile
<1>3. CASE EndWalk
  BY <1>1, <1>3 DEF EndWalk, Mirrored, symVars, callVars, refVars
<1>4. CASE LinkThroughData
  BY <1>1, <1>4 DEF LinkThroughData, Mirrored, symVars, refVars
<1>5. CASE FindInlined
  BY <1>1, <1>5 DEF FindInlined, Mirrored, symVars, callVars, refVars
<1>6. CASE MergeNoinline
  BY <1>1, <1>6 DEF MergeNoinline, Mirrored, symVars, refVars
<1>7. CASE UNCHANGED vars
  BY <1>1, <1>7 DEF vars, Mirrored, symVars, callVars, refVars
<1>8. QED
  BY <1>1, <1>2, <1>3, <1>4, <1>5, <1>6, <1>7 DEF Next

\* Whatever the build tree and the order of the walk, the tables kept in two
\* directions agree in every state of the load.
THEOREM TablesMirrored == Spec => []Mirrored
  BY InitMirrored, NextMirrored, PTL DEF Spec

-----------------------------------------------------------------------------
\* The content of the tables, entry by entry.

\* An .imptab, .symlnk or .symcbs file read so far has the row.
Row(kind, o, s, t) ==
  \E x \in build \ todo : x.kind = kind /\ x.obj = o /\ <<s, t>> \in OwnRows(x)

\* An .impnoin file read so far shows that s calls t, which is local.
LocalRow(o, s, t) ==
  \E x \in build \ todo :
    /\ x.kind = "impnoin" /\ x.obj = o /\ <<s, t>> \in OwnRows(x)
    /\ s # t /\ \E c \in OwnRows(x) : c[1] = t

\* The call is in an .imptab file or goes through data.
Seen(o, s, t) ==
  \/ Row("imptab", o, s, t)
  \/ \E v \in Sym : Row("symlnk", o, s, v) /\ \E q \in Obj : Row("symcbs", q, v, t)

\* The call was inlined, and both ends still take part in calls.
Back(o, s, t) ==
  /\ LocalRow(o, s, t)
  /\ \E u \in Sym : Seen(o, s, u)
  /\ \E q \in Obj, u \in Sym : Seen(q, u, t)

\* What the tables hold, at every point of the load: each holds the rows of
\* the files read so far, and fdep_map what the passes up to pc have added.
LinksInv == \A o \in Obj, s, t \in Sym :
  <<o, s, t>> \in gdat_lnks <=> Row("symlnk", o, s, t)

CallbacksInv == \A s, t \in Sym :
  <<s, t>> \in gdat_cbs <=> \E o \in Obj : Row("symcbs", o, s, t)

LocalInv == \A o \in Obj, s, t \in Sym :
  <<o, t, s>> \in frevdep_map_noinline <=> LocalRow(o, s, t)

CallsInv == \A o \in Obj, s, t \in Sym :
  /\ pc \in {"walk", "link"} => (<<o, s, t>> \in fdep_map <=> Row("imptab", o, s, t))
  /\ pc \in {"inlined", "merge"} => (<<o, s, t>> \in fdep_map <=> Seen(o, s, t))
  /\ pc = "done" => (<<o, s, t>> \in fdep_map <=> Seen(o, s, t) \/ Back(o, s, t))

ContentInv ==
  /\ pc # "walk" => todo = {}
  /\ LinksInv /\ CallbacksInv /\ LocalInv /\ CallsInv

\* Nothing is read, nothing is recorded.
LEMMA InitContent == Init => ContentInv
  BY DEF Init, ContentInv, LinksInv, CallbacksInv, LocalInv, CallsInv, Row, LocalRow

\* Taking a file adds its rows and no others.
LEMMA TakeRow ==
  ASSUME TypeOK, NEW x \in todo, NEW k, Take(x, k)
  PROVE  /\ \A kind, o, s, t :
              Row(kind, o, s, t)' <=>
                \/ Row(kind, o, s, t)
                \/ kind = k /\ o = x.obj /\ <<s, t>> \in OwnRows(x)
         /\ \A o, s, t :
              LocalRow(o, s, t)' <=>
                \/ LocalRow(o, s, t)
                \/ /\ k = "impnoin" /\ o = x.obj /\ <<s, t>> \in OwnRows(x)
                   /\ s # t /\ \E c \in OwnRows(x) : c[1] = t
<1>1. /\ build' \ todo' = (build \ todo) \cup {x} /\ x.kind = k
      /\ build' = build
  BY DEF Take, TypeOK
<1>2. \A y : OwnRows(y)' = OwnRows(y)
  BY DEF OwnRows
<1> QED
  BY <1>1, <1>2 DEF Row, LocalRow

\* Nothing is read after the walk.
LEMMA KeepRow ==
  ASSUME UNCHANGED <<build, todo>>
  PROVE  /\ \A kind, o, s, t : Row(kind, o, s, t)' <=> Row(kind, o, s, t)
         /\ \A o, s, t : LocalRow(o, s, t)' <=> LocalRow(o, s, t)
         /\ \A o, s, t : Seen(o, s, t)' <=> Seen(o, s, t)
         /\ \A o, s, t : Back(o, s, t)' <=> Back(o, s, t)
<1>1. \A y : OwnRows(y)' = OwnRows(y)
  BY DEF OwnRows
<1>2. /\ \A kind, o, s, t : Row(kind, o, s, t)' <=> Row(kind, o, s, t)
      /\ \A o, s, t : LocalRow(o, s, t)' <=> LocalRow(o, s, t)
  BY <1>1 DEF Row, LocalRow
<1>3. \A o, s, t : Seen(o, s, t)' <=> Seen(o, s, t)
  BY <1>2 DEF Seen
<1>4. \A o, s, t : Back(o, s, t)' <=> Back(o, s, t)
  BY <1>2, <1>3 DEF Back
<1> QED
  BY <1>2, <1>3, <1>4

\* Every step brings the tables to what the files read so far say.
LEMMA NextContent ==
  ASSUME TypeOK, Mirrored, ContentInv, [Next]_vars
  PROVE  ContentInv'
<1> USE DEF ContentInv
<1>1. ASSUME NEW x \in todo, LoadFile(x) PROVE ContentInv'
  <2>1. x \in File
    BY DEF TypeOK
  <2>2. x.kind \in {"imptab", "impnoin", "symlnk", "symcbs"} => x.obj \in Obj
    BY <2>1, FileType
  <2>3. ASSUME NEW k, Take(x, k)
        PROVE  /\ pc = "walk" /\ pc' = "walk" /\ x.kind = k
               /\ k # "symlnk" /\ UNCHANGED gdat_lnks => LinksInv'
               /\ k # "symcbs" /\ UNCHANGED gdat_cbs => CallbacksInv'
               /\ k # "impnoin" /\ UNCHANGED frevdep_map_noinline => LocalInv'
               /\ k # "imptab" /\ UNCHANGED fdep_map => CallsInv'
    <3>1. pc = "walk" /\ pc' = "walk" /\ x.kind = k
      BY <2>3 DEF Take
    <3>2. k # "symlnk" /\ UNCHANGED gdat_lnks => LinksInv'
      BY <2>3, TakeRow DEF LinksInv
    <3>3. k # "symcbs" /\ UNCHANGED gdat_cbs => CallbacksInv'
      <4>1. ASSUME NEW o, NEW s, NEW t, k # "symcbs"
            PROVE  Row("symcbs", o, s, t)' <=> Row("symcbs", o, s, t)
        BY <2>3, <4>1, TakeRow
      <4> QED
        BY <4>1 DEF CallbacksInv
    <3>4. k # "impnoin" /\ UNCHANGED frevdep_map_noinline => LocalInv'
      <4>1. ASSUME NEW o, NEW s, NEW t, k # "impnoin"
            PROVE  LocalRow(o, s, t)' <=> LocalRow(o, s, t)
        BY <2>3, <4>1, TakeRow
      <4> QED
        BY <4>1 DEF LocalInv
    <3>5. k # "imptab" /\ UNCHANGED fdep_map => CallsInv'
      <4>1. ASSUME NEW o, NEW s, NEW t, k # "imptab"
            PROVE  Row("imptab", o, s, t)' <=> Row("imptab", o, s, t)
        BY <2>3, <4>1, TakeRow
      <4> QED
        BY <3>1, <4>1 DEF CallsInv
    <3> QED
      BY <3>1, <3>2, <3>3, <3>4, <3>5
  <2>4. CASE LoadSymtab(x)
    BY <2>3, <2>4 DEF LoadSymtab, callVars, gdatVars
  <2>5. CASE LoadImptab(x)
    <3>1. Take(x, "imptab") /\ pc = "walk" /\ pc' = "walk" /\ x.obj \in Obj
      BY <2>2, <2>3, <2>5 DEF LoadImptab
    <3>2. fdep_map' = fdep_map \cup {<<x.obj, r[1], r[2]>> : r \in OwnRows(x)}
      BY <2>5 DEF LoadImptab
    <3>3. \A r \in OwnRows(x) : r = <<r[1], r[2]>>
      BY <2>1, <2>3, <3>1, FileType DEF OwnRows
    <3>4. \A o, s, t : <<o, s, t>> \in fdep_map' <=>
            \/ <<o, s, t>> \in fdep_map
            \/ o = x.obj /\ <<s, t>> \in OwnRows(x)
      BY <3>2, <3>3
    <3>5. ASSUME NEW o, NEW s, NEW t
          PROVE  Row("imptab", o, s, t)' <=>
                   Row("imptab", o, s, t) \/ (o = x.obj /\ <<s, t>> \in OwnRows(x))
      BY <3>1, TakeRow
    <3>6. CallsInv'
      BY <3>1, <3>4, <3>5 DEF CallsInv
    <3> QED
      BY <2>3, <2>5, <3>1, <3>6 DEF LoadImptab, gdatVars
  <2>6. CASE LoadImpnoin(x)
    <3>1. Take(x, "impnoin") /\ x.obj \in Obj
      BY <2>2, <2>3, <2>6 DEF LoadImpnoin
    <3>2. \A r \in OwnRows(x) : r = <<r[1], r[2]>>
      BY <2>1, <2>3, <3>1, FileType DEF OwnRows
    <3>3. \A o, s, t : <<o, t, s>> \in frevdep_map_noinline' <=>
            \/ <<o, t, s>> \in frevdep_map_noinline
            \/ /\ o = x.obj /\ <<s, t>> \in OwnRows(x)
               /\ s # t /\ \E c \in OwnRows(x) : c[1] = t
      BY <2>6, <3>2 DEF LoadImpnoin
    <3>4. ASSUME NEW o, NEW s, NEW t
          PROVE  LocalRow(o, s, t)' <=>
                   \/ LocalRow(o, s, t)
                   \/ /\ o = x.obj /\ <<s, t>> \in OwnRows(x)
                      /\ s # t /\ \E c \in OwnRows(x) : c[1] = t
      BY <3>1, TakeRow
    <3>5. \A o \in Obj, s, t \in Sym :
            <<o, t, s>> \in frevdep_map_noinline <=> LocalRow(o, s, t)
      BY DEF LocalInv
    <3>6. \A o \in Obj, s, t \in Sym :
            <<o, t, s>> \in frevdep_map_noinline' <=> LocalRow(o, s, t)'
      BY ONLY <3>3, <3>4, <3>5
    <3>7. LocalInv'
      BY <3>6 DEF LocalInv
    <3> QED
      BY <2>3, <2>6, <3>1, <3>7 DEF LoadImpnoin, callVars, gdatVars
  <2>7. CASE LoadSymlnk(x)
    <3>1. Take(x, "symlnk") /\ x.obj \in Obj
      BY <2>2, <2>3, <2>7 DEF LoadSymlnk
    <3>2. \A r \in OwnRows(x) : r = <<r[1], r[2]>>
      BY <2>1, <2>3, <3>1, FileType DEF OwnRows
    <3>3. \A o, s, t : <<o, s, t>> \in gdat_lnks' <=>
            <<o, s, t>> \in gdat_lnks \/ (o = x.obj /\ <<s, t>> \in OwnRows(x))
      BY <2>7, <3>2 DEF LoadSymlnk
    <3>4. LinksInv'
      BY <3>1, <3>3, TakeRow DEF LinksInv
    <3> QED
      BY <2>3, <2>7, <3>1, <3>4 DEF LoadSymlnk, callVars
  <2>8. CASE LoadSymcbs(x)
    <3>1. Take(x, "symcbs") /\ x.obj \in Obj
      BY <2>2, <2>3, <2>8 DEF LoadSymcbs
    <3>2. CallbacksInv'
      <4>1. \A o \in Obj, s, t \in Sym : Row("symcbs", o, s, t)' <=>
              Row("symcbs", o, s, t) \/ (o = x.obj /\ <<s, t>> \in OwnRows(x))
        BY <3>1, TakeRow
      <4>2. gdat_cbs' = gdat_cbs \cup OwnRows(x)
        BY <2>8 DEF LoadSymcbs
      <4>3. \A s, t \in Sym :
              <<s, t>> \in gdat_cbs <=> \E o \in Obj : Row("symcbs", o, s, t)
        BY DEF CallbacksInv
      <4>4. \A s, t \in Sym :
              <<s, t>> \in gdat_cbs' <=> \E o \in Obj : Row("symcbs", o, s, t)'
        BY ONLY <3>1, <4>1, <4>2, <4>3
      <4> QED
        BY <4>4 DEF CallbacksInv
    <3> QED
      BY <2>3, <2>8, <3>1, <3>2 DEF LoadSymcbs, callVars
  <2>9. CASE LoadFptref(x)
    BY <2>3, <2>9 DEF LoadFptref, callVars, gdatVars
  <2>10. CASE LoadMod(x)
    BY <2>3, <2>10 DEF LoadMod, callVars, gdatVars
  <2>11. CASE LoadNonbc(x)
    BY <2>3, <2>11 DEF LoadNonbc, callVars, gdatVars
  <2> QED
    BY <1>1, <2>4, <2>5, <2>6, <2>7, <2>8, <2>9, <2>10, <2>11 DEF LoadFile
<1>2. ASSUME UNCHANGED <<build, todo, gdatVars, frevdep_map_noinline>>
      PROVE  LinksInv' /\ CallbacksInv' /\ LocalInv'
  BY <1>2, KeepRow DEF LinksInv, CallbacksInv, LocalInv, gdatVars
<1>3. CASE EndWalk
  BY <1>2, <1>3, KeepRow DEF EndWalk, CallsInv, callVars
<1>4. CASE LinkThroughData
  <2>1. /\ pc = "link" /\ pc' = "inlined"
        /\ UNCHANGED <<build, todo, frevdep_map_noinline, gdatVars>>
    BY <1>4 DEF LinkThroughData
  <2>2. ASSUME NEW o \in Obj, NEW s \in Sym, NEW t \in Sym
        PROVE  <<o, s, t>> \in fdep_map' <=> Seen(o, s, t)
    <3>1. <<o, s, t>> \in fdep_map' <=>
            \/ <<o, s, t>> \in fdep_map
            \/ \E u \in gdat_lnks \X gdat_cbs :
                 u[1][3] = u[2][1] /\ <<o, s, t>> = <<u[1][1], u[1][2], u[2][2]>>
      BY <1>4 DEF LinkThroughData
    <3>2. (\E u \in gdat_lnks \X gdat_cbs :
             u[1][3] = u[2][1] /\ <<o, s, t>> = <<u[1][1], u[1][2], u[2][2]>>)
          <=> \E v \in Sym : <<o, s, v>> \in gdat_lnks /\ <<v, t>> \in gdat_cbs
      <4>1. ASSUME NEW v \in Sym, <<o, s, v>> \in gdat_lnks, <<v, t>> \in gdat_cbs
            PROVE  \E u \in gdat_lnks \X gdat_cbs :
                     u[1][3] = u[2][1] /\ <<o, s, t>> = <<u[1][1], u[1][2], u[2][2]>>
        <5>1. <<<<o, s, v>>, <<v, t>>>> \in gdat_lnks \X gdat_cbs
          BY <4>1
        <5> QED
          BY <5>1
      <4>2. ASSUME NEW l \in gdat_lnks, NEW c \in gdat_cbs, l[3] = c[1],
                   <<o, s, t>> = <<l[1], l[2], c[2]>>
            PROVE  \E v \in Sym : <<o, s, v>> \in gdat_lnks /\ <<v, t>> \in gdat_cbs
        BY <4>2 DEF TypeOK
      <4> QED
        BY <4>1, <4>2
    <3> QED
      BY <2>1, <3>1, <3>2 DEF CallsInv, LinksInv, CallbacksInv, Seen
  <2> QED
    BY <1>2, <2>1, <2>2, KeepRow DEF CallsInv
<1>5. CASE FindInlined
  BY <1>2, <1>5, KeepRow DEF FindInlined, CallsInv, callVars
<1>6. CASE MergeNoinline
  <2>1. /\ pc = "merge" /\ pc' = "done"
        /\ UNCHANGED <<build, todo, frevdep_map_noinline, gdatVars>>
    BY <1>6 DEF MergeNoinline
  <2>2. ASSUME NEW o \in Obj, NEW s \in Sym, NEW t \in Sym
        PROVE  <<o, t, s>> \in Restored <=> Back(o, s, t)
    <3>1. (\E e \in fdep_map : e[1] = o /\ e[2] = s) <=> \E u \in Sym : <<o, s, u>> \in fdep_map
      <4>1. \A e \in fdep_map : e = <<e[1], e[2], e[3]>> /\ e[3] \in Sym
        BY DEF TypeOK
      <4> QED
        BY ONLY <4>1
    <3>2. (\E e \in frevdep_map : e[1] = t) <=>
            \E q \in Obj, u \in Sym : <<q, u, t>> \in fdep_map
      <4>1. (\E e \in frevdep_map : e[1] = t) <=>
              \E q \in Obj, u \in Sym : <<t, u, q>> \in frevdep_map
        <5>1. \A e \in frevdep_map :
                e = <<e[1], e[2], e[3]>> /\ e[2] \in Sym /\ e[3] \in Obj
          BY DEF TypeOK
        <5>2. ASSUME NEW e \in frevdep_map, e[1] = t
              PROVE  \E q \in Obj, u \in Sym : <<t, u, q>> \in frevdep_map
          <6>1. <<t, e[2], e[3]>> \in frevdep_map
            BY <5>1, <5>2
          <6> QED
            BY <5>1, <6>1
        <5>3. ASSUME NEW q \in Obj, NEW u \in Sym, <<t, u, q>> \in frevdep_map
              PROVE  \E e \in frevdep_map : e[1] = t
          BY <5>3
        <5> QED
          BY <5>2, <5>3
      <4> QED
        BY <4>1 DEF Mirrored
    <3>3. <<o, t, s>> \in Restored <=>
            /\ LocalRow(o, s, t)
            /\ \E e \in fdep_map : e[1] = o /\ e[2] = s
            /\ \E e \in frevdep_map : e[1] = t
      BY DEF Restored, LocalInv
    <3> QED
      BY <2>1, <3>1, <3>2, <3>3 DEF CallsInv, Back
  <2>3. ASSUME NEW o \in Obj, NEW s \in Sym, NEW t \in Sym
        PROVE  <<o, s, t>> \in fdep_map' <=>
                 <<o, s, t>> \in fdep_map \/ <<o, t, s>> \in Restored
    <3>1. \A n \in Restored : n = <<n[1], n[2], n[3]>>
      BY DEF Restored, TypeOK
    <3> QED
      BY <1>6, <3>1 DEF MergeNoinline
  <2>4. ASSUME NEW o \in Obj, NEW s \in Sym, NEW t \in Sym
        PROVE  <<o, s, t>> \in fdep_map' <=> Seen(o, s, t) \/ Back(o, s, t)
    BY <2>1, <2>2, <2>3 DEF CallsInv
  <2> QED
    BY <1>2, <2>1, <2>4, KeepRow DEF CallsInv
<1>7. CASE UNCHANGED vars
  BY <1>2, <1>7, KeepRow DEF vars, CallsInv, callVars
<1> QED
  BY <1>1, <1>3, <1>4, <1>5, <1>6, <1>7 DEF Next

\* Every table row of one kind, as a triple, once everything is read.
LEMMA RowsAreTriples ==
  ASSUME TypeOK, todo = {},
         NEW kind \in {"imptab", "symlnk", "symcbs"}
  PROVE  /\ Rows(kind) \subseteq Obj \X Sym \X Sym
         /\ \A o, s, t : <<o, s, t>> \in Rows(kind) <=> Row(kind, o, s, t)
<1>1. ASSUME NEW x \in build, x.kind = kind
      PROVE  x.obj \in Obj /\ \A r \in OwnRows(x) :
               r = <<r[1], r[2]>> /\ r[1] \in Sym /\ r[2] \in Sym
  BY <1>1, FileType DEF TypeOK, OwnRows
<1>2. \A e : e \in Rows(kind) <=>
        \E x \in build : x.kind = kind /\ \E r \in OwnRows(x) : e = <<x.obj, r[1], r[2]>>
  BY DEF Rows
<1>3. Rows(kind) \subseteq Obj \X Sym \X Sym
  BY <1>1, <1>2
<1>4. ASSUME NEW o, NEW s, NEW t
      PROVE  <<o, s, t>> \in Rows(kind) <=> Row(kind, o, s, t)
  BY <1>1, <1>2 DEF Row
<1> QED
  BY <1>3, <1>4

\* The same for the local calls of .impnoin files.
LEMMA LocalAreTriples ==
  ASSUME TypeOK, todo = {}
  PROVE  /\ LocalCalls \subseteq Obj \X Sym \X Sym
         /\ \A o, s, t : <<o, s, t>> \in LocalCalls <=> LocalRow(o, s, t)
<1>1. ASSUME NEW x \in build, x.kind = "impnoin"
      PROVE  x.obj \in Obj /\ \A r \in OwnRows(x) :
               r = <<r[1], r[2]>> /\ r[1] \in Sym /\ r[2] \in Sym
  BY <1>1, FileType DEF TypeOK, OwnRows
<1>2. \A e : e \in LocalCalls <=>
        \E x \in build : /\ x.kind = "impnoin"
                        /\ \E r \in OwnRows(x) :
                             /\ r[1] # r[2] /\ \E c \in OwnRows(x) : c[1] = r[2]
                             /\ e = <<x.obj, r[1], r[2]>>
  BY DEF LocalCalls
<1>3. LocalCalls \subseteq Obj \X Sym \X Sym
  BY <1>1, <1>2
<1>4. ASSUME NEW o, NEW s, NEW t
      PROVE  <<o, s, t>> \in LocalCalls <=> LocalRow(o, s, t)
  BY <1>1, <1>2 DEF LocalRow
<1> QED
  BY <1>3, <1>4

\* The invariant on the content is the property at the end of the load.
LEMMA ContentGivesOrder ==
  ASSUME TypeOK, ContentInv
  PROVE  WalkOrderIrrelevant
<1> DEFINE data == {<<u[1][1], u[1][2], u[2][3]>> : u \in
                     {w \in Rows("symlnk") \X Rows("symcbs") : w[1][3] = w[2][2]}}
           seen == Rows("imptab") \cup data
           back == {n \in LocalCalls : /\ \E q \in seen : q[1] = n[1] /\ q[2] = n[2]
                                       /\ \E q \in seen : q[3] = n[3]}
<1>1. SUFFICES ASSUME pc = "done" PROVE fdep_map = seen \cup back
  BY DEF WalkOrderIrrelevant
<1>2. todo = {}
  BY <1>1 DEF ContentInv
<1>3. \A o \in Obj, s, t \in Sym :
        <<o, s, t>> \in fdep_map <=> Seen(o, s, t) \/ Back(o, s, t)
  BY <1>1 DEF ContentInv, CallsInv
<1>4. data \subseteq Obj \X Sym \X Sym
  <2>1. \A l \in Rows("symlnk") : l[1] \in Obj /\ l[2] \in Sym
    BY <1>2, RowsAreTriples
  <2>2. \A c \in Rows("symcbs") : c[3] \in Sym
    BY <1>2, RowsAreTriples
  <2> QED
    BY <2>1, <2>2
<1>5. ASSUME NEW o, NEW s, NEW t
      PROVE  <<o, s, t>> \in data <=>
               \E v \in Sym : Row("symlnk", o, s, v) /\ \E q \in Obj : Row("symcbs", q, v, t)
  <2>1. ASSUME NEW l \in Rows("symlnk"), NEW c \in Rows("symcbs"), l[3] = c[2],
               <<o, s, t>> = <<l[1], l[2], c[3]>>
        PROVE  \E v \in Sym : Row("symlnk", o, s, v) /\ \E q \in Obj : Row("symcbs", q, v, t)
    <3>1. l = <<o, s, l[3]>> /\ l[3] \in Sym
      BY <1>2, <2>1, RowsAreTriples
    <3>2. c = <<c[1], l[3], t>> /\ c[1] \in Obj
      BY <1>2, <2>1, RowsAreTriples
    <3>3. Row("symlnk", o, s, l[3])
      BY <1>2, <3>1, RowsAreTriples
    <3>4. Row("symcbs", c[1], l[3], t)
      BY <1>2, <3>2, RowsAreTriples
    <3> QED
      BY <3>1, <3>2, <3>3, <3>4
  <2>2. ASSUME NEW v \in Sym, NEW q \in Obj, Row("symlnk", o, s, v), Row("symcbs", q, v, t)
        PROVE  <<o, s, t>> \in data
    <3>1. <<o, s, v>> \in Rows("symlnk")
      BY <1>2, <2>2, RowsAreTriples
    <3>2. <<q, v, t>> \in Rows("symcbs")
      BY <1>2, <2>2, RowsAreTriples
    <3>3. <<<<o, s, v>>, <<q, v, t>>>> \in
            {w \in Rows("symlnk") \X Rows("symcbs") : w[1][3] = w[2][2]}
      BY <3>1, <3>2
    <3> QED
      BY <3>3
  <2> QED
    BY <2>1, <2>2
<1>6. seen \subseteq Obj \X Sym \X Sym
  BY <1>2, <1>4, RowsAreTriples
<1>7. ASSUME NEW o, NEW s, NEW t
      PROVE  <<o, s, t>> \in seen <=> Seen(o, s, t)
  <2>1. <<o, s, t>> \in Rows("imptab") <=> Row("imptab", o, s, t)
    BY <1>2, RowsAreTriples
  <2> HIDE DEF data
  <2> QED
    BY <1>5, <2>1 DEF Seen
<1> HIDE DEF data, seen
<1>8. ASSUME NEW o \in Obj, NEW s \in Sym, NEW t \in Sym
      PROVE  <<o, s, t>> \in back <=> Back(o, s, t)
  <2>1. <<o, s, t>> \in LocalCalls <=> LocalRow(o, s, t)
    BY <1>2, LocalAreTriples
  <2>2. \A e \in seen : /\ e = <<e[1], e[2], e[3]>> /\ e[1] \in Obj
                       /\ e[2] \in Sym /\ e[3] \in Sym
    BY <1>6
  <2>3. (\E e \in seen : e[1] = o /\ e[2] = s) <=> \E u \in Sym : <<o, s, u>> \in seen
    BY ONLY <2>2
  <2>4. (\E e \in seen : e[3] = t) <=> \E q \in Obj, u \in Sym : <<q, u, t>> \in seen
    <3>1. ASSUME NEW e \in seen, e[3] = t
          PROVE  \E q \in Obj, u \in Sym : <<q, u, t>> \in seen
      <4>1. <<e[1], e[2], t>> \in seen
        BY <2>2, <3>1
      <4> QED
        BY <2>2, <4>1
    <3>2. ASSUME NEW q \in Obj, NEW u \in Sym, <<q, u, t>> \in seen
          PROVE  \E e \in seen : e[3] = t
      BY <3>2
    <3> QED
      BY <3>1, <3>2
  <2> QED
    BY <1>7, <2>1, <2>3, <2>4 DEF Back
<1>9. back \subseteq Obj \X Sym \X Sym
  BY <1>2, LocalAreTriples
<1> HIDE DEF back
<1>10. fdep_map \subseteq Obj \X Sym \X Sym
  BY DEF TypeOK
<1>11. ASSUME NEW e \in Obj \X Sym \X Sym
       PROVE  e \in fdep_map <=> e \in seen \cup back
  BY <1>3, <1>7, <1>8
<1> QED
  BY <1>6, <1>9, <1>10, <1>11

\* Whatever the build tree and the order of os.walk, the loaded call table is
\* the one the files determine: their .imptab rows, the calls through data two
\* files name, and the inlined calls between functions that still take part.
THEOREM LoadIgnoresWalkOrder == Spec => []WalkOrderIrrelevant
<1>1. TypeOK /\ Mirrored /\ ContentInv /\ [Next]_vars => ContentInv'
  BY NextContent
<1>2. TypeOK /\ ContentInv => WalkOrderIrrelevant
  BY ContentGivesOrder
<1> QED
  BY <1>1, <1>2, InitContent, LoadTypeCorrect, TablesMirrored, PTL DEF Spec

-----------------------------------------------------------------------------
\* The pass that puts calls back.

\* inlined holds every function of an object with a call that is missing.
InlinedInv ==
  pc = "merge" =>
    \A n \in frevdep_map_noinline :
      <<n[2], n[3], n[1]>> \notin frevdep_map => <<n[1], n[2]>> \in inlined

\* FindInlined establishes it, and it is not touched before the merge.
LEMMA InlinedInductive ==
  /\ Init => InlinedInv
  /\ InlinedInv /\ [Next]_vars => InlinedInv'
<1>1. Init => InlinedInv
  BY DEF Init, InlinedInv
<1>2. ASSUME InlinedInv, [Next]_vars PROVE InlinedInv'
  <2>1. ASSUME NEW x \in todo, LoadFile(x) PROVE pc' = "walk"
    BY <2>1 DEF LoadFile, LoadSymtab, LoadImptab, LoadImpnoin, LoadSymlnk,
       LoadSymcbs, LoadFptref, LoadMod, LoadNonbc, Take
  <2>2. CASE FindInlined
    <3>1. /\ UNCHANGED <<frevdep_map, frevdep_map_noinline>>
          /\ inlined' = {<<t[1], t[2]>> :
                           t \in {n \in frevdep_map_noinline :
                                    <<n[2], n[3], n[1]>> \notin frevdep_map}}
      BY <2>2 DEF FindInlined, callVars
    <3> QED
      BY <3>1 DEF InlinedInv
  <2>3. CASE UNCHANGED vars
    BY <1>2, <2>3 DEF InlinedInv, vars, callVars
  <2> QED
    BY <1>2, <2>1, <2>2, <2>3
    DEF Next, EndWalk, LinkThroughData, MergeNoinline, InlinedInv
<1> QED
  BY <1>1, <1>2

\* The merge of the calls before inlining adds callers to no function but
\* those FindInlined listed.
THEOREM MergeOnlyInlined == Spec => OnlyInlinedRestored
<1>1. ASSUME InlinedInv, [Next]_vars
      PROVE  [pc = "merge" =>
                \A t \in frevdep_map' \ frevdep_map : <<t[3], t[1]>> \in inlined]_vars
  <2>1. ASSUME pc = "merge", MergeNoinline, NEW t \in frevdep_map' \ frevdep_map
        PROVE  <<t[3], t[1]>> \in inlined
    <3>1. PICK n \in Restored : t = <<n[2], n[3], n[1]>>
      BY <2>1 DEF MergeNoinline
    <3>2. n \in frevdep_map_noinline
      BY DEF Restored
    <3> QED
      BY <1>1, <2>1, <3>1, <3>2 DEF InlinedInv
  <2>2. ASSUME NEW x \in todo, LoadFile(x) PROVE pc = "walk"
    BY <2>2 DEF LoadFile, LoadSymtab, LoadImptab, LoadImpnoin, LoadSymlnk,
       LoadSymcbs, LoadFptref, LoadMod, LoadNonbc, Take
  <2> QED
    BY <1>1, <2>1, <2>2 DEF Next, EndWalk, LinkThroughData, FindInlined
<1> QED
  BY <1>1, InlinedInductive, PTL DEF Spec, OnlyInlinedRestored

=============================================================================
