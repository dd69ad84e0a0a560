---------------------------- MODULE MCPatchImage ----------------------------
(***************************************************************************)
(* A kernel, three modules, seven images and four profiles for PatchImage. *)
(***************************************************************************)
EXTENDS PatchImage, SequencesExt

\* Functions one after the other, each given by its instructions <<name, length>>.
Bytes(code) ==
  FlattenSeq([k \in DOMAIN code |->
                [i \in 1..code[k][2] |-> IF i = 1 THEN code[k][1] ELSE "."]])

\* head bytes come before the first function.
Assemble(head, fs) ==
  LET body == [k \in DOMAIN fs |-> Bytes(fs[k][3])]
      off(k) == 1 + head + Len(FlattenSeq(SubSeq(body, 1, k - 1)))
  IN  [text |-> Bytes(IF head = 0 THEN <<>> ELSE << <<"elf", head>> >>) \o FlattenSeq(body),
       syms |-> [k \in DOMAIN fs |-> [name |-> fs[k][1], ty |-> fs[k][2],
                                      off |-> off(k), end |-> off(k) + Len(body[k])]]]

endbr == <<"endbr", 4>>
call  == <<"call", 5>>
op    == <<"op", 2>>
ret   == <<"ret", 1>>
ud    == <<"ud2", 2>>
bad   == <<"bad", 2>>
jmp   == <<"jmp", 5>>
ijmp  == <<"ijmp", 2>>
sjmp  == <<"sjmp", 2>>
loop  == <<"loop", 2>>

\* "probe" is static twice and global once, "scan" data once and static twice;
\* "panic" ends in ud2 after two instructions.
KernelCode == Assemble(4, <<
  <<"scan",  "D", <<op>>>>,
  <<"probe", "t", <<endbr, call, op, ret>>>>,
  <<"setup", "t", <<endbr, call, op, op, ret>>>>,
  <<"probe", "T", <<call, op, op, jmp>>>>,
  <<"scan",  "t", <<ret>>>>,
  <<"scan",  "t", <<op, ijmp>>>>,
  <<"probe", "t", <<op, op, op, ret>>>>,
  <<"odd",   "W", <<endbr, call, bad, ret>>>>,
  <<"panic", "T", <<op, ud>>>>,
  <<"next",  "T", <<op, op, jmp>>>>,
  <<"table", "D", <<op, op, op, op, op>>>> >>)

\* .text is loaded at 1000.  "next" and "table" are in another section, 9 bytes
\* further on in memory than in the file: patch_kernel takes "table" for "next".
McKernel ==
  [text |-> KernelCode.text, syms |-> KernelCode.syms, textaddr |-> 1000, text_off |-> 4,
   addr |-> [k \in DOMAIN KernelCode.syms |->
               995 + KernelCode.syms[k].off
                   + IF KernelCode.syms[k].name \in {"next", "table"} THEN 9 ELSE 0]]

McMod == {"net", "blk", "snd-hda"}

McModule == [m \in McMod |->
  CASE m = "net" -> Assemble(0, <<
         <<"open",  "t", <<endbr, call, op, ret>>>>,
         <<"close", "t", <<sjmp, jmp, op>>>>,
         <<"open",  "T", <<op, ret>>>>,
         <<"short", "T", <<sjmp, ret>>>>,
         <<"init",  "T", <<op, loop, ret>>>> >>)
    [] m = "blk" -> Assemble(0, <<
         <<"queue", "T", <<call, op, op, ret>>>>,
         <<"raise", "T", <<sjmp, ijmp, op>>>>,
         <<"odd",   "T", <<endbr, call, bad>>>> >>)
    [] m = "snd-hda" -> Assemble(0, << <<"play", "T", <<endbr, call, op, ret>>>> >>)]

McUnder == [m \in McMod |-> IF m = "snd-hda" THEN "snd_hda" ELSE m]

McProfile ==
  [cloud  |-> [funcs |-> {"setup", "probe", "table", "missing"}, rm |-> {"missing"},
               kos |-> {<<"open", "net">>, <<"close", "net">>, <<"gone", "net">>,
                        <<"play", "snd_hda">>, <<"queue", "blk">>}],
   laptop |-> [funcs |-> {"setup", "scan", "odd"}, rm |-> {"snd_hda"},
               kos |-> {<<"init", "net">>, <<"open", "net">>, <<"raise", "blk">>}],
   server |-> [funcs |-> {"panic", "next"}, rm |-> {"blk"},
               kos |-> {<<"short", "net">>, <<"odd", "blk">>}],
   board  |-> [funcs |-> {"next"}, rm |-> {}, kos |-> {<<"odd", "blk">>}]]

Sig(alg, pos, unpacks) == [alg |-> alg, pos |-> pos, unpacks |-> unpacks]

\* The kernel at 20, the code behind it at 64; signatures by chance before and
\* in the kernel.  Inner: from some of them, tried later, something comes out, and
\* one that looks like the code behind it is aligned.  Chance: something comes out
\* of one tried before the kernel's.  LateStub: the code behind it is unknown.
Plain == [sigs |-> {Sig(1, 33, FALSE), Sig(2, 7, FALSE), Sig(2, 20, TRUE), Sig(3, 5, FALSE)},
          piggies |-> {16, 45, 64, 80}, kernel |-> 20, stub |-> 64]
Inner    == [Plain EXCEPT !.piggies = @ \cup {48}, !.sigs = @ \cup {Sig(2, 40, TRUE), Sig(3, 9, TRUE)}]
NoSig    == [Plain EXCEPT !.sigs = {Sig(1, 33, FALSE)}]
NoStub   == [Plain EXCEPT !.piggies = {16, 45}]
Chance   == [Plain EXCEPT !.sigs = @ \cup {Sig(1, 35, TRUE)}]
LateStub == [Plain EXCEPT !.piggies = {16, 45, 80}]

Archive(id, packed, mods) == [id |-> id, packed |-> packed, mods |-> mods]
Initrd(arch) == [state |-> "whole", arch |-> arch, left |-> Len(arch)]
NoInitrd == [state |-> "none", arch |-> <<>>, left |-> 0]
Ucode    == Archive("ucode", FALSE, {})
Early    == Archive("early", FALSE, {"blk"})
Main     == Archive("main", TRUE, {"net", "snd-hda", "blk"})
Extra    == Archive("extra", TRUE, {"net"})

Image(linked, layout, initrd_) ==
  [kernel |-> McKernel, module |-> McModule,
   linked |-> linked, layout |-> layout, initrd |-> initrd_]

McImages == {
  Image(TRUE,  Plain,    Initrd(<<Ucode, Early, Main>>)),
  Image(FALSE, Plain,    Initrd(<<Ucode, Main>>)),
  Image(TRUE,  Inner,    NoInitrd),
  Image(TRUE,  NoSig,    Initrd(<<Early>>)),
  Image(FALSE, NoStub,   Initrd(<<Main, Extra>>)),
  Image(TRUE,  Chance,   NoInitrd),
  Image(TRUE,  LateStub, NoInitrd)}

=============================================================================
