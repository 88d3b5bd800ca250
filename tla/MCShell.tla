------------------------------ MODULE MCShell ------------------------------
(***************************************************************************)
(* Instances of Shell for TLC: sessions of up to three commands on two     *)
(* disks, one of which has no boot sector, and lines that are hard to cut. *)
(***************************************************************************)
EXTENDS Shell, MCDisks

Words1(a) == <<a>>
Words2(a, b) == <<a, SP, b>>
Words4(a, b, c, d) == <<a, SP, b, SP, c, SP, d>>

\* On the disk d.img 4 inodes and a file; bad.img is no disk; 65545 is 9 in 16 bits.
MCDisk == DiskOf(<<FreeInode, DirInode(4, 4, 0), FileInode(16, 5, 0), FreeInode>>, <<<<2, 97>>, Text(1)>>)
MCBad  == [n \in 0 .. 1 |-> SectorOf(Text(2))]
MCInitDisks == (<<"d.img">> :> MCDisk) @@ (<<"bad.img">> :> MCBad)
MCValues == ("-1" :> -1) @@ ("1" :> 1) @@ ("2" :> 2) @@ ("4" :> 4) @@ ("9" :> 9)
            @@ ("40000" :> 40000) @@ ("65545" :> 65545) @@ ("000002" :> 2)
MCLongWords == {"000002"}

Commands ==
    {Words2("mount", "d.img"), Words2("mount", "bad.img"), Words2("mount", "no.img"),
     Words4("mkfs", "d.img", "4", "9"), Words4("mkfs", "d.img", "2", "4"),
     Words4("mkfs", "no.img", "4", "65545"), Words1("psb"), Words1("lsall"), Words2("istat", "1"),
     Words2("istat", "9"), Words2("cat", "f"), Words1("exit")}

Line1(line) == line \o <<NL>>
Sessions == {Line1(a) \o Line1(b) \o Line1(c) : a, b, c \in Commands}

\* Numbers that mkfs and istat refuse, and stubs.
Numbers == {Line1(a) \o <<"quit">> : a \in
    {Words4("mkfs", "d.img", "4", "-1"), Words4("mkfs", "d.img", "40000", "9"),
     Words4("mkfs", "d.img", "9", "4"), Words2("istat", "000002"), Words2("istat", "f"),
     Words2("mkdir", "f"), <<"add", SP, "f", SP, "f">>, <<"help">>, Words2("inode", "/"),
     Words2("inode", "f"), Words2("sha", "f"), <<"inode", SP, "/", "f">>}}

\* Empty lines, blanks at either end, tabs, an unknown command, a wrong number of arguments,
\* a line that fgets cuts in two, one that fills the buffer at the end of the input.
Edges == {<<>>, <<NL, NL>>, <<SP, "psb", SP, SP, NL, "exit", SP, NL, "psb">>,
          <<TAB, "mount", TAB, "d.img", NL, "mount", SP, "d.img", TAB, NL>>,
          <<"quit", SP, "f", NL, "f", NL, "exit", "f", NL, "exit">>,
          <<"mkfs", SP, "d.img", SP, "4", SP, "9", SP, SP, SP, "psb", NL, "exit", NL>>,
          <<SP, SP, SP, SP, SP, SP, SP, SP, SP, "exit", NL>>,
          <<SP, SP, SP, SP, SP, SP, SP, SP, SP, "psb">>, <<"psb", SP, "f">>}

MCScripts == Sessions \cup Numbers \cup Edges
=============================================================================
