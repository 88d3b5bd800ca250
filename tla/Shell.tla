------------------------------- MODULE Shell -------------------------------
(***************************************************************************)
(* shell.c: the loop that reads lines, the tokenizer, the table of the     *)
(* commands and what they do to the mounted disk.  The shell never writes  *)
(* through the stream of the mounted disk; it reads through its buffer,    *)
(* while mkfs writes the file of a disk, mounted or not, through another   *)
(* stream.                                                                 *)
(*   The input is a sequence of items: the separators, and pieces of words *)
(* (a command name, a file name, a number or a '/' is one piece).  What    *)
(* lsall, cat, sha and inode do behind their guards is in DirWalks and     *)
(* FileOps: here they answer anything and read any sectors.                *)
(***************************************************************************)
EXTENDS MountV6, SortedSets, Sequences, SequencesExt

CONSTANTS Scripts,         \* what stdin may hold, as sequences of items
          Values,          \* the items that are numbers, with their values
          LongWords,       \* the items of more than 5 characters
          InitDisks,       \* the image files at the start: images by name
          SHELL_CMD_SIZE,  \* 255 in the code
          BUF_SECTORS      \* sectors in the buffer of a stream: 8 of 512 bytes

ASSUME ShellAssumption ==
    /\ \A script \in Scripts : script \in Seq(STRING)
    /\ \A name \in DOMAIN Values : name \in STRING /\ Values[name] \in Int
    /\ \A name \in DOMAIN InitDisks : name \in Seq(STRING) /\ IsImage(InitDisks[name])
    /\ SHELL_CMD_SIZE \in Nat /\ SHELL_CMD_SIZE > 1
    /\ BUF_SECTORS \in Nat \ {0}

ERR_INVALID_CMD      == 2
ERR_WRONG_NMB_ARG    == 3
ERR_DISK_NOT_MOUNT   == 4
ERR_CAT_ON_DIRECTORY == 5
EXIT_SHELL           == 8
INT16_MAX            == 32767

\* The argc of shell_cmds.
Argc == [help |-> 0, exit |-> 0, quit |-> 0, mkfs |-> 3, mount |-> 1, mkdir |-> 1, lsall |-> 0,
         add |-> 2, cat |-> 1, istat |-> 1, inode |-> 1, sha |-> 1, psb |-> 0]

VARIABLES
    script,       \* history: the whole input
    rest,         \* the input that is not read yet
    eof,          \* feof(stdin)
    pc,           \* "read", "execute", "clean", "ended" or "crashed"
    args,         \* the tokens of the line
    error,        \* what the command returned
    lines,        \* history: how many lines were read
    disks,        \* the image files, by name
    u,            \* the global u, as mountv6 leaves it
    name,         \* history: the file that u->f is open on
    buf,          \* the sectors in the buffer of u->f
    reformatted   \* history: mkfs has written that file since the mount

input == <<script, rest, eof, lines>>
disk  == <<disks, u, name, buf, reformatted>>
vars  == <<script, rest, eof, pc, args, error, lines, disks, u, name, buf, reformatted>>

Nothing == [n \in {} |-> ZeroSector]

Init == /\ script \in Scripts
        /\ rest = script
        /\ eof = FALSE
        /\ pc = "read"
        /\ args = <<>>
        /\ error = 0
        /\ lines = 0
        /\ disks = InitDisks
        /\ u = Closed
        /\ name = <<>>
        /\ buf = Nothing
        /\ reformatted = FALSE

-----------------------------------------------------------------------------
(* Lines and tokens.                                                       *)

SP  == " "
TAB == "tab"     \* \t, \r or \a
NL  == "newline"

\* The maximal pieces of a sequence without separators, in order.
Pieces(seq, separators) ==
    LET starts == {p \in DOMAIN seq : /\ seq[p] \notin separators
                                      /\ p = 1 \/ seq[p - 1] \in separators}
        end(p) == Min({e \in p .. Len(seq) + 1 : e = Len(seq) + 1 \/ seq[e] \in separators})
        sorted == Ascending(starts)
    IN  [k \in DOMAIN sorted |-> SubSeq(seq, sorted[k], end(sorted[k]) - 1)]

\* What fgets reads: up to a newline or SHELL_CMD_SIZE - 1 items.
LineLength ==
    Min({SHELL_CMD_SIZE - 1, Len(rest)} \cup {p \in DOMAIN rest : rest[p] = NL})

\* A slip: the newline is not cut off.
TokenizeWithNewline(line) ==
    LET first == Pieces(line, {SP, TAB, NL})
        begin == Min({p \in DOMAIN line : line[p] \notin {SP, TAB, NL}})
    IN  IF first = <<>> THEN <<>>
        ELSE <<first[1]>> \o Pieces(SubSeq(line, begin + Len(first[1]) + 1, Len(line)), {SP})

\* input[strcspn(input, "\n")] = '\0'
BeforeNewline(line) ==
    SubSeq(line, 1, Min({p \in 0 .. Len(line) : p = Len(line) \/ line[p + 1] = NL}))

\* The first strtok takes any separator for the end of a word, the others only a space.
tokenize_input(line) ==
    LET text  == BeforeNewline(line)
        first == Pieces(text, {SP, TAB})
        begin == Min({p \in DOMAIN text : text[p] \notin {SP, TAB}})
    IN  IF first = <<>> THEN <<>>
        ELSE <<first[1]>> \o Pieces(SubSeq(text, begin + Len(first[1]) + 1, Len(text)), {SP})

\* fgets tells the end of the input only when it has tried to read behind it.
ReadLine ==
    /\ pc = "read" /\ rest # <<>>
    /\ args' = tokenize_input(SubSeq(rest, 1, LineLength))
    /\ rest' = SubSeq(rest, LineLength + 1, Len(rest))
    /\ eof' = (LineLength = Len(rest) /\ Last(rest) # NL /\ LineLength < SHELL_CMD_SIZE - 1)
    /\ lines' = lines + 1
    /\ pc' = "execute"
    /\ error' = 0
    /\ UNCHANGED <<script, disk>>

\* fgets returns NULL: the loop prints an error and then reads args, which is NULL, or in
\* the first turn not initialized, so that it may as well hold an end of the arguments.
ReadNothing ==
    /\ pc = "read" /\ rest = <<>>
    /\ eof' = TRUE
    /\ error' = ERR_INVALID_CMD
    /\ pc' \in IF lines = 0 THEN {"crashed", "ended"} ELSE {"crashed"}
    /\ UNCHANGED <<script, rest, lines, args, disk>>

\* A slip: the loop ends with the first command that fails.
StopsAtError(code) == code # 0

Stops(code) == code = EXIT_SHELL

\* Messages are printed and the line is freed.
EndTurn ==
    /\ pc = "clean"
    /\ args' = <<>>
    /\ pc' = IF eof \/ Stops(error) THEN "ended" ELSE "read"
    /\ UNCHANGED <<input, error, disk>>

-----------------------------------------------------------------------------
(* The commands.                                                           *)

Answer(code) == pc' = "clean" /\ error' = code /\ UNCHANGED <<input, args>>

\* shell_execute has found the command and the number of its arguments is right.
Runs(command) == /\ pc = "execute" /\ args # <<>>
                 /\ args[1] = <<command>> /\ Len(args) - 1 = Argc[command]

Refused ==
    LET known == args # <<>> /\ \E command \in DOMAIN Argc : args[1] = <<command>>
    IN  /\ pc = "execute"
        /\ ~ \E command \in DOMAIN Argc : Runs(command)
        /\ Answer(IF known THEN ERR_WRONG_NMB_ARG ELSE ERR_INVALID_CMD)
        /\ UNCHANGED disk

\* do_help prints; do_mkdir and do_add do nothing.
DoNothing == /\ Runs("help") \/ Runs("mkdir") \/ Runs("add")
             /\ Answer(0)
             /\ UNCHANGED disk

\* Nobody looks at u after the umountv6 of do_exit.
DoExit == /\ Runs("exit") \/ Runs("quit")
          /\ Answer(EXIT_SHELL)
          /\ u' = Closed /\ buf' = Nothing
          /\ UNCHANGED <<disks, name, reformatted>>

atoi(word) == IF word[1] \in DOMAIN Values THEN Values[word[1]] ELSE 0
Uint16(n)  == n % (UINT16_MAX + 1)

\* A slip: the arguments are passed on in the order in which they are declared in shell.c.
MkfsNumbersSwapped(word2, word3) == [num_blocks |-> atoi(word2), num_inodes |-> atoi(word3)]

\* shell.c calls the number of inodes num_blocks, and the other way round, and passes them
\* to mountv6_mkfs in the wrong order as well.
MkfsNumbers(word2, word3) == [num_blocks |-> atoi(word3), num_inodes |-> atoi(word2)]

DoMkfs ==
    /\ Runs("mkfs")
    /\ LET n   == MkfsNumbers(args[3], args[4])
           bad == \/ n.num_blocks < 0 \/ Uint16(n.num_blocks) > INT16_MAX
                  \/ n.num_inodes < 0 \/ Uint16(n.num_inodes) > INT16_MAX
           s   == MkfsSuperblock(Uint16(n.num_blocks), Uint16(n.num_inodes))
           few == s.s_fsize < s.s_isize + Uint16(n.num_inodes)
       IN  \/ bad /\ Answer(ERR_BAD_PARAMETER) /\ UNCHANGED disk
           \/ ~bad /\ few /\ Answer(ERR_NOT_ENOUGH_BLOCS) /\ UNCHANGED disk
           \/ ~bad /\ ~few /\ Answer(ERR_IO) /\ UNCHANGED disk     \* fopen fails
           \/ /\ ~bad /\ ~few
              /\ disks' = [d \in DOMAIN disks \cup {args[2]} |->
                              IF d = args[2] THEN MkfsImage(s) ELSE disks[d]]
              /\ reformatted' = (reformatted \/ (u.open /\ name = args[2]))
              /\ Answer(0)
              /\ UNCHANGED <<u, name, buf>>

\* What a stream has in its buffer after a read of sector n of an image.
Window(img, n) == [m \in {k \in DOMAIN img : k \div BUF_SECTORS = n \div BUF_SECTORS} |-> img[m]]
Windows(img)   == {Window(img, n) : n \in DOMAIN img} \cup {Nothing}

\* A slip: the structure keeps the superblock that it had before.
MountedOver(img) == [mount_result(img) EXCEPT !.s = IF mount_error(img) = 0 THEN @ ELSE u.s]

Mounted(img) == mount_result(img)

\* A slip: mountv6 clears the structure only when fopen has succeeded.
NotOpenedKeeps == u

NotOpened == Closed

\* umountv6, whose answer is ignored, and mountv6, which clears the structure.
DoMount ==
    /\ Runs("mount")
    /\ reformatted' = FALSE
    /\ name' = args[2]
    /\ \/ /\ args[2] \in DOMAIN disks
          /\ u' = Mounted(disks[args[2]])
          /\ buf' \in Windows(disks[args[2]])
          /\ Answer(mount_error(disks[args[2]]))
       \/ /\ u' = NotOpened                                \* fopen fails
          /\ buf' = Nothing
          /\ Answer(ERR_IO)
    /\ UNCHANGED disks

\* The commands that follow a path or the tree.  A path of '/' alone is the root, and only
\* inode does not ask whether a disk is mounted.
DoPath ==
    LET root == Runs("inode") /\ \A p \in DOMAIN args[2] : args[2][p] = "/"
    IN  /\ Runs("lsall") \/ Runs("cat") \/ Runs("sha") \/ Runs("inode")
        /\ \/ root /\ Answer(0) /\ UNCHANGED buf
           \/ ~u.open /\ ~root /\ ~Runs("inode") /\ Answer(ERR_DISK_NOT_MOUNT) /\ UNCHANGED buf
           \/ ~u.open /\ ~root /\ Runs("inode") /\ Answer(ERR_BAD_PARAMETER) /\ UNCHANGED buf
           \/ /\ u.open /\ ~root
              /\ \/ Answer(0) \/ Answer(ERR_IO)
                 \/ Runs("cat") /\ Answer(ERR_CAT_ON_DIRECTORY)
              /\ buf' \in Windows(disks[name]) \cup {buf}
        /\ UNCHANGED <<disks, u, name, reformatted>>

\* do_istat answers 0 also when inode_read fails.  That reads one sector, unless the
\* buffer has it already.
DoIstat ==
    LET inr   == atoi(args[2])
        n     == InodeSector(u.s, inr)
        right == inr > 0 /\ inr <= UINT16_MAX /\ args[2][1] \notin LongWords
    IN  /\ Runs("istat")
        /\ \/ ~right /\ Answer(ERR_INVALID_CMD) /\ UNCHANGED buf
           \/ right /\ ~u.open /\ Answer(ERR_DISK_NOT_MOUNT) /\ UNCHANGED buf
           \/ /\ right /\ u.open
              /\ Answer(0)
              /\ buf' = IF OutOfInodes(u.s, inr) \/ n \in DOMAIN buf THEN buf
                        ELSE Window(disks[name], n)
        /\ UNCHANGED <<disks, u, name, reformatted>>

DoPsb == /\ Runs("psb")
         /\ Answer(IF u.open THEN 0 ELSE ERR_DISK_NOT_MOUNT)
         /\ UNCHANGED disk

Next == \/ ReadLine \/ ReadNothing \/ EndTurn
        \/ Refused \/ DoNothing \/ DoExit \/ DoMkfs \/ DoMount \/ DoPath \/ DoIstat \/ DoPsb

Spec == Init /\ [][Next]_vars

-----------------------------------------------------------------------------
TypeOK ==
    /\ pc \in {"read", "execute", "clean", "ended", "crashed"}
    /\ \E k \in 0 .. Len(script) : rest = SubSeq(script, k + 1, Len(script))
    /\ \A k \in DOMAIN args : args[k] # <<>>
    /\ \A d \in DOMAIN disks : IsImage(disks[d])
    /\ u.open => name \in DOMAIN disks
    /\ u.mounted => u.open
    /\ error \in Int

\* shell.c:180-181 and 173: whatever was mounted, formatted or failed to mount before, the
\* structure and the buffer hold nothing but what is on the disk that the last mount named,
\* until mkfs writes that disk; and the next mount of it makes both current again.
StateIsOfTheDisk ==
    u.open /\ ~reformatted => /\ u = mount_result(disks[name])
                              /\ DOMAIN buf \subseteq DOMAIN disks[name]
                              /\ \A n \in DOMAIN buf : buf[n] = disks[name][n]

\* The k-th line of the input.
Line(k) ==
    LET ends  == Ascending({p \in DOMAIN script : script[p] = NL} \cup {Len(script) + 1})
    IN  SubSeq(script, IF k = 1 THEN 1 ELSE ends[k - 1] + 1, ends[k] - 1)

\* shell.c:299, `tokenize an input into a table of pointer to char': the command that runs
\* is the words of the line that is due, as long as no line is as long as the buffer of
\* fgets (the rest of such a line runs as a command of its own) and has tabs in it (they
\* separate only the first word).
CommandIsLine ==
    pc = "execute" /\ (\A k \in 1 .. lines : Len(Line(k)) < SHELL_CMD_SIZE - 1)
        => TAB \in ToSet(Line(lines)) \/ args = Pieces(Line(lines), {SP})

\* The shell reads on until exit or quit or the end of its input: no line is left unread
\* because an earlier one failed.
EndsAtExitOrEnd ==
    [][pc' \in {"ended", "crashed"}
        => rest = <<>> \/ args \in {<<(<<"exit">>)>>, <<(<<"quit">>)>>}]_vars

\* The help of mkfs, `<diskname> <#inodes> <#blocks>' (shell.c:66): the disk that is named
\* becomes one of that many inodes and blocks, and no other disk changes; for numbers that
\* have 16 bits (others are cut to 16 bits before they are tested, shell.c:168).
MkfsMakesWhatIsTyped ==
    [][disks' # disks =>
        LET s == SuperblockAt(disks'[args[2]][SUPERBLOCK_SECTOR])
        IN  /\ \A d \in DOMAIN disks : d = args[2] \/ disks'[d] = disks[d]
            /\ atoi(args[3]) <= UINT16_MAX => s.s_isize = atoi(args[3]) \div INODES_PER_SECTOR
            /\ atoi(args[4]) <= UINT16_MAX => s.s_fsize = atoi(args[4])]_vars
=============================================================================
