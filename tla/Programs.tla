------------------------------- MODULE Programs --------------------------------
(*****************************************************************************)
(* The programs that use the simulated disk, run one after the other in any  *)
(* order on the same two files, each killed anywhere or left to end:         *)
(* create_fs_1.c (create_fs.c is the same), create_fs_2.c and create_fs_3.c  *)
(* format the disk and make a fixed tree; load_fs.c loads and looks;         *)
(* del_fs.c loads, tries a fixed list of deletions and saves what is left.   *)
(* What the calls do is MasterFileTable's; here is the text of the programs. *)
(*                                                                           *)
(* Simplifications: file sizes are divided by Scale, to have fewer blocks;   *)
(* memory does not run out, and I/O fails only because a file is missing or  *)
(* empty (the rest is in Inode, MasterFileTable and Allocation); what is     *)
(* printed is left out, except that debug_disk does not survive a table it   *)
(* cannot read; malloc returns the lowest address not in use, so that one    *)
(* that was released is soon in use again.                                   *)
(*****************************************************************************)
EXTENDS MasterFileTable

CONSTANTS
    Scale,
    Leftover    \* names the memory may hold that LoadEmpty takes one from

ASSUME ScaleAssumption == Scale \in Nat \ {0} /\ Leftover \subseteq Names

VARIABLES
    prog,    \* the program that runs, "none" between programs
    at,      \* the place in its text
    local,   \* its pointers, a function on the names of its variables
    made,    \* history: the paths on the disk when the program that created it
             \* had ended by itself; {} before that, and if a save was killed
    ended    \* history: the last program, or "killed"

progVars == <<prog, at, local, made, ended>>
programVars == <<allVars, progVars>>

-------------------------------------------------------------------------------
(* The text of the programs *)

Dir(in, name, var) == [op |-> "create_dir", in |-> in, name |-> name, var |-> var]
File(in, name, size) ==
    [op |-> "create_file", in |-> in, name |-> name, size |-> size \div Scale]
\* var = find_inode_by_name( in, name ), and go on at absent if it is NULL.
Find(in, name, var, absent) ==
    [op |-> "find", in |-> in, name |-> name, var |-> var, absent |-> absent]
TryFile(in, var) == [op |-> "delete_file", in |-> in, var |-> var]
TryDir(in, var) == [op |-> "delete_dir", in |-> in, var |-> var]
Save == [op |-> "save"]

CreateFs1 == <<
    Dir("NULL", "/", "root"), File("root", "kernel", 20000),
    Dir("root", "etc", "etc"), File("etc", "hosts", 200),
    Dir("root", "usr", "usr"), Dir("usr", "bin", "bin"),
    Dir("usr", "local", "local"), Dir("local", "bin", "lbin"),
    File("bin", "ls", 14322), File("bin", "ps", 13800),
    File("lbin", "nvcc", 28000), File("lbin", "gcc", 12623), Save >>

CreateFs2 == <<
    Dir("NULL", "/", "root"), Dir("root", "etc", "etc"), Dir("root", "share", "share"),
    Dir("share", "man", "man"), Dir("root", "var", "var"), Dir("var", "log", "log"),
    File("root", "kernel", 20000), File("log", "message", 50000),
    File("log", "warn", 50000), File("log", "fail", 50000),
    File("etc", "hosts", 200), File("man", "read.2", 300),
    File("man", "write.2", 400), Save >>

CreateFs3 == <<
    Dir("NULL", "/", "root"), Dir("root", "root", "rootdir"), Dir("root", "home", "home"),
    Dir("home", "guest", "guest"), Dir("home", "user", "user"),
    Dir("user", "Download", "down"), Dir("home", "print", "print"),
    File("rootdir", "bashrc", 100), File("rootdir", "profile", 100),
    File("guest", "bashrc", 100), File("guest", "profile", 100),
    File("user", "bashrc", 100), File("user", "profile", 100),
    File("down", "oblig2", 163033), Save >>

LoadFs == <<
    Find("root", "kernel", "dir", 2),
    Find("root", "var", "dir", 5), Find("dir", "log", "dir", 5), Find("dir", "message", "dir", 5),
    Find("root", "share", "dir", 8), Find("dir", "man", "dir", 8), Find("dir", "read.2", "dir", 8),
    Find("root", "etc", "dir", 10), Find("dir", "hosts", "dir", 10),
    Find("root", "etc", "dir", 12), Find("dir", "host.conf", "dir", 12),
    Find("root", "etc", "dir", 15), Find("dir", "httpd", "dir", 15), Find("dir", "conf", "dir", 15),
    Find("root", "home", "dir", 19), Find("dir", "user", "dir", 19),
    Find("dir", "Download", "dir", 19), Find("dir", "oblig2", "dir", 19),
    Find("root", "home", "dir", 22), Find("dir", "guest", "dir", 22), Find("dir", "bashrc", "dir", 22),
    Find("root", "root", "dir", 24), Find("dir", "bashrc", "dir", 24) >>

\* del_fs without the second attempt at the directory: /var/log stays, empty.
MutantDelFs == <<
    Find("root", "kernel", "node", 3), TryFile("root", "node"),
    Find("root", "var", "var", 12), Find("var", "log", "log", 12), TryDir("var", "log"),
    Find("log", "message", "node", 8), TryFile("log", "node"),
    Find("log", "warn", "node", 10), TryFile("log", "node"),
    Find("log", "fail", "node", 12), TryFile("log", "node"),
    Save >>

\* The disk is saved before the deletions.
MutantDelFsSavesFirst == << Save,
    Find("root", "kernel", "node", 4), TryFile("root", "node") >>

DelFs == <<
    Find("root", "kernel", "node", 3), TryFile("root", "node"),
    Find("root", "var", "var", 13), Find("var", "log", "log", 13), TryDir("var", "log"),
    Find("log", "message", "node", 8), TryFile("log", "node"),
    Find("log", "warn", "node", 10), TryFile("log", "node"),
    Find("log", "fail", "node", 12), TryFile("log", "node"),
    TryDir("var", "log"),
    Find("root", "share", "dir", 17), Find("dir", "man", "dir", 17),
    Find("dir", "read.2", "node", 17), TryFile("dir", "node"),
    Find("root", "etc", "dir", 20), Find("dir", "hosts", "node", 20), TryFile("dir", "node"),
    Find("root", "etc", "dir", 23), Find("dir", "host.conf", "node", 23), TryFile("dir", "node"),
    Find("root", "etc", "dir", 30), Find("dir", "httpd", "http", 30), TryDir("dir", "http"),
    Find("dir", "httpd", "http", 30), Find("http", "conf", "node", 30),
    TryFile("http", "node"), TryDir("dir", "http"),
    Find("root", "home", "dir", 41), Find("dir", "user", "udir", 41), TryDir("dir", "udir"),
    Find("dir", "user", "udir", 34), Find("udir", "Download", "dl", 41), TryDir("udir", "dl"),
    Find("udir", "Download", "dl", 41), Find("dl", "oblig2", "node", 41),
    TryFile("dl", "node"), TryDir("udir", "dl"), TryDir("dir", "udir"),
    Save >>

Creators == {"create_fs_1", "create_fs_2", "create_fs_3"}
Loaders == {"load_fs", "del_fs"}

Text(p) ==
    CASE p = "create_fs_1" -> CreateFs1
      [] p = "create_fs_2" -> CreateFs2
      [] p = "create_fs_3" -> CreateFs3
      [] p = "load_fs"     -> LoadFs
      [] p = "del_fs"      -> DelFs

\* The texts have names and sizes there are, their calls are those of callers
\* that find what they delete, with memory enough and a format_disk that works,
\* and the disk has room for kernel and message, the first two files of
\* create_fs_2.
ASSUME ProgramsAssumption ==
    /\ CallersFind /\ ~ReallocFaults /\ ~FormatFaults
    /\ RootName = "/"
    /\ \A p \in Creators : \A k \in DOMAIN Text(p) :
          /\ Text(p)[k].op \in {"create_dir", "create_file"} => Text(p)[k].name \in Names
          /\ Text(p)[k].op = "create_file" => Text(p)[k].size \in Sizes
    /\ BlocksNeeded(20000 \div Scale) + BlocksNeeded(50000 \div Scale) <= NUM_BLOCKS

-------------------------------------------------------------------------------
\* The paths from p to all that is below it.
PathsFrom(heap, p) ==
    LET paths[q \in DOMAIN heap] ==
            {<<>>} \cup UNION {{<<heap[r].name>> \o path : path \in paths[r]} :
                                  r \in {heap[q].children[i] : i \in DOMAIN heap[q].children}}
    IN paths[p]

SavedPaths == PathsFrom(saved.inode, saved.root)

NoLocals == [v \in {"NULL"} |-> NULL]

Set(var, p) == [v \in DOMAIN local \cup {var} |-> IF v = var THEN p ELSE local[v]]

\* The addresses that are new are the lowest.
LowestAddress ==
    \A p \in DOMAIN inode' \ DOMAIN inode, q \in Ptr \ DOMAIN inode : p <= q

ProgramsInit ==
    /\ DiskInit
    /\ prog = "none" /\ at = 1 /\ local = NoLocals
    /\ made = {} /\ ended = "none"

Start(p) ==
    /\ \/ p \in Creators /\ StartCreate /\ UNCHANGED local
       \/ p \in Loaders /\ LoadOpen /\ UNCHANGED local
       \/ /\ p \in Loaders /\ LoadEmpty
          /\ root' # NULL => LowestAddress /\ inode'[root'].name \in Leftover
          /\ local' = Set("root", root')
    /\ prog' = p
    /\ made' = IF p \in Creators THEN {} ELSE made
    /\ UNCHANGED <<at, ended>>

FormatDisk == Format /\ UNCHANGED progVars

\* load_inodes: the root is what the program has afterwards.
Load ==
    \/ /\ LoadInode /\ LowestAddress
       /\ UNCHANGED progVars
    \/ /\ LoadClose
       /\ local' = Set("root", root)
       /\ UNCHANGED <<prog, at, made, ended>>

\* Between two calls, with op the next thing to do.
Instr == Text(prog)[at]

Before(op) ==
    /\ phase = "running" /\ pc = "idle" /\ bat # EmptyFile
    /\ at <= Len(Text(prog)) /\ Instr.op = op

Advance == at' = at + 1 /\ UNCHANGED <<prog, made, ended>>

CreateDirCall ==
    /\ Before("create_dir")
    /\ Perform(\/ local[Instr.in] = NULL /\ CreateRoot
               \/ local[Instr.in] # NULL /\ CreateDir(local[Instr.in], Instr.name))
    /\ LowestAddress
    /\ \E new \in DOMAIN inode' \ DOMAIN inode : local' = Set(Instr.var, new)
    /\ Advance

CreateFileCall ==
    /\ Before("create_file")
    /\ Perform(CreateFile(local[Instr.in], Instr.name, Instr.size))
    /\ LowestAddress
    /\ Advance /\ UNCHANGED local

\* find_inode_by_name returns NULL for a parent that is NULL.
FindCall ==
    /\ Before("find")
    /\ \E found \in DOMAIN inode \cup {NULL} :
          /\ IF local[Instr.in] = NULL THEN found = NULL
             ELSE FindInodeByName(local[Instr.in], Instr.name, found)
          /\ local' = Set(Instr.var, found)
          /\ at' = IF found = NULL THEN Instr.absent ELSE at + 1
    /\ UNCHANGED <<allVars, prog, made, ended>>

\* delete_file or delete_dir returns -1.
Refused(p, n) ==
    \/ inode[n].children # <<>>
    \/ inode[n].is_directory # (Instr.op = "delete_dir")
    \/ \A q \in ChildrenOf(p) : inode[q].name # inode[n].name

DeleteCall ==
    /\ Before("delete_file") \/ Before("delete_dir")
    /\ LET p == local[Instr.in]  n == local[Instr.var] IN
       \/ Before("delete_file") /\ Perform(DeleteFile(p, n))
       \/ Before("delete_dir") /\ Perform(DeleteDir(p, n))
       \/ Refused(p, n) /\ UNCHANGED allVars
    /\ Advance /\ UNCHANGED local

InCall == Perform(Internal) /\ UNCHANGED progVars

\* save_inodes returns at once if there is no tree.
SaveCall ==
    \/ Before("save") /\ SaveOpen /\ Advance /\ UNCHANGED local
    \/ Before("save") /\ root = NULL /\ UNCHANGED <<allVars, local>> /\ Advance
    \/ (SaveInode \/ SaveClose) /\ UNCHANGED progVars

Gone == prog' = "none" /\ at' = 1 /\ local' = NoLocals

End ==
    /\ prog # "none" /\ at > Len(Text(prog))
    /\ Quit
    /\ Gone
    /\ made' = IF prog \in Creators THEN SavedPaths ELSE made
    /\ ended' = prog

Killed ==
    /\ Kill \/ KillInWrite
    /\ Gone
    /\ made' = IF phase = "saving" THEN {} ELSE made
    /\ ended' = "killed"

\* Each program prints the table before it makes a call of the list above.
\* debug_disk does not look whether there is one: a file that cannot be read
\* gives it the address 0, and the process dies.
DebugDisk ==
    /\ phase = "running" /\ bat = EmptyFile
    /\ Killed

Program ==
    \/ FormatDisk \/ Load \/ DebugDisk \/ CreateDirCall \/ CreateFileCall \/ FindCall \/ DeleteCall
    \/ InCall \/ SaveCall \/ End

ProgramsNext == Program \/ Killed \/ \E p \in Creators \cup Loaders : Start(p)

\* A program that has been started goes on unless it is killed.
ProgramsSpec == ProgramsInit /\ [][ProgramsNext]_programVars /\ WF_programVars(Program)

-------------------------------------------------------------------------------
(* Properties *)

\* del_fs.c:92 and 99 use log_dir after an attempt to delete it, and so does
\* the rest of main with its pointers.  On no disk that the programs leave
\* behind, whatever was killed before, is a pointer used after its inode has
\* been released.
NoUseAfterFree ==
    Before(Instr.op) =>
        /\ Instr.op # "save" => local[Instr.in] \in DOMAIN inode \cup {NULL}
        /\ Instr.op \in {"delete_file", "delete_dir"} => local[Instr.var] \in DOMAIN inode

\* What a killed del_fs has freed too much for the table of inodes on disk is
\* repaired by the next one that ends: the two files agree again after a
\* del_fs, however many were killed before it, if the disk was made by a
\* program that ended and none was killed while it saved.  One that is killed
\* inside write_table leaves no table, which nothing repairs: but then debug_disk
\* is the end of every del_fs before it has touched the disk.
RerunRepairs ==
    made # {} /\ ended = "del_fs" /\ prog = "none" =>
        \A b \in Blocks : AgreesOn(b)

\* The files and the directories del_fs tries to delete.
ListedFiles ==
    {<<"kernel">>, <<"var", "log", "message">>, <<"var", "log", "warn">>,
     <<"var", "log", "fail">>, <<"share", "man", "read.2">>, <<"etc", "hosts">>,
     <<"etc", "host.conf">>, <<"etc", "httpd", "conf">>,
     <<"home", "user", "Download", "oblig2">>}

ListedDirs ==
    {<<"var", "log">>, <<"etc", "httpd">>, <<"home", "user">>,
     <<"home", "user", "Download">>}

Below(d, path) == Len(path) > Len(d) /\ SubSeq(path, 1, Len(d)) = d

\* What is left of a tree: a listed directory goes if all that is in it goes.
Left(paths) ==
    LET rest == paths \ ListedFiles IN
    rest \ {d \in ListedDirs : \A path \in rest : Below(d, path) => path \in ListedDirs}

\* del_fs.c:44-47: "it goes through a list of directories and files and
\* attempts to delete them", which fails for a directory that is not empty.
\* Whatever was killed before it, but for a save, a del_fs that ends has removed
\* from the master file table exactly what is on its list, and nothing with a like name.
DeletesExactly ==
    made # {} /\ ended = "del_fs" /\ prog = "none" => SavedPaths = Left(made)

\* There is no tree on disk, nor one about to be saved.
Lost ==
    IF mft = <<>> THEN phase = "down" \/ root = NULL \/ ~inode[root].is_directory
    ELSE ~mft[1].is_directory

\* inode.c:323: a save that is killed has lost the tree, and the marked blocks
\* with it.  Until a disk is made anew, the other programs run on what they
\* load then and change neither: no block is freed, nor given to anybody, and
\* the inode that may come of an uninitialised length is never a tree.
LostStaysLost ==
    [][prog \notin Creators /\ prog' \notin Creators /\ Lost => bat' = bat /\ Lost']_programVars

\* A program that is started ends.
ProgramEnds == prog # "none" ~> prog = "none"

===============================================================================
