---------------------------- MODULE Programs_proofs ----------------------------
(*****************************************************************************)
(* Proofs about the programs that use the simulated disk, in any order and   *)
(* killed anywhere, for files, disks and memories of any size.               *)
(*                                                                           *)
(* The invariant is DiskInv of MasterFileTable_proofs and ProgInv, which     *)
(* says where each program is and what its pointers point to there:          *)
(*  - a program that creates has a directory in each variable it has set     *)
(*    (PlacesMade), and create_fs_2, the only one with a directory "log",    *)
(*    has put a file into it before the disk can be full (LogMade);          *)
(*  - so no directory "log" on disk is empty (SavedOK), and none is while    *)
(*    load_fs or del_fs runs, but for the one that del_fs is clearing        *)
(*    (LogsKept): its first attempt at /var/log fails, and the pointer it    *)
(*    goes on with is still good;                                            *)
(*  - at each place of its text del_fs knows the names of the inodes it will *)
(*    use again and the directories they are in (DelFacts); a name tells     *)
(*    them from what it deletes in between.                                  *)
(* A root that is a file, which load_inodes may make of an empty table, has  *)
(* no children: then every attempt to delete is refused (LoneFile).          *)
(*                                                                           *)
(* For what a del_fs repairs that another one left when it was killed there  *)
(* is RepairInv besides: del_fs has in its variables what is at the paths of *)
(* its text (Knowing), the files it has tried to delete are gone (Clearing), *)
(* and a block on which the two files may differ is unmarked and only held   *)
(* by files on its list (MadeInv, Rerun).  Where a program was killed in the *)
(* middle of a write of the table there is none, and no program gets as far  *)
(* as a call (TableInv), until a disk is made anew.                          *)
(*                                                                           *)
(* That the texts are what the invariant takes them to be is read off them   *)
(* call by call (WellMade, Looks, Deletes).                                  *)
(*****************************************************************************)
EXTENDS Programs, MasterFileTable_proofs

\* When a program runs, and how far it is: only while it saves is there nothing
\* left to do but to end although something has changed.
Life ==
    /\ prog \in Creators \cup Loaders \cup {"none"}
    /\ prog = "none" <=> phase = "down"
    /\ phase \in {"down", "formatting", "loading"} => at = 1 /\ local = NoLocals
    /\ phase = "formatting" => prog \in Creators
    /\ phase = "loading" => prog \in Loaders
    /\ prog # "none" => at \in 1 .. Len(Text(prog)) + 1
    /\ phase = "saving" => at = Len(Text(prog)) + 1 /\ prog # "load_fs"
    /\ phase = "running" /\ dirty => at <= Len(Text(prog)) /\ prog # "load_fs"
    /\ phase = "running" /\ pc # "idle" => dirty

InMemory == phase \in {"running", "saving"}

\* A root that is a directory has the name "/".
TopNamed(h, r) == r # NULL /\ h[r].is_directory => h[r].name = RootName

\* No directory with the name log is empty.
LogsFull(h) ==
    \A p \in DOMAIN h : h[p].is_directory /\ h[p].name = "log" => h[p].children # <<>>

\* So it is on disk, whichever program has saved.
SavedOK == mft # <<>> => TopNamed(saved.inode, saved.root) /\ LogsFull(saved.inode)

(* Programs that create. *)

\* The blocks in use are the first n.
Taken(n) == \A b \in Blocks : bat[b] = IF b < n THEN 1 ELSE 0

Kernel == 20000 \div Scale
Message == 50000 \div Scale

\* The variables of the directories made so far have directories.
PlacesMade ==
    \A k \in 1 .. at - 1 :
       Text(prog)[k].op = "create_dir" =>
          /\ Text(prog)[k].var \in DOMAIN local
          /\ local[Text(prog)[k].var] \in Directories

\* create_file is filling a file of the size; those before it have the first
\* n blocks.
Filling(size, n) ==
    /\ pc = "allocating" /\ inode[child].filesize = size
    /\ Len(inode[child].blocks) <= BlocksNeeded(size)
    /\ Taken(n + Len(inode[child].blocks))

\* create_fs_2 makes /var/log and, before the disk can be full, a file in it.
LogMade ==
    /\ at <= 7 => pc = "idle" /\ Taken(0)
    /\ at = 8 => \/ pc = "idle" /\ Taken(BlocksNeeded(Kernel))
                 \/ Filling(Kernel, 0)
    /\ at = 9 => \/ pc = "idle"
                 \/ parent = local["log"] /\ Filling(Message, BlocksNeeded(Kernel))
    /\ at > 9 \/ (at = 9 /\ pc = "idle") => inode[local["log"]].children # <<>>

CreatorInv ==
    prog \in Creators =>
       /\ phase \in {"formatting", "running", "saving"} /\ pc # "freeing"
       /\ at = 1 => local = NoLocals /\ pc = "idle" /\ root = NULL
       /\ PlacesMade
       /\ \A p \in Directories :
             inode[p].name = "log" => prog = "create_fs_2" /\ at > 6 /\ p = local["log"]
       /\ prog = "create_fs_2" /\ phase # "formatting" => LogMade

(* Programs that load. *)

\* The variable v has an inode that is there when the call has ended.
Has(v) == v \in DOMAIN local /\ local[v] \in DOMAIN inode \ {child}

\* It has the name, if there is a tree at all and not just a file.
Is(v, name) == Has(v) /\ (inode[root].is_directory => inode[local[v]].name = name)

\* It is in the directory that w has.
In(w, v, name) ==
    /\ Is(v, name) /\ Has(w)
    /\ inode[root].is_directory => local[v] \in ChildrenOf(local[w])

\* What main of del_fs knows of its variables at each place.
DelFacts ==
    /\ at = 2 => In("root", "node", "kernel")
    /\ at \in 4 .. 12 => Is("var", "var")
    /\ at \in 5 .. 12 => In("var", "log", "log")
    /\ at = 7 => In("log", "node", "message")
    /\ at = 9 => In("log", "node", "warn")
    /\ at = 11 => In("log", "node", "fail")
    /\ at = 14 => Is("dir", "share")
    /\ at \in {15, 16} => Is("dir", "man")
    /\ at = 16 => In("dir", "node", "read.2")
    /\ at \in {18, 19, 21, 22} \cup 24 .. 29 => Is("dir", "etc")
    /\ at = 19 => In("dir", "node", "hosts")
    /\ at = 22 => In("dir", "node", "host.conf")
    /\ at \in {25, 27, 28, 29} => In("dir", "http", "httpd")
    /\ at = 28 => In("http", "node", "conf")
    /\ at \in 31 .. 40 => Is("dir", "home")
    /\ at \in {32} \cup 35 .. 40 => In("dir", "udir", "user")
    /\ at = 34 => \/ In("dir", "udir", "user")
                  \/ "udir" \in DOMAIN local /\ local["udir"] = NULL
    /\ at \in {35, 37, 38, 39} => In("udir", "dl", "Download")
    /\ at = 38 => In("dl", "node", "oblig2")

\* While del_fs works on /var/log it may be empty.
LogAtWork(p) == prog = "del_fs" /\ at \in 6 .. 12 /\ p = local["log"]

\* Otherwise no directory with that name is, and no call empties one.
LogsKept ==
    /\ \A p \in Directories \ {child} :
          inode[p].name = "log" => (inode[p].children # <<>> \/ LogAtWork(p))
    /\ pc = "freeing" => (inode[parent].name # "log" \/ LogAtWork(parent))

LoaderInv ==
    prog \in Loaders /\ InMemory =>
       /\ "root" \in DOMAIN local /\ local["root"] = root
       /\ pc \in {"idle", "freeing"} /\ (pc = "freeing" => prog = "del_fs")
       /\ dirty => root # NULL
       /\ root # NULL /\ mft # <<>> => inode[root].is_directory = mft[1].is_directory
       /\ LogsKept
       /\ prog = "del_fs" => DelFacts
       /\ prog = "load_fs" /\ at > 1 =>
             "dir" \in DOMAIN local /\ local["dir"] \in DOMAIN inode \cup {NULL}

\* What holds of the programs, besides DiskInv.
ProgInv ==
    /\ Life /\ SavedOK /\ CreatorInv /\ LoaderInv
    /\ InMemory => TopNamed(inode, root)

-------------------------------------------------------------------------------
(* The texts *)

\* The fields of a call.
LEMMA CallFields ==
    /\ \A in, name, var :
          LET call == Dir(in, name, var) IN
          call.op = "create_dir" /\ call.in = in /\ call.name = name /\ call.var = var
    /\ \A in, name, size :
          LET call == File(in, name, size) IN
          call.op = "create_file" /\ call.in = in /\ call.name = name /\ call.size = size \div Scale
    /\ \A in, name, var, absent :
          LET call == Find(in, name, var, absent) IN
          call.op = "find" /\ call.in = in /\ call.name = name /\ call.var = var
             /\ call.absent = absent
    /\ \A in, var : LET call == TryFile(in, var) IN
                    call.op = "delete_file" /\ call.in = in /\ call.var = var
    /\ \A in, var : LET call == TryDir(in, var) IN
                    call.op = "delete_dir" /\ call.in = in /\ call.var = var
    /\ Save.op = "save"
BY DEF Dir, File, Find, TryFile, TryDir, Save

\* What a program that creates needs at place k of its text t: a directory
\* made before it; and only create_fs_2 makes a directory log, at place 6.
WellMade(p, t, k) ==
    /\ t[k].op \in {"create_dir", "create_file", "save"}
    /\ t[k].op = "save" <=> k = Len(t)
    /\ k = 1 => t[k].op = "create_dir" /\ t[k].in = "NULL"
    /\ k > 1 /\ t[k].op # "save" =>
          \E j \in 1 .. k - 1 : t[j].op = "create_dir" /\ t[j].var = t[k].in
    /\ t[k].op = "create_dir" /\ t[k].name = "log" => p = "create_fs_2" /\ k = 6
    /\ p = "create_fs_2" =>
          /\ k <= 6 <=> t[k].op = "create_dir"
          /\ k = 6 => t[k].var = "log"
          /\ k = 7 => t[k].size = Kernel
          /\ k = 8 => t[k].size = Message /\ t[k].in = "log"

\* The text of create_fs_1, place by place.
LEMMA CreateFs1Text ==
    /\ Len(CreateFs1) = 13
    /\ CreateFs1[1] = Dir("NULL", "/", "root")
    /\ CreateFs1[2] = File("root", "kernel", 20000)
    /\ CreateFs1[3] = Dir("root", "etc", "etc")
    /\ CreateFs1[4] = File("etc", "hosts", 200)
    /\ CreateFs1[5] = Dir("root", "usr", "usr")
    /\ CreateFs1[6] = Dir("usr", "bin", "bin")
    /\ CreateFs1[7] = Dir("usr", "local", "local")
    /\ CreateFs1[8] = Dir("local", "bin", "lbin")
    /\ CreateFs1[9] = File("bin", "ls", 14322)
    /\ CreateFs1[10] = File("bin", "ps", 13800)
    /\ CreateFs1[11] = File("lbin", "nvcc", 28000)
    /\ CreateFs1[12] = File("lbin", "gcc", 12623)
    /\ CreateFs1[13] = Save
BY DEF CreateFs1

\* Call k of create_fs_1 is as WellMade says, by its text.
LEMMA CreateFs1Well == \A k \in 1 .. Len(CreateFs1) : WellMade("create_fs_1", CreateFs1, k)
<1>1. PICK t : t = CreateFs1
  OBVIOUS
<1> SUFFICES ASSUME NEW k \in 1 .. 13 PROVE WellMade("create_fs_1", t, k)
    BY <1>1, CreateFs1Text
<1>2. CASE k = 1
  BY <1>1, <1>2, CreateFs1Text, CallFields DEF WellMade
<1>3. CASE k = 2
  BY <1>1, <1>3, CreateFs1Text, CallFields DEF WellMade
<1>4. CASE k = 3
  BY <1>1, <1>4, CreateFs1Text, CallFields DEF WellMade
<1>5. CASE k = 4
  BY <1>1, <1>5, CreateFs1Text, CallFields DEF WellMade
<1>6. CASE k = 5
  BY <1>1, <1>6, CreateFs1Text, CallFields DEF WellMade
<1>7. CASE k = 6
  BY <1>1, <1>7, CreateFs1Text, CallFields DEF WellMade
<1>8. CASE k = 7
  BY <1>1, <1>8, CreateFs1Text, CallFields DEF WellMade
<1>9. CASE k = 8
  BY <1>1, <1>9, CreateFs1Text, CallFields DEF WellMade
<1>10. CASE k = 9
  BY <1>1, <1>10, CreateFs1Text, CallFields DEF WellMade
<1>11. CASE k = 10
  BY <1>1, <1>11, CreateFs1Text, CallFields DEF WellMade
<1>12. CASE k = 11
  BY <1>1, <1>12, CreateFs1Text, CallFields DEF WellMade
<1>13. CASE k = 12
  BY <1>1, <1>13, CreateFs1Text, CallFields DEF WellMade
<1>14. CASE k = 13
  BY <1>1, <1>14, CreateFs1Text, CallFields DEF WellMade
<1>15. QED
  BY <1>2, <1>3, <1>4, <1>5, <1>6, <1>7, <1>8, <1>9, <1>10, <1>11, <1>12, <1>13, <1>14

\* The text of create_fs_2, place by place.
LEMMA CreateFs2Text ==
    /\ Len(CreateFs2) = 14
    /\ CreateFs2[1] = Dir("NULL", "/", "root")
    /\ CreateFs2[2] = Dir("root", "etc", "etc")
    /\ CreateFs2[3] = Dir("root", "share", "share")
    /\ CreateFs2[4] = Dir("share", "man", "man")
    /\ CreateFs2[5] = Dir("root", "var", "var")
    /\ CreateFs2[6] = Dir("var", "log", "log")
    /\ CreateFs2[7] = File("root", "kernel", 20000)
    /\ CreateFs2[8] = File("log", "message", 50000)
    /\ CreateFs2[9] = File("log", "warn", 50000)
    /\ CreateFs2[10] = File("log", "fail", 50000)
    /\ CreateFs2[11] = File("etc", "hosts", 200)
    /\ CreateFs2[12] = File("man", "read.2", 300)
    /\ CreateFs2[13] = File("man", "write.2", 400)
    /\ CreateFs2[14] = Save
BY DEF CreateFs2

\* So is each of create_fs_2.
LEMMA CreateFs2Well == \A k \in 1 .. Len(CreateFs2) : WellMade("create_fs_2", CreateFs2, k)
<1>1. PICK t : t = CreateFs2
  OBVIOUS
<1> SUFFICES ASSUME NEW k \in 1 .. 14 PROVE WellMade("create_fs_2", t, k)
    BY <1>1, CreateFs2Text
<1>2. CASE k = 1
  BY <1>1, <1>2, CreateFs2Text, CallFields DEF WellMade
<1>3. CASE k = 2
  BY <1>1, <1>3, CreateFs2Text, CallFields DEF WellMade
<1>4. CASE k = 3
  BY <1>1, <1>4, CreateFs2Text, CallFields DEF WellMade
<1>5. CASE k = 4
  BY <1>1, <1>5, CreateFs2Text, CallFields DEF WellMade
<1>6. CASE k = 5
  BY <1>1, <1>6, CreateFs2Text, CallFields DEF WellMade
<1>7. CASE k = 6
  BY <1>1, <1>7, CreateFs2Text, CallFields DEF WellMade
<1>8. CASE k = 7
  BY <1>1, <1>8, CreateFs2Text, CallFields DEF WellMade, Kernel, Message
<1>9. CASE k = 8
  BY <1>1, <1>9, CreateFs2Text, CallFields DEF WellMade, Kernel, Message
<1>10. CASE k = 9
  BY <1>1, <1>10, CreateFs2Text, CallFields DEF WellMade
<1>11. CASE k = 10
  BY <1>1, <1>11, CreateFs2Text, CallFields DEF WellMade
<1>12. CASE k = 11
  BY <1>1, <1>12, CreateFs2Text, CallFields DEF WellMade
<1>13. CASE k = 12
  BY <1>1, <1>13, CreateFs2Text, CallFields DEF WellMade
<1>14. CASE k = 13
  BY <1>1, <1>14, CreateFs2Text, CallFields DEF WellMade
<1>15. CASE k = 14
  BY <1>1, <1>15, CreateFs2Text, CallFields DEF WellMade
<1>16. QED
  BY <1>2, <1>3, <1>4, <1>5, <1>6, <1>7, <1>8, <1>9, <1>10, <1>11, <1>12, <1>13, <1>14, <1>15

\* The text of create_fs_3, place by place.
LEMMA CreateFs3Text ==
    /\ Len(CreateFs3) = 15
    /\ CreateFs3[1] = Dir("NULL", "/", "root")
    /\ CreateFs3[2] = Dir("root", "root", "rootdir")
    /\ CreateFs3[3] = Dir("root", "home", "home")
    /\ CreateFs3[4] = Dir("home", "guest", "guest")
    /\ CreateFs3[5] = Dir("home", "user", "user")
    /\ CreateFs3[6] = Dir("user", "Download", "down")
    /\ CreateFs3[7] = Dir("home", "print", "print")
    /\ CreateFs3[8] = File("rootdir", "bashrc", 100)
    /\ CreateFs3[9] = File("rootdir", "profile", 100)
    /\ CreateFs3[10] = File("guest", "bashrc", 100)
    /\ CreateFs3[11] = File("guest", "profile", 100)
    /\ CreateFs3[12] = File("user", "bashrc", 100)
    /\ CreateFs3[13] = File("user", "profile", 100)
    /\ CreateFs3[14] = File("down", "oblig2", 163033)
    /\ CreateFs3[15] = Save
BY DEF CreateFs3

\* So is each of create_fs_3.
LEMMA CreateFs3Well == \A k \in 1 .. Len(CreateFs3) : WellMade("create_fs_3", CreateFs3, k)
<1>1. PICK t : t = CreateFs3
  OBVIOUS
<1> SUFFICES ASSUME NEW k \in 1 .. 15 PROVE WellMade("create_fs_3", t, k)
    BY <1>1, CreateFs3Text
<1>2. CASE k = 1
  BY <1>1, <1>2, CreateFs3Text, CallFields DEF WellMade
<1>3. CASE k = 2
  BY <1>1, <1>3, CreateFs3Text, CallFields DEF WellMade
<1>4. CASE k = 3
  BY <1>1, <1>4, CreateFs3Text, CallFields DEF WellMade
<1>5. CASE k = 4
  BY <1>1, <1>5, CreateFs3Text, CallFields DEF WellMade
<1>6. CASE k = 5
  BY <1>1, <1>6, CreateFs3Text, CallFields DEF WellMade
<1>7. CASE k = 6
  BY <1>1, <1>7, CreateFs3Text, CallFields DEF WellMade
<1>8. CASE k = 7
  BY <1>1, <1>8, CreateFs3Text, CallFields DEF WellMade
<1>9. CASE k = 8
  BY <1>1, <1>9, CreateFs3Text, CallFields DEF WellMade
<1>10. CASE k = 9
  BY <1>1, <1>10, CreateFs3Text, CallFields DEF WellMade
<1>11. CASE k = 10
  BY <1>1, <1>11, CreateFs3Text, CallFields DEF WellMade
<1>12. CASE k = 11
  BY <1>1, <1>12, CreateFs3Text, CallFields DEF WellMade
<1>13. CASE k = 12
  BY <1>1, <1>13, CreateFs3Text, CallFields DEF WellMade
<1>14. CASE k = 13
  BY <1>1, <1>14, CreateFs3Text, CallFields DEF WellMade
<1>15. CASE k = 14
  BY <1>1, <1>15, CreateFs3Text, CallFields DEF WellMade
<1>16. CASE k = 15
  BY <1>1, <1>16, CreateFs3Text, CallFields DEF WellMade
<1>17. QED
  BY <1>2, <1>3, <1>4, <1>5, <1>6, <1>7, <1>8, <1>9, <1>10, <1>11, <1>12, <1>13, <1>14, <1>15, <1>16
\* The text of load_fs, place by place.
LEMMA LoadFsText ==
    /\ Len(LoadFs) = 23
    /\ LoadFs[1] = Find("root", "kernel", "dir", 2)
    /\ LoadFs[2] = Find("root", "var", "dir", 5)
    /\ LoadFs[3] = Find("dir", "log", "dir", 5)
    /\ LoadFs[4] = Find("dir", "message", "dir", 5)
    /\ LoadFs[5] = Find("root", "share", "dir", 8)
    /\ LoadFs[6] = Find("dir", "man", "dir", 8)
    /\ LoadFs[7] = Find("dir", "read.2", "dir", 8)
    /\ LoadFs[8] = Find("root", "etc", "dir", 10)
    /\ LoadFs[9] = Find("dir", "hosts", "dir", 10)
    /\ LoadFs[10] = Find("root", "etc", "dir", 12)
    /\ LoadFs[11] = Find("dir", "host.conf", "dir", 12)
    /\ LoadFs[12] = Find("root", "etc", "dir", 15)
    /\ LoadFs[13] = Find("dir", "httpd", "dir", 15)
    /\ LoadFs[14] = Find("dir", "conf", "dir", 15)
    /\ LoadFs[15] = Find("root", "home", "dir", 19)
    /\ LoadFs[16] = Find("dir", "user", "dir", 19)
    /\ LoadFs[17] = Find("dir", "Download", "dir", 19)
    /\ LoadFs[18] = Find("dir", "oblig2", "dir", 19)
    /\ LoadFs[19] = Find("root", "home", "dir", 22)
    /\ LoadFs[20] = Find("dir", "guest", "dir", 22)
    /\ LoadFs[21] = Find("dir", "bashrc", "dir", 22)
    /\ LoadFs[22] = Find("root", "root", "dir", 24)
    /\ LoadFs[23] = Find("dir", "bashrc", "dir", 24)
BY DEF LoadFs

\* load_fs only looks, with one variable besides the root.
Looks(call, k) ==
    /\ call.op = "find" /\ call.var = "dir"
    /\ call.in \in {"root", "dir"} /\ (k = 1 => call.in = "root")
    /\ call.absent \in k + 1 .. 24

\* load_fs only looks, and on a failure goes on further down.
LEMMA LoadFsWell == \A k \in 1 .. Len(LoadFs) : Looks(LoadFs[k], k)
<1>1. PICK t : t = LoadFs
  OBVIOUS
<1> SUFFICES ASSUME NEW k \in 1 .. 23 PROVE Looks(t[k], k)
    BY <1>1, LoadFsText
<1>2. CASE k = 1
  BY <1>1, <1>2, LoadFsText, CallFields DEF Looks
<1>3. CASE k = 2
  BY <1>1, <1>3, LoadFsText, CallFields DEF Looks
<1>4. CASE k = 3
  BY <1>1, <1>4, LoadFsText, CallFields DEF Looks
<1>5. CASE k = 4
  BY <1>1, <1>5, LoadFsText, CallFields DEF Looks
<1>6. CASE k = 5
  BY <1>1, <1>6, LoadFsText, CallFields DEF Looks
<1>7. CASE k = 6
  BY <1>1, <1>7, LoadFsText, CallFields DEF Looks
<1>8. CASE k = 7
  BY <1>1, <1>8, LoadFsText, CallFields DEF Looks
<1>9. CASE k = 8
  BY <1>1, <1>9, LoadFsText, CallFields DEF Looks
<1>10. CASE k = 9
  BY <1>1, <1>10, LoadFsText, CallFields DEF Looks
<1>11. CASE k = 10
  BY <1>1, <1>11, LoadFsText, CallFields DEF Looks
<1>12. CASE k = 11
  BY <1>1, <1>12, LoadFsText, CallFields DEF Looks
<1>13. CASE k = 12
  BY <1>1, <1>13, LoadFsText, CallFields DEF Looks
<1>14. CASE k = 13
  BY <1>1, <1>14, LoadFsText, CallFields DEF Looks
<1>15. CASE k = 14
  BY <1>1, <1>15, LoadFsText, CallFields DEF Looks
<1>16. CASE k = 15
  BY <1>1, <1>16, LoadFsText, CallFields DEF Looks
<1>17. CASE k = 16
  BY <1>1, <1>17, LoadFsText, CallFields DEF Looks
<1>18. CASE k = 17
  BY <1>1, <1>18, LoadFsText, CallFields DEF Looks
<1>19. CASE k = 18
  BY <1>1, <1>19, LoadFsText, CallFields DEF Looks
<1>20. CASE k = 19
  BY <1>1, <1>20, LoadFsText, CallFields DEF Looks
<1>21. CASE k = 20
  BY <1>1, <1>21, LoadFsText, CallFields DEF Looks
<1>22. CASE k = 21
  BY <1>1, <1>22, LoadFsText, CallFields DEF Looks
<1>23. CASE k = 22
  BY <1>1, <1>23, LoadFsText, CallFields DEF Looks
<1>24. CASE k = 23
  BY <1>1, <1>24, LoadFsText, CallFields DEF Looks
<1>25. QED
  BY <1>2, <1>3, <1>4, <1>5, <1>6, <1>7, <1>8, <1>9, <1>10, <1>11, <1>12, <1>13, <1>14, <1>15,
     <1>16, <1>17, <1>18, <1>19, <1>20, <1>21, <1>22, <1>23, <1>24

\* The text of del_fs, place by place.
LEMMA DelFsText ==
    /\ Len(DelFs) = 41
    /\ DelFs[1] = Find("root", "kernel", "node", 3)
    /\ DelFs[2] = TryFile("root", "node")
    /\ DelFs[3] = Find("root", "var", "var", 13)
    /\ DelFs[4] = Find("var", "log", "log", 13)
    /\ DelFs[5] = TryDir("var", "log")
    /\ DelFs[6] = Find("log", "message", "node", 8)
    /\ DelFs[7] = TryFile("log", "node")
    /\ DelFs[8] = Find("log", "warn", "node", 10)
    /\ DelFs[9] = TryFile("log", "node")
    /\ DelFs[10] = Find("log", "fail", "node", 12)
    /\ DelFs[11] = TryFile("log", "node")
    /\ DelFs[12] = TryDir("var", "log")
    /\ DelFs[13] = Find("root", "share", "dir", 17)
    /\ DelFs[14] = Find("dir", "man", "dir", 17)
    /\ DelFs[15] = Find("dir", "read.2", "node", 17)
    /\ DelFs[16] = TryFile("dir", "node")
    /\ DelFs[17] = Find("root", "etc", "dir", 20)
    /\ DelFs[18] = Find("dir", "hosts", "node", 20)
    /\ DelFs[19] = TryFile("dir", "node")
    /\ DelFs[20] = Find("root", "etc", "dir", 23)
    /\ DelFs[21] = Find("dir", "host.conf", "node", 23)
    /\ DelFs[22] = TryFile("dir", "node")
    /\ DelFs[23] = Find("root", "etc", "dir", 30)
    /\ DelFs[24] = Find("dir", "httpd", "http", 30)
    /\ DelFs[25] = TryDir("dir", "http")
    /\ DelFs[26] = Find("dir", "httpd", "http", 30)
    /\ DelFs[27] = Find("http", "conf", "node", 30)
    /\ DelFs[28] = TryFile("http", "node")
    /\ DelFs[29] = TryDir("dir", "http")
    /\ DelFs[30] = Find("root", "home", "dir", 41)
    /\ DelFs[31] = Find("dir", "user", "udir", 41)
    /\ DelFs[32] = TryDir("dir", "udir")
    /\ DelFs[33] = Find("dir", "user", "udir", 34)
    /\ DelFs[34] = Find("udir", "Download", "dl", 41)
    /\ DelFs[35] = TryDir("udir", "dl")
    /\ DelFs[36] = Find("udir", "Download", "dl", 41)
    /\ DelFs[37] = Find("dl", "oblig2", "node", 41)
    /\ DelFs[38] = TryFile("dl", "node")
    /\ DelFs[39] = TryDir("udir", "dl")
    /\ DelFs[40] = TryDir("dir", "udir")
    /\ DelFs[41] = Save
BY DEF DelFs

\* del_fs looks and deletes, and saves at the end.
Deletes(call, k) ==
    /\ call.op \in {"find", "delete_file", "delete_dir", "save"}
    /\ call.op = "save" <=> k = 41

\* del_fs only looks and deletes, and saves last.
LEMMA DelFsWell == \A k \in 1 .. Len(DelFs) : Deletes(DelFs[k], k)
<1>1. PICK t : t = DelFs
  OBVIOUS
<1> SUFFICES ASSUME NEW k \in 1 .. 41 PROVE Deletes(t[k], k)
    BY <1>1, DelFsText
<1>2. CASE k = 1
  BY <1>1, <1>2, DelFsText, CallFields DEF Deletes
<1>3. CASE k = 2
  BY <1>1, <1>3, DelFsText, CallFields DEF Deletes
<1>4. CASE k = 3
  BY <1>1, <1>4, DelFsText, CallFields DEF Deletes
<1>5. CASE k = 4
  BY <1>1, <1>5, DelFsText, CallFields DEF Deletes
<1>6. CASE k = 5
  BY <1>1, <1>6, DelFsText, CallFields DEF Deletes
<1>7. CASE k = 6
  BY <1>1, <1>7, DelFsText, CallFields DEF Deletes
<1>8. CASE k = 7
  BY <1>1, <1>8, DelFsText, CallFields DEF Deletes
<1>9. CASE k = 8
  BY <1>1, <1>9, DelFsText, CallFields DEF Deletes
<1>10. CASE k = 9
  BY <1>1, <1>10, DelFsText, CallFields DEF Deletes
<1>11. CASE k = 10
  BY <1>1, <1>11, DelFsText, CallFields DEF Deletes
<1>12. CASE k = 11
  BY <1>1, <1>12, DelFsText, CallFields DEF Deletes
<1>13. CASE k = 12
  BY <1>1, <1>13, DelFsText, CallFields DEF Deletes
<1>14. CASE k = 13
  BY <1>1, <1>14, DelFsText, CallFields DEF Deletes
<1>15. CASE k = 14
  BY <1>1, <1>15, DelFsText, CallFields DEF Deletes
<1>16. CASE k = 15
  BY <1>1, <1>16, DelFsText, CallFields DEF Deletes
<1>17. CASE k = 16
  BY <1>1, <1>17, DelFsText, CallFields DEF Deletes
<1>18. CASE k = 17
  BY <1>1, <1>18, DelFsText, CallFields DEF Deletes
<1>19. CASE k = 18
  BY <1>1, <1>19, DelFsText, CallFields DEF Deletes
<1>20. CASE k = 19
  BY <1>1, <1>20, DelFsText, CallFields DEF Deletes
<1>21. CASE k = 20
  BY <1>1, <1>21, DelFsText, CallFields DEF Deletes
<1>22. CASE k = 21
  BY <1>1, <1>22, DelFsText, CallFields DEF Deletes
<1>23. CASE k = 22
  BY <1>1, <1>23, DelFsText, CallFields DEF Deletes
<1>24. CASE k = 23
  BY <1>1, <1>24, DelFsText, CallFields DEF Deletes
<1>25. CASE k = 24
  BY <1>1, <1>25, DelFsText, CallFields DEF Deletes
<1>26. CASE k = 25
  BY <1>1, <1>26, DelFsText, CallFields DEF Deletes
<1>27. CASE k = 26
  BY <1>1, <1>27, DelFsText, CallFields DEF Deletes
<1>28. CASE k = 27
  BY <1>1, <1>28, DelFsText, CallFields DEF Deletes
<1>29. CASE k = 28
  BY <1>1, <1>29, DelFsText, CallFields DEF Deletes
<1>30. CASE k = 29
  BY <1>1, <1>30, DelFsText, CallFields DEF Deletes
<1>31. CASE k = 30
  BY <1>1, <1>31, DelFsText, CallFields DEF Deletes
<1>32. CASE k = 31
  BY <1>1, <1>32, DelFsText, CallFields DEF Deletes
<1>33. CASE k = 32
  BY <1>1, <1>33, DelFsText, CallFields DEF Deletes
<1>34. CASE k = 33
  BY <1>1, <1>34, DelFsText, CallFields DEF Deletes
<1>35. CASE k = 34
  BY <1>1, <1>35, DelFsText, CallFields DEF Deletes
<1>36. CASE k = 35
  BY <1>1, <1>36, DelFsText, CallFields DEF Deletes
<1>37. CASE k = 36
  BY <1>1, <1>37, DelFsText, CallFields DEF Deletes
<1>38. CASE k = 37
  BY <1>1, <1>38, DelFsText, CallFields DEF Deletes
<1>39. CASE k = 38
  BY <1>1, <1>39, DelFsText, CallFields DEF Deletes
<1>40. CASE k = 39
  BY <1>1, <1>40, DelFsText, CallFields DEF Deletes
<1>41. CASE k = 40
  BY <1>1, <1>41, DelFsText, CallFields DEF Deletes
<1>42. CASE k = 41
  BY <1>1, <1>42, DelFsText, CallFields DEF Deletes
<1>43. QED
  BY <1>2, <1>3, <1>4, <1>5, <1>6, <1>7, <1>8, <1>9, <1>10, <1>11, <1>12, <1>13, <1>14, <1>15,
     <1>16, <1>17, <1>18, <1>19, <1>20, <1>21, <1>22, <1>23, <1>24, <1>25, <1>26, <1>27, <1>28, <1>29,
     <1>30, <1>31, <1>32, <1>33, <1>34, <1>35, <1>36, <1>37, <1>38, <1>39, <1>40, <1>41, <1>42

\* The texts of all programs.
LEMMA Texts ==
    /\ \A p \in Creators :
          /\ Len(Text(p)) \in 13 .. 15 /\ DOMAIN Text(p) = 1 .. Len(Text(p))
          /\ \A k \in 1 .. Len(Text(p)) : WellMade(p, Text(p), k)
    /\ Text("create_fs_2") = CreateFs2 /\ Len(CreateFs2) = 14
    /\ Text("load_fs") = LoadFs /\ Len(LoadFs) = 23
    /\ Text("del_fs") = DelFs /\ Len(DelFs) = 41
<1>1. Text("create_fs_1") = CreateFs1 /\ Text("create_fs_3") = CreateFs3
  BY DEF Text
<1>2. /\ Text("create_fs_2") = CreateFs2
      /\ Text("load_fs") = LoadFs /\ Text("del_fs") = DelFs
  BY DEF Text
<1>3. /\ DOMAIN CreateFs1 = 1 .. Len(CreateFs1)
      /\ DOMAIN CreateFs2 = 1 .. Len(CreateFs2)
      /\ DOMAIN CreateFs3 = 1 .. Len(CreateFs3)
  BY DEF CreateFs1, CreateFs2, CreateFs3
<1>4. /\ Len(CreateFs1) = 13 /\ Len(CreateFs2) = 14 /\ Len(CreateFs3) = 15
      /\ Len(LoadFs) = 23 /\ Len(DelFs) = 41
  BY CreateFs1Text, CreateFs2Text, CreateFs3Text, LoadFsText, DelFsText
<1>5. ASSUME NEW p \in Creators
      PROVE  /\ Len(Text(p)) \in 13 .. 15 /\ DOMAIN Text(p) = 1 .. Len(Text(p))
             /\ \A k \in 1 .. Len(Text(p)) : WellMade(p, Text(p), k)
  <2>0. PICK t : t = Text(p)
    OBVIOUS
  <2>1. CASE p = "create_fs_1"
    <3>1. t = CreateFs1
      BY <1>1, <2>0, <2>1
    <3>2. Len(t) \in 13 .. 15
      BY <1>4, <3>1
    <3>3. DOMAIN t = 1 .. Len(t)
      BY <1>3, <3>1, Zenon
    <3>4. \A k \in 1 .. Len(t) : WellMade(p, t, k)
      BY <2>1, <3>1, CreateFs1Well
    <3>5. QED
      BY <2>0, <3>2, <3>3, <3>4
  <2>2. CASE p = "create_fs_2"
    <3>1. t = CreateFs2
      BY <1>2, <2>0, <2>2
    <3>2. Len(t) \in 13 .. 15
      BY <1>4, <3>1
    <3>3. DOMAIN t = 1 .. Len(t)
      BY <1>3, <3>1, Zenon
    <3>4. \A k \in 1 .. Len(t) : WellMade(p, t, k)
      BY <2>2, <3>1, CreateFs2Well
    <3>5. QED
      BY <2>0, <3>2, <3>3, <3>4
  <2>3. CASE p = "create_fs_3"
    <3>1. t = CreateFs3
      BY <1>1, <2>0, <2>3
    <3>2. Len(t) \in 13 .. 15
      BY <1>4, <3>1
    <3>3. DOMAIN t = 1 .. Len(t)
      BY <1>3, <3>1, Zenon
    <3>4. \A k \in 1 .. Len(t) : WellMade(p, t, k)
      BY <2>3, <3>1, CreateFs3Well
    <3>5. QED
      BY <2>0, <3>2, <3>3, <3>4
  <2>4. QED
    BY <2>1, <2>2, <2>3 DEF Creators
<1>6. QED
  BY <1>2, <1>4, <1>5

-------------------------------------------------------------------------------
(* What the programs find *)

\* del_fs deletes what it has found in a directory that it still has.
Known(call) == \E name : In(call.in, call.var, name)

\* What main of del_fs knows where it calls delete_file or delete_dir: the inode
\* is one it has found in the directory.
LEMMA KnownToDelete ==
    ASSUME DelFacts, at \in 1 .. 41, DelFs[at].op \in {"delete_file", "delete_dir"}
    PROVE  Known(DelFs[at])
<1>0. PICK k \in 1 .. 41 : k = at
  OBVIOUS
<1>1. PICK call : call = DelFs[k] /\ k = at
  BY <1>0
<1> SUFFICES Known(call)
    BY <1>1
<1>2. call.op \in {"delete_file", "delete_dir"}
  BY <1>1
<1>3. CASE k = 2
  <2>1. In("root", "node", "kernel")
    BY <1>1, <1>3 DEF DelFacts
  <2>2. call.in = "root" /\ call.var = "node"
    BY <1>1, <1>3, DelFsText, CallFields
  <2>3. QED
    BY <2>1, <2>2 DEF Known
<1>4. CASE k = 5
  <2>1. In("var", "log", "log")
    BY <1>1, <1>4 DEF DelFacts
  <2>2. call.in = "var" /\ call.var = "log"
    BY <1>1, <1>4, DelFsText, CallFields
  <2>3. QED
    BY <2>1, <2>2 DEF Known
<1>5. CASE k = 7
  <2>1. In("log", "node", "message")
    BY <1>1, <1>5 DEF DelFacts
  <2>2. call.in = "log" /\ call.var = "node"
    BY <1>1, <1>5, DelFsText, CallFields
  <2>3. QED
    BY <2>1, <2>2 DEF Known
<1>6. CASE k = 9
  <2>1. In("log", "node", "warn")
    BY <1>1, <1>6 DEF DelFacts
  <2>2. call.in = "log" /\ call.var = "node"
    BY <1>1, <1>6, DelFsText, CallFields
  <2>3. QED
    BY <2>1, <2>2 DEF Known
<1>7. CASE k = 11
  <2>1. In("log", "node", "fail")
    BY <1>1, <1>7 DEF DelFacts
  <2>2. call.in = "log" /\ call.var = "node"
    BY <1>1, <1>7, DelFsText, CallFields
  <2>3. QED
    BY <2>1, <2>2 DEF Known
<1>8. CASE k = 12
  <2>1. In("var", "log", "log")
    BY <1>1, <1>8 DEF DelFacts
  <2>2. call.in = "var" /\ call.var = "log"
    BY <1>1, <1>8, DelFsText, CallFields
  <2>3. QED
    BY <2>1, <2>2 DEF Known
<1>9. CASE k = 16
  <2>1. In("dir", "node", "read.2")
    BY <1>1, <1>9 DEF DelFacts
  <2>2. call.in = "dir" /\ call.var = "node"
    BY <1>1, <1>9, DelFsText, CallFields
  <2>3. QED
    BY <2>1, <2>2 DEF Known
<1>10. CASE k = 19
  <2>1. In("dir", "node", "hosts")
    BY <1>1, <1>10 DEF DelFacts
  <2>2. call.in = "dir" /\ call.var = "node"
    BY <1>1, <1>10, DelFsText, CallFields
  <2>3. QED
    BY <2>1, <2>2 DEF Known
<1>11. CASE k = 22
  <2>1. In("dir", "node", "host.conf")
    BY <1>1, <1>11 DEF DelFacts
  <2>2. call.in = "dir" /\ call.var = "node"
    BY <1>1, <1>11, DelFsText, CallFields
  <2>3. QED
    BY <2>1, <2>2 DEF Known
<1>12. CASE k = 25
  <2>1. In("dir", "http", "httpd")
    BY <1>1, <1>12 DEF DelFacts
  <2>2. call.in = "dir" /\ call.var = "http"
    BY <1>1, <1>12, DelFsText, CallFields
  <2>3. QED
    BY <2>1, <2>2 DEF Known
<1>13. CASE k = 28
  <2>1. In("http", "node", "conf")
    BY <1>1, <1>13 DEF DelFacts
  <2>2. call.in = "http" /\ call.var = "node"
    BY <1>1, <1>13, DelFsText, CallFields
  <2>3. QED
    BY <2>1, <2>2 DEF Known
<1>14. CASE k = 29
  <2>1. In("dir", "http", "httpd")
    BY <1>1, <1>14 DEF DelFacts
  <2>2. call.in = "dir" /\ call.var = "http"
    BY <1>1, <1>14, DelFsText, CallFields
  <2>3. QED
    BY <2>1, <2>2 DEF Known
<1>15. CASE k = 32
  <2>1. In("dir", "udir", "user")
    BY <1>1, <1>15 DEF DelFacts
  <2>2. call.in = "dir" /\ call.var = "udir"
    BY <1>1, <1>15, DelFsText, CallFields
  <2>3. QED
    BY <2>1, <2>2 DEF Known
<1>16. CASE k = 35
  <2>1. In("udir", "dl", "Download")
    BY <1>1, <1>16 DEF DelFacts
  <2>2. call.in = "udir" /\ call.var = "dl"
    BY <1>1, <1>16, DelFsText, CallFields
  <2>3. QED
    BY <2>1, <2>2 DEF Known
<1>17. CASE k = 38
  <2>1. In("dl", "node", "oblig2")
    BY <1>1, <1>17 DEF DelFacts
  <2>2. call.in = "dl" /\ call.var = "node"
    BY <1>1, <1>17, DelFsText, CallFields
  <2>3. QED
    BY <2>1, <2>2 DEF Known
<1>18. CASE k = 39
  <2>1. In("udir", "dl", "Download")
    BY <1>1, <1>18 DEF DelFacts
  <2>2. call.in = "udir" /\ call.var = "dl"
    BY <1>1, <1>18, DelFsText, CallFields
  <2>3. QED
    BY <2>1, <2>2 DEF Known
<1>19. CASE k = 40
  <2>1. In("dir", "udir", "user")
    BY <1>1, <1>19 DEF DelFacts
  <2>2. call.in = "dir" /\ call.var = "udir"
    BY <1>1, <1>19, DelFsText, CallFields
  <2>3. QED
    BY <2>1, <2>2 DEF Known
<1>20. CASE k \in {1, 3, 4, 6, 8, 10, 13, 14, 15, 17, 18, 20, 21, 23, 24, 26, 27, 30, 31, 33, 34, 36, 37, 41}
  BY <1>1, <1>2, <1>20, DelFsText, CallFields
<1>21. QED
  BY <1>3, <1>4, <1>5, <1>6, <1>7, <1>8, <1>9, <1>10, <1>11, <1>12, <1>13, <1>14, <1>15, <1>16, <1>17, <1>18, <1>19, <1>20

\* It looks into the root, which may be missing, into what it has found under
\* another name than the one it looks for, or, once, into nothing.
Searched(call) ==
    \/ call.in = "root" /\ call.name # RootName
    \/ call.in \in DOMAIN local /\ local[call.in] = NULL
    \/ \E name : name # call.name /\ Is(call.in, name)

\* And where it calls find_inode_by_name: the parent has not the name itself, so
\* that what is found is a child of it.
LEMMA KnownToSearch ==
    ASSUME DelFacts, at \in 1 .. 41, DelFs[at].op = "find"
    PROVE  Searched(DelFs[at])
<1>0. PICK k \in 1 .. 41 : k = at
  OBVIOUS
<1>1. PICK call : call = DelFs[k] /\ k = at
  BY <1>0
<1> SUFFICES Searched(call)
    BY <1>1
<1>2. call.op = "find"
  BY <1>1
<1>3. RootName = "/"
  BY ProgramsAssumption
<1>4. CASE k = 1
  BY <1>1, <1>3, <1>4, DelFsText, CallFields DEF Searched
<1>5. CASE k = 3
  BY <1>1, <1>3, <1>5, DelFsText, CallFields DEF Searched
<1>6. CASE k = 4
  <2>1. Is("var", "var")
    BY <1>1, <1>6 DEF DelFacts, In
  <2>2. call.in = "var" /\ call.name = "log"
    BY <1>1, <1>6, DelFsText, CallFields
  <2>3. QED
    BY <2>1, <2>2 DEF Searched
<1>7. CASE k = 6
  <2>1. Is("log", "log")
    BY <1>1, <1>7 DEF DelFacts, In
  <2>2. call.in = "log" /\ call.name = "message"
    BY <1>1, <1>7, DelFsText, CallFields
  <2>3. QED
    BY <2>1, <2>2 DEF Searched
<1>8. CASE k = 8
  <2>1. Is("log", "log")
    BY <1>1, <1>8 DEF DelFacts, In
  <2>2. call.in = "log" /\ call.name = "warn"
    BY <1>1, <1>8, DelFsText, CallFields
  <2>3. QED
    BY <2>1, <2>2 DEF Searched
<1>9. CASE k = 10
  <2>1. Is("log", "log")
    BY <1>1, <1>9 DEF DelFacts, In
  <2>2. call.in = "log" /\ call.name = "fail"
    BY <1>1, <1>9, DelFsText, CallFields
  <2>3. QED
    BY <2>1, <2>2 DEF Searched
<1>10. CASE k = 13
  BY <1>1, <1>3, <1>10, DelFsText, CallFields DEF Searched
<1>11. CASE k = 14
  <2>1. Is("dir", "share")
    BY <1>1, <1>11 DEF DelFacts, In
  <2>2. call.in = "dir" /\ call.name = "man"
    BY <1>1, <1>11, DelFsText, CallFields
  <2>3. QED
    BY <2>1, <2>2 DEF Searched
<1>12. CASE k = 15
  <2>1. Is("dir", "man")
    BY <1>1, <1>12 DEF DelFacts, In
  <2>2. call.in = "dir" /\ call.name = "read.2"
    BY <1>1, <1>12, DelFsText, CallFields
  <2>3. QED
    BY <2>1, <2>2 DEF Searched
<1>13. CASE k = 17
  BY <1>1, <1>3, <1>13, DelFsText, CallFields DEF Searched
<1>14. CASE k = 18
  <2>1. Is("dir", "etc")
    BY <1>1, <1>14 DEF DelFacts, In
  <2>2. call.in = "dir" /\ call.name = "hosts"
    BY <1>1, <1>14, DelFsText, CallFields
  <2>3. QED
    BY <2>1, <2>2 DEF Searched
<1>15. CASE k = 20
  BY <1>1, <1>3, <1>15, DelFsText, CallFields DEF Searched
<1>16. CASE k = 21
  <2>1. Is("dir", "etc")
    BY <1>1, <1>16 DEF DelFacts, In
  <2>2. call.in = "dir" /\ call.name = "host.conf"
    BY <1>1, <1>16, DelFsText, CallFields
  <2>3. QED
    BY <2>1, <2>2 DEF Searched
<1>17. CASE k = 23
  BY <1>1, <1>3, <1>17, DelFsText, CallFields DEF Searched
<1>18. CASE k = 24
  <2>1. Is("dir", "etc")
    BY <1>1, <1>18 DEF DelFacts, In
  <2>2. call.in = "dir" /\ call.name = "httpd"
    BY <1>1, <1>18, DelFsText, CallFields
  <2>3. QED
    BY <2>1, <2>2 DEF Searched
<1>19. CASE k = 26
  <2>1. Is("dir", "etc")
    BY <1>1, <1>19 DEF DelFacts, In
  <2>2. call.in = "dir" /\ call.name = "httpd"
    BY <1>1, <1>19, DelFsText, CallFields
  <2>3. QED
    BY <2>1, <2>2 DEF Searched
<1>20. CASE k = 27
  <2>1. Is("http", "httpd")
    BY <1>1, <1>20 DEF DelFacts, In
  <2>2. call.in = "http" /\ call.name = "conf"
    BY <1>1, <1>20, DelFsText, CallFields
  <2>3. QED
    BY <2>1, <2>2 DEF Searched
<1>21. CASE k = 30
  BY <1>1, <1>3, <1>21, DelFsText, CallFields DEF Searched
<1>22. CASE k = 31
  <2>1. Is("dir", "home")
    BY <1>1, <1>22 DEF DelFacts, In
  <2>2. call.in = "dir" /\ call.name = "user"
    BY <1>1, <1>22, DelFsText, CallFields
  <2>3. QED
    BY <2>1, <2>2 DEF Searched
<1>23. CASE k = 33
  <2>1. Is("dir", "home")
    BY <1>1, <1>23 DEF DelFacts, In
  <2>2. call.in = "dir" /\ call.name = "user"
    BY <1>1, <1>23, DelFsText, CallFields
  <2>3. QED
    BY <2>1, <2>2 DEF Searched
<1>24. CASE k = 34
  <2>1. \/ In("dir", "udir", "user")
        \/ "udir" \in DOMAIN local /\ local["udir"] = NULL
    BY <1>1, <1>24 DEF DelFacts
  <2>2. Is("udir", "user") \/ ("udir" \in DOMAIN local /\ local["udir"] = NULL)
    BY <2>1 DEF In
  <2>3. call.in = "udir" /\ call.name = "Download"
    BY <1>1, <1>24, DelFsText, CallFields
  <2>4. QED
    BY <2>2, <2>3 DEF Searched
<1>25. CASE k = 36
  <2>1. Is("udir", "user")
    BY <1>1, <1>25 DEF DelFacts, In
  <2>2. call.in = "udir" /\ call.name = "Download"
    BY <1>1, <1>25, DelFsText, CallFields
  <2>3. QED
    BY <2>1, <2>2 DEF Searched
<1>26. CASE k = 37
  <2>1. Is("dl", "Download")
    BY <1>1, <1>26 DEF DelFacts, In
  <2>2. call.in = "dl" /\ call.name = "oblig2"
    BY <1>1, <1>26, DelFsText, CallFields
  <2>3. QED
    BY <2>1, <2>2 DEF Searched
<1>27. CASE k \in {2, 5, 7, 9, 11, 12, 16, 19, 22, 25, 28, 29, 32, 35, 38, 39, 40, 41}
  BY <1>1, <1>2, <1>27, DelFsText, CallFields
<1>28. QED
  BY <1>4, <1>5, <1>6, <1>7, <1>8, <1>9, <1>10, <1>11, <1>12, <1>13, <1>14, <1>15, <1>16, <1>17,
     <1>18, <1>19, <1>20, <1>21, <1>22, <1>23, <1>24, <1>25, <1>26, <1>27

-------------------------------------------------------------------------------
(* The calls are those of MasterFileTable *)

\* The inductive invariant.
ProgramsInv == DiskInv /\ ProgInv

\* The type invariant of Inode, and the tree, while a program runs.
LEMMA RunningTree ==
    ASSUME DiskInv, InMemory
    PROVE  /\ IInv /\ RunTree /\ TypeOK
           /\ root \in DOMAIN inode \cup {NULL}
           /\ root = NULL => DOMAIN inode = {}
           /\ pc \in {"idle", "freeing"} /\ root # NULL => GoodTree(inode, root)
<1>1. IInv /\ RunTree /\ TypeOK
  BY DEF DiskInv, InMemory, RunInv, IInv
<1>2. pc \in {"idle", "freeing"} => Settled = inode
  BY <1>1, AllSettled
<1>3. QED
  BY <1>1, <1>2 DEF RunTree, TreeIsGood, TypeOK

\* A root that is a file is all there is.
LEMMA LoneFile ==
    ASSUME NEW h, NEW r, GoodTree(h, r), ~h[r].is_directory
    PROVE  DOMAIN h = {r} /\ h[r].children = <<>> /\ Kids(h, r) = {}
<1>1. r \in DOMAIN h /\ h[r].children = <<>>
  BY FileIsLeaf DEF GoodTree
<1>2. Kids(h, r) = {}
  BY <1>1 DEF Kids
<1>3. DOMAIN h = {r}
  BY <1>1, <1>2 DEF GoodTree, TreeReach
<1>4. QED
  BY <1>1, <1>2, <1>3

\* Which program runs, and what its text has next.
LEMMA Running ==
    ASSUME ProgramsInv, NEW op, Before(op)
    PROVE  /\ prog \in Creators \cup Loaders /\ phase = "running" /\ pc = "idle"
           /\ at \in 1 .. Len(Text(prog)) /\ Instr = Text(prog)[at] /\ Instr.op = op
<1>1. prog \in Creators \cup Loaders /\ phase = "running" /\ pc = "idle"
  BY DEF ProgramsInv, ProgInv, Life, Before
<1>2. prog # "none"
  BY <1>1 DEF Creators, Loaders
<1>3. Len(Text(prog)) \in Nat
  BY <1>1, Texts DEF Loaders
<1>4. QED
  BY <1>1, <1>2, <1>3 DEF ProgramsInv, ProgInv, Life, Before, Instr

\* Only a program that creates has calls that create.
LEMMA CreatorAt ==
    ASSUME ProgramsInv, NEW op \in {"create_dir", "create_file"}, Before(op)
    PROVE  /\ prog \in Creators /\ at \in 1 .. Len(Text(prog)) - 1
           /\ WellMade(prog, Text(prog), at)
           /\ Instr.name \in Names /\ (op = "create_file" => Instr.size \in Sizes /\ at > 1)
           /\ at = 1 => local[Instr.in] = NULL
           /\ at > 1 => local[Instr.in] \in Directories
<1>1. /\ prog \in Creators \cup Loaders /\ phase = "running"
      /\ at \in 1 .. Len(Text(prog)) /\ Instr = Text(prog)[at] /\ Instr.op = op
  BY Running
<1>2. prog \in Creators
  <2>1. ASSUME prog = "load_fs" PROVE FALSE
    BY <1>1, <2>1, Texts, LoadFsWell DEF Looks
  <2>2. ASSUME prog = "del_fs" PROVE FALSE
    BY <1>1, <2>2, Texts, DelFsWell DEF Deletes
  <2>3. QED
    BY <1>1, <2>1, <2>2 DEF Loaders
<1>3. PICK t : t = Text(prog)
  OBVIOUS
<1>4. WellMade(prog, t, at) /\ Len(t) \in 13 .. 15 /\ DOMAIN t = 1 .. Len(t)
  BY <1>1, <1>2, <1>3, Texts
<1>5. at \in 1 .. Len(t) - 1
  <2>1. t[at].op # "save" /\ at \in 1 .. Len(t)
    BY <1>1, <1>3
  <2>2. at # Len(t)
    BY <1>4, <2>1 DEF WellMade
  <2>3. PICK n \in 13 .. 15 : n = Len(t)
    BY <1>4
  <2>4. at \in 1 .. n /\ at # n
    BY <2>1, <2>2, <2>3
  <2>5. QED
    BY <2>3, <2>4
<1>6. Instr.name \in Names /\ (op = "create_file" => Instr.size \in Sizes)
  BY <1>1, <1>2, <1>3, <1>4, ProgramsAssumption
<1>7. at = 1 => op = "create_dir" /\ Instr.in = "NULL"
  BY <1>1, <1>3, <1>4 DEF WellMade
<1>8. at = 1 => local["NULL"] = NULL
  BY <1>2 DEF ProgramsInv, ProgInv, CreatorInv, NoLocals
<1>9. at > 1 => local[Instr.in] \in Directories
  <2>1. SUFFICES ASSUME at > 1 PROVE local[Instr.in] \in Directories
    OBVIOUS
  <2>2. PICK j \in 1 .. at - 1 : t[j].op = "create_dir" /\ t[j].var = Instr.in
    BY <1>1, <1>3, <1>4, <2>1 DEF WellMade
  <2>3. QED
    BY <1>2, <1>3, <2>2 DEF ProgramsInv, ProgInv, CreatorInv, PlacesMade
<1>10. QED
  BY <1>1, <1>2, <1>3, <1>4, <1>5, <1>6, <1>7, <1>8, <1>9

\* A directory has an address.
LEMMA DirectoryIsNotNull ==
    ASSUME DiskInv, InMemory
    PROVE  NULL \notin DOMAIN inode /\ NULL \notin Directories
BY RunningTree, InodeAssumption DEF TypeOK, Directories

\* create_dir makes the root, or a directory in one that is there.
LEMMA CreateDirIs ==
    ASSUME ProgramsInv, CreateDirCall
    PROVE  /\ \/ at = 1 /\ Perform(CreateRoot)
              \/ /\ at > 1 /\ local[Instr.in] \in Directories /\ Instr.name \in Names
                 /\ Perform(CreateDir(local[Instr.in], Instr.name))
           /\ Call
<1>1. Before("create_dir")
  BY DEF CreateDirCall
<1>2. /\ at = 1 => local[Instr.in] = NULL
      /\ at > 1 => local[Instr.in] \in Directories
      /\ at \in 1 .. Len(Text(prog)) /\ Instr.name \in Names /\ prog \in Creators
  BY <1>1, CreatorAt
<1>3. at \in Nat /\ at >= 1
  BY <1>2, Texts
<1>4. NULL \notin Directories
  BY <1>1, DirectoryIsNotNull DEF ProgramsInv, Before, InMemory
<1>5. \/ at = 1 /\ Perform(CreateRoot)
      \/ /\ at > 1 /\ local[Instr.in] \in Directories
         /\ Perform(CreateDir(local[Instr.in], Instr.name))
  BY <1>2, <1>3, <1>4 DEF CreateDirCall, Perform
<1>6. Call
  BY <1>2, <1>5 DEF Call, Perform, Next, Create
<1>7. QED
  BY <1>2, <1>5, <1>6

\* create_file begins to make a file in a directory that is there.
LEMMA CreateFileIs ==
    ASSUME ProgramsInv, CreateFileCall
    PROVE  /\ local[Instr.in] \in Directories /\ Instr.name \in Names /\ Instr.size \in Sizes
           /\ Perform(CreateFile(local[Instr.in], Instr.name, Instr.size))
           /\ Call
<1>1. Before("create_file") /\ Perform(CreateFile(local[Instr.in], Instr.name, Instr.size))
  BY DEF CreateFileCall
<1>2. local[Instr.in] \in Directories /\ Instr.name \in Names /\ Instr.size \in Sizes
  BY <1>1, CreatorAt
<1>3. Call
  BY <1>1, <1>2 DEF Call, Perform, Next, Create
<1>4. QED
  BY <1>1, <1>2, <1>3

\* What has been found in a directory by its name is what delete picks.
LEMMA PicksKnown ==
    ASSUME ProgramsInv, InMemory, pc = "idle", NEW w, NEW v, NEW name, In(w, v, name),
           PickToDelete(local[w], local[v])
    PROVE  /\ inode[root].is_directory /\ root # NULL /\ inode[local[v]].name = name
           /\ local[w] \in Directories /\ local[v] \in ChildrenOf(local[w])
           /\ local[v] \in Deletable(local[w])
           /\ child' = local[v] /\ parent' = local[w] /\ pc' = "freeing"
           /\ UNCHANGED <<bat, inode, root>>
<1>1. PICK p, n : p = local[w] /\ n = local[v]
  OBVIOUS
<1>2. PickToDelete(p, n) /\ In(w, v, name)
  BY <1>1
<1>3. /\ inode[n].children = <<>> /\ pc' = "freeing" /\ parent' = p
      /\ UNCHANGED <<bat, inode, root>>
  BY <1>2 DEF PickToDelete
<1>4. PICK q \in ChildrenOf(p) : FirstNamed(p, inode[n].name, q) /\ child' = q
  BY <1>2 DEF PickToDelete
<1>5. p \in DOMAIN inode /\ n \in DOMAIN inode
  BY <1>1, <1>2 DEF In, Is, Has
<1>6. root # NULL /\ GoodTree(inode, root)
  BY <1>5, RunningTree DEF ProgramsInv
<1>7. inode[root].is_directory
  <2> SUFFICES ASSUME ~inode[root].is_directory PROVE FALSE
      OBVIOUS
  <2>1. DOMAIN inode = {root} /\ Kids(inode, root) = {}
    BY <1>6, LoneFile
  <2>2. ChildrenOf(p) = {}
    BY <1>5, <2>1, KidsAreChildren
  <2>3. QED
    BY <1>4, <2>2
<1>8. n \in ChildrenOf(p) /\ inode[n].name = name
  BY <1>1, <1>2, <1>7 DEF In, Is
<1>9. inode[q].name = inode[n].name
  BY <1>4 DEF FirstNamed
<1>10. q = n /\ inode[n].name # inode[p].name
  BY <1>4, <1>5, <1>6, <1>8, <1>9, KidsAreChildren DEF GoodTree, TreeNames
<1>11. inode[p].is_directory
  BY <1>5, <1>6, <1>8 DEF GoodTree, TreeLinks, ChildrenOf
<1>12. n \in Linked
  BY <1>5, <1>8 DEF Linked
<1>13. inode[n].name \in Names
  BY <1>5, <1>6, GoodRecord
<1>14. FindInodeByName(p, inode[n].name, n)
  BY <1>4, <1>10, <1>11 DEF FindInodeByName
<1>15. n \in Deletable(p)
  BY <1>12, <1>13, <1>14 DEF Deletable
<1>16. QED
  BY <1>1, <1>3, <1>4, <1>5, <1>6, <1>7, <1>8, <1>10, <1>11, <1>15 DEF Directories

\* Only del_fs deletes, and it deletes what it has found.
LEMMA DeleterAt ==
    ASSUME ProgramsInv, DeleteCall
    PROVE  /\ prog = "del_fs" /\ phase = "running" /\ pc = "idle"
           /\ at \in 1 .. 40 /\ Instr = DelFs[at] /\ DelFacts /\ LogsKept
           /\ Instr.op \in {"delete_file", "delete_dir"} /\ Known(Instr)
<1>1. PICK op \in {"delete_file", "delete_dir"} : Before(op)
  BY DEF DeleteCall
<1>2. /\ prog \in Creators \cup Loaders /\ phase = "running" /\ pc = "idle"
      /\ at \in 1 .. Len(Text(prog)) /\ Instr = Text(prog)[at] /\ Instr.op = op
  BY <1>1, Running
<1>3. prog = "del_fs"
  <2>1. ASSUME prog = "load_fs" PROVE FALSE
    BY <1>2, <2>1, Texts, LoadFsWell DEF Looks
  <2>2. ASSUME prog \in Creators PROVE FALSE
    BY <1>2, <2>2, Texts DEF WellMade
  <2>3. QED
    BY <1>2, <2>1, <2>2 DEF Loaders
<1>4. DelFacts /\ LogsKept
  BY <1>2, <1>3 DEF ProgramsInv, ProgInv, LoaderInv, InMemory, Loaders
<1>5. at \in 1 .. 41 /\ Instr = DelFs[at] /\ (at = 41 => op = "save")
  BY <1>2, <1>3, Texts, DelFsWell DEF Deletes
<1>6. Known(Instr)
  BY <1>1, <1>2, <1>4, <1>5, KnownToDelete
<1>7. QED
  BY <1>1, <1>2, <1>3, <1>4, <1>5, <1>6


\* A call to delete is refused, or one of MasterFileTable.
LEMMA DeleteIs ==
    ASSUME ProgramsInv, DeleteCall, NEW name, In(Instr.in, Instr.var, name)
    PROVE  \/ Refused(local[Instr.in], local[Instr.var]) /\ UNCHANGED allVars
           \/ /\ Call /\ UNCHANGED <<bat, inode, root, mft, phase, saved>>
              /\ inode[local[Instr.var]].children = <<>>
              /\ inode[local[Instr.var]].is_directory <=> Instr.op = "delete_dir"
              /\ inode[root].is_directory /\ root # NULL
              /\ inode[local[Instr.var]].name = name
              /\ local[Instr.in] \in Directories
              /\ local[Instr.var] \in ChildrenOf(local[Instr.in])
              /\ child' = local[Instr.var] /\ parent' = local[Instr.in] /\ pc' = "freeing"
<1>1. PICK p, n, w, v : p = local[w] /\ n = local[v] /\ w = Instr.in /\ v = Instr.var
  OBVIOUS
<1>2. phase = "running" /\ pc = "idle" /\ InMemory
  BY DeleterAt DEF InMemory
<1>3. \/ Refused(p, n) /\ UNCHANGED allVars
      \/ Instr.op = "delete_file" /\ Perform(DeleteFile(p, n))
      \/ Instr.op = "delete_dir" /\ Perform(DeleteDir(p, n))
  BY <1>1 DEF DeleteCall, Before
<1>4. ASSUME Instr.op \in {"delete_file", "delete_dir"},
             PickToDelete(p, n), inode[n].is_directory <=> Instr.op = "delete_dir",
             Perform(DeleteFile(p, n)) \/ Perform(DeleteDir(p, n))
      PROVE  /\ Call /\ UNCHANGED <<bat, inode, root, mft, phase, saved>>
             /\ inode[n].children = <<>>
             /\ inode[n].is_directory <=> Instr.op = "delete_dir"
             /\ inode[root].is_directory /\ root # NULL /\ inode[n].name = name
             /\ p \in Directories /\ n \in ChildrenOf(p)
             /\ child' = n /\ parent' = p /\ pc' = "freeing"
  <2>1. /\ inode[root].is_directory /\ root # NULL /\ inode[n].name = name
        /\ p \in Directories /\ n \in ChildrenOf(p) /\ n \in Deletable(p)
        /\ child' = n /\ parent' = p /\ pc' = "freeing"
        /\ UNCHANGED <<bat, inode, root>>
    BY <1>1, <1>2, <1>4, PicksKnown
  <2>2. Call
    BY <1>4, <2>1 DEF Call, Perform, Next, Delete
  <2>3. UNCHANGED <<mft, phase, saved>>
    BY <1>4 DEF Perform
  <2>4. inode[n].children = <<>>
    BY <1>4 DEF PickToDelete
  <2>5. QED
    BY <1>4, <2>1, <2>2, <2>3, <2>4
<1>5. CASE Instr.op = "delete_file" /\ Perform(DeleteFile(p, n))
  <2>1. PickToDelete(p, n) /\ ~inode[n].is_directory
    BY <1>5 DEF Perform, DeleteFile
  <2>2. QED
    BY <1>1, <1>4, <1>5, <2>1
<1>6. CASE Instr.op = "delete_dir" /\ Perform(DeleteDir(p, n))
  <2>1. PickToDelete(p, n) /\ inode[n].is_directory
    BY <1>6 DEF Perform, DeleteDir
  <2>2. QED
    BY <1>1, <1>4, <1>6, <2>1
<1>7. QED
  BY <1>1, <1>3, <1>5, <1>6

\* Every step of a program is one of MasterFileTable, or changes nothing there.
LEMMA StepIsDiskStep ==
    ASSUME ProgramsInv, [ProgramsNext]_programVars
    PROVE  [DiskNext]_allVars
<1>1. CASE UNCHANGED programVars
  BY <1>1 DEF programVars
<1>2. ASSUME NEW p \in Creators \cup Loaders, Start(p) PROVE DiskNext
  BY <1>2 DEF Start, DiskNext
<1>3. CASE Load
  BY <1>3 DEF Load, DiskNext, ProgramStep
<1>4. CASE CreateDirCall
  BY <1>4, CreateDirIs DEF DiskNext
<1>5. CASE CreateFileCall
  BY <1>5, CreateFileIs DEF DiskNext
<1>6. CASE FindCall
  BY <1>6 DEF FindCall
<1>7. CASE DeleteCall
  <2>1. PICK name : In(Instr.in, Instr.var, name)
    BY <1>7, DeleterAt DEF Known
  <2>2. QED
    BY <1>7, <2>1, DeleteIs DEF DiskNext
<1>8. CASE InCall
  BY <1>8 DEF InCall, Perform, DiskNext, Call, Next
<1>9. CASE SaveCall
  BY <1>9 DEF SaveCall, DiskNext, ProgramStep, allVars
<1>10. CASE End
  <2>1. ~dirty
    <3>1. phase = "running" /\ at > Len(Text(prog)) /\ prog # "none"
      BY <1>10 DEF End, Quit
    <3>2. Len(Text(prog)) \in Nat
      BY <3>1, Texts DEF ProgramsInv, ProgInv, Life, Loaders
    <3>3. QED
      BY <3>1, <3>2 DEF ProgramsInv, ProgInv, Life
  <2>2. QED
    BY <1>10, <2>1 DEF End, Shutdown, DiskNext
<1>11. CASE Killed
  BY <1>11 DEF Killed, DiskNext
<1>12. CASE FormatDisk
  BY <1>12 DEF FormatDisk, DiskNext
<1>13. QED
  BY <1>1, <1>2, <1>3, <1>4, <1>5, <1>6, <1>7, <1>8, <1>9, <1>10, <1>11, <1>12
     DEF ProgramsNext, Program, DebugDisk

-------------------------------------------------------------------------------
(* Programs begin, load, save and end *)

\* The invariant of the programs holds when none has run.
LEMMA InitProgInv == ProgramsInit => ProgInv
<1> SUFFICES ASSUME ProgramsInit PROVE ProgInv
    OBVIOUS
<1>1. phase = "down" /\ mft = <<>> /\ prog = "none" /\ at = 1 /\ local = NoLocals
  BY DEF ProgramsInit, DiskInit, NoProcess
<1>2. prog \notin Creators /\ prog \notin Loaders
  BY <1>1 DEF Creators, Loaders
<1>3. Life /\ SavedOK
  BY <1>1 DEF Life, SavedOK
<1>4. QED
  BY <1>1, <1>2, <1>3 DEF ProgInv, CreatorInv, LoaderInv, InMemory

\* What a program starts from.
LEMMA AtStart ==
    ASSUME ProgramsInv, phase = "down"
    PROVE  /\ prog = "none" /\ at = 1 /\ local = NoLocals /\ pc = "idle" /\ child = NULL
           /\ inode = NoInodes /\ root = NULL /\ ~dirty /\ Directories = {}
<1>1. /\ pc = "idle" /\ child = NULL /\ inode = NoInodes /\ root = NULL /\ ~dirty
  BY DEF ProgramsInv, DiskInv, DownInv, AtRest
<1>2. prog = "none" /\ at = 1 /\ local = NoLocals
  BY DEF ProgramsInv, ProgInv, Life
<1>3. Directories = {}
  BY <1>1 DEF Directories, NoInodes
<1>4. QED
  BY <1>1, <1>2, <1>3

\* A program that creates starts with no tree.
LEMMA StartCreateProg ==
    ASSUME ProgramsInv, NEW p \in Creators, StartCreate, UNCHANGED local,
           prog' = p, at' = at
    PROVE  ProgInv'
<1>1. /\ prog = "none" /\ at = 1 /\ local = NoLocals /\ pc = "idle" /\ child = NULL
      /\ inode = NoInodes /\ root = NULL /\ ~dirty /\ Directories = {}
  BY AtStart DEF StartCreate
<1>2. /\ phase' = "formatting" /\ UNCHANGED <<mft, saved>>
      /\ UNCHANGED <<inode, root, pc, child>> /\ p \notin Loaders /\ p # "none" /\ p # "load_fs"
  BY DEF StartCreate, memory, Creators, Loaders
<1>3. PICK n \in 13 .. 15 : n = Len(Text(p))
  BY Texts
<1>4. Life'
  BY <1>1, <1>2, <1>3 DEF Life
<1>5. SavedOK' /\ (InMemory => TopNamed(inode, root))'
  BY <1>1, <1>2 DEF ProgramsInv, ProgInv, SavedOK, TopNamed
<1>6. LoaderInv'
  BY <1>2 DEF LoaderInv
<1>7. CreatorInv'
  <2>1. PlacesMade'
    BY <1>1 DEF PlacesMade
  <2>2. Directories' = {}
    BY <1>1, <1>2 DEF Directories
  <2>3. QED
    BY <1>1, <1>2, <2>1, <2>2 DEF CreatorInv
<1>8. QED
  BY <1>4, <1>5, <1>6, <1>7 DEF ProgInv

\* Its calls begin on an empty disk.
LEMMA FormatProg ==
    ASSUME ProgramsInv, FormatDisk
    PROVE  ProgInv'
<1>1. /\ phase = "formatting" /\ phase' = "running" /\ bat' = FormattedTable /\ dirty'
      /\ UNCHANGED <<inode, root, pc, child, mft, saved, prog, at, local>>
  BY DEF FormatDisk, Format, memory, progVars
<1>2. /\ prog \in Creators /\ prog \notin Loaders /\ prog # "none" /\ prog # "load_fs"
      /\ at = 1 /\ local = NoLocals
  BY <1>1 DEF ProgramsInv, ProgInv, Life, Creators, Loaders
<1>3. root = NULL /\ pc = "idle"
  BY <1>2 DEF ProgramsInv, ProgInv, CreatorInv
<1>4. PICK n \in 13 .. 15 : n = Len(Text(prog))
  BY <1>2, Texts
<1>5. Life'
  BY <1>1, <1>2, <1>3, <1>4 DEF Life
<1>6. SavedOK' /\ (InMemory => TopNamed(inode, root))'
  BY <1>1, <1>3 DEF ProgramsInv, ProgInv, SavedOK, TopNamed
<1>7. LoaderInv'
  BY <1>1, <1>2 DEF LoaderInv
<1>8. CreatorInv'
  <2>1. PlacesMade'
    BY <1>1, <1>2 DEF PlacesMade
  <2>2. Directories' = Directories
    BY <1>1 DEF Directories
  <2>3. LogMade'
    <3>1. Taken(0)'
      BY <1>1 DEF Taken, FormattedTable, Blocks
    <3>2. QED
      BY <1>1, <1>2, <1>3, <3>1 DEF LogMade
  <2>4. QED
    BY <1>1, <1>2, <1>3, <2>1, <2>2, <2>3 DEF ProgramsInv, ProgInv, CreatorInv
<1>9. QED
  BY <1>5, <1>6, <1>7, <1>8 DEF ProgInv

\* At its first place del_fs knows nothing.
LEMMA NothingKnown == at' \in {1, 3, 13, 17, 20, 23, 30, 41, 42} => DelFacts'
BY DEF DelFacts

\* A variable is set.
LEMMA SetEffect ==
    ASSUME NEW var, NEW x, local' = Set(var, x)
    PROVE  /\ DOMAIN local' = DOMAIN local \cup {var} /\ local'[var] = x
           /\ \A v \in DOMAIN local \ {var} : local'[v] = local[v]
           /\ \A v : v \in DOMAIN local => v \in DOMAIN local'
BY DEF Set

\* A program that finds the master file table empty has no directory.
LEMMA LoadEmptyProg ==
    ASSUME ProgramsInv, NEW p \in Loaders, LoadEmpty, local' = Set("root", root'),
           prog' = p, at' = at
    PROVE  ProgInv'
<1>1. /\ prog = "none" /\ at = 1 /\ local = NoLocals /\ pc = "idle" /\ child = NULL
      /\ inode = NoInodes /\ root = NULL /\ ~dirty /\ Directories = {}
  BY AtStart DEF LoadEmpty
<1>2. /\ phase' = "running" /\ UNCHANGED <<pc, child, dirty, mft, saved>> /\ mft = <<>>
      /\ p \notin Creators /\ p # "none"
  BY DEF LoadEmpty, disk, Creators, Loaders
<1>3. Directories' = {} /\ (root' # NULL => ~inode'[root'].is_directory)
  <2>1. CASE UNCHANGED <<inode, root>>
    BY <1>1, <2>1 DEF Directories
  <2>2. ASSUME NEW new \in Ptr, NEW name \in Names, inode' = With(new, Unread(name)), root' = new
        PROVE  Directories' = {} /\ ~inode'[root'].is_directory
    <3>1. DOMAIN inode' = {new} /\ inode'[new] = Unread(name)
      BY <1>1, <2>2 DEF With, NoInodes
    <3>2. ~inode'[new].is_directory
      BY <3>1 DEF Unread, NewFile
    <3>3. QED
      BY <2>2, <3>1, <3>2 DEF Directories
  <2>3. QED
    BY <2>1, <2>2 DEF LoadEmpty
<1>4. Len(Text(p)) \in Nat
  BY Texts DEF Loaders
<1>5. Life'
  BY <1>1, <1>2, <1>4 DEF Life
<1>6. SavedOK' /\ (InMemory => TopNamed(inode, root))'
  BY <1>2, <1>3 DEF SavedOK, TopNamed
<1>7. CreatorInv'
  BY <1>2 DEF CreatorInv
<1>8. LoaderInv'
  <2>1. LogsKept'
    BY <1>1, <1>2, <1>3 DEF LogsKept
  <2>2. DelFacts'
    BY <1>1, NothingKnown
  <2>3. "root" \in DOMAIN local' /\ local'["root"] = root'
    BY SetEffect
  <2>4. QED
    BY <1>1, <1>2, <2>1, <2>2, <2>3 DEF LoaderInv
<1>9. QED
  BY <1>5, <1>6, <1>7, <1>8 DEF ProgInv

\* Every way a program starts.
LEMMA StartProg ==
    ASSUME ProgramsInv, NEW p \in Creators \cup Loaders, Start(p)
    PROVE  ProgInv'
<1>1. prog' = p /\ at' = at
  BY DEF Start
<1>2. CASE p \in Creators /\ StartCreate /\ UNCHANGED local
  BY <1>1, <1>2, StartCreateProg
<1>3. CASE p \in Loaders /\ LoadOpen /\ UNCHANGED local
  <2>1. /\ prog = "none" /\ at = 1 /\ local = NoLocals /\ ~dirty
    BY <1>3, AtStart DEF LoadOpen
  <2>2. /\ phase' = "loading" /\ UNCHANGED <<mft, saved>> /\ p \notin Creators /\ p # "none"
    BY <1>3 DEF LoadOpen, disk, Creators, Loaders
  <2>3. Len(Text(p)) \in Nat
    BY <1>3, Texts DEF Loaders
  <2>4. Life' /\ SavedOK'
    BY <1>1, <1>3, <2>1, <2>2, <2>3 DEF Life, ProgramsInv, ProgInv, SavedOK
  <2>5. QED
    BY <1>1, <2>2, <2>4 DEF ProgInv, CreatorInv, LoaderInv, InMemory
<1>4. CASE p \in Loaders /\ LoadEmpty /\ local' = Set("root", root')
  BY <1>1, <1>4, LoadEmptyProg
<1>5. QED
  BY <1>2, <1>3, <1>4 DEF Start

\* The first record of a complete master file table is that of the root.
LEMMA FirstRecord ==
    ASSUME NEW h, NEW r, NEW T, NEW file, Written(h, r, T, file), T[Len(file)] = <<>>
    PROVE  r \in DOMAIN h /\ file # <<>> /\ file[1].is_directory = h[r].is_directory
<1>1. PICK n \in Nat : n = Len(file)
  BY DEF Written
<1>2. T[0] = <<r>> /\ r \in DOMAIN h
  BY DEF Written, Walk, GoodTree
<1>3. n # 0
  <2> SUFFICES ASSUME n = 0 PROVE FALSE
      OBVIOUS
  <2>1. T[0] = <<>>
    BY <1>1
  <2>2. <<r>> # <<>>
    OBVIOUS
  <2>3. QED
    BY <1>2, <2>1, <2>2
<1>4. 1 \in 1 .. Len(file) /\ file # <<>>
  BY <1>1, <1>3
<1>5. file[1] = RecordOf(h[Head(T[0])])
  BY <1>4 DEF Written
<1>6. QED
  BY <1>2, <1>4, <1>5 DEF RecordOf

\* The tree that has been loaded is that on disk: a directory log in it is not
\* empty, and the root is called "/".
LEMMA LoadedIsSaved ==
    ASSUME ProgramsInv, LoadClose, DiskInv'
    PROVE  /\ LogsFull(inode') /\ TopNamed(inode', root')
           /\ inode'[root'].is_directory = mft'[1].is_directory
<1>1. /\ phase = "loading" /\ phase' = "running" /\ UNCHANGED <<mft, saved, dirty>> /\ ~dirty
  BY DEF LoadClose, disk, ProgramsInv, DiskInv, LoadInv, AtRest
<1>2. PICK T : Complete(saved.inode, saved.root, T, mft)
  BY <1>1 DEF ProgramsInv, DiskInv, LoadInv
<1>3. PICK h, r : h = saved.inode /\ r = saved.root
  OBVIOUS
<1>4. r \in DOMAIN h /\ mft # <<>> /\ mft[1].is_directory = h[r].is_directory
  BY <1>2, <1>3, FirstRecord DEF Complete
<1>5. PICK m \in Bijections(DOMAIN h, DOMAIN inode') : IsCopy(m)'
  BY <1>1, <1>3, <1>4 DEF DiskInv, LoadRestoresTree
<1>6. /\ m \in [DOMAIN h -> DOMAIN inode'] /\ \A t \in DOMAIN inode' : \E s \in DOMAIN h : m[s] = t
  BY <1>5 DEF Bijections
<1>7. m[r] = root'
  BY <1>1, <1>3, <1>5 DEF IsCopy
<1>8. ASSUME NEW s \in DOMAIN h
      PROVE  /\ inode'[m[s]].name = h[s].name
             /\ inode'[m[s]].is_directory = h[s].is_directory
             /\ inode'[m[s]].children = [i \in DOMAIN h[s].children |-> m[h[s].children[i]]]
  BY <1>1, <1>3, <1>5 DEF IsCopy
<1>9. LogsFull(h) /\ TopNamed(h, r)
  BY <1>3, <1>4 DEF ProgramsInv, ProgInv, SavedOK
<1>10. GoodTree(h, r)
  BY <1>2, <1>3 DEF Complete, Written
<1>11. ASSUME NEW t \in DOMAIN inode', inode'[t].is_directory, inode'[t].name = "log"
       PROVE  inode'[t].children # <<>>
  <2>1. PICK s \in DOMAIN h : m[s] = t
    BY <1>6
  <2>2. h[s].children # <<>> /\ h[s].children \in Seq(Ptr)
    BY <1>8, <1>9, <1>10, <1>11, <2>1, GoodRecord DEF LogsFull
  <2>3. DOMAIN h[s].children # {}
    <3> SUFFICES ASSUME DOMAIN h[s].children = {} PROVE FALSE
        OBVIOUS
    <3>1. PICK list \in Seq(Ptr) : list = h[s].children
      BY <2>2
    <3>2. PICK n \in Nat : n = Len(list) /\ DOMAIN list = 1 .. n
      OBVIOUS
    <3>3. n = 0
      BY <3>1, <3>2
    <3>4. list = <<>>
      BY <3>2, <3>3
    <3>5. QED
      BY <2>2, <3>1, <3>4
  <2>4. DOMAIN inode'[t].children = DOMAIN h[s].children
    BY <1>8, <2>1
  <2>5. QED
    BY <2>3, <2>4
<1>12. r # NULL
  BY <1>4, <1>10, InodeAssumption DEF GoodTree
<1>13. TopNamed(inode', root')
  BY <1>4, <1>7, <1>8, <1>9, <1>12 DEF TopNamed
<1>14. QED
  BY <1>1, <1>4, <1>7, <1>8, <1>11, <1>13 DEF LogsFull

\* Loading.
LEMMA LoadProg ==
    ASSUME ProgramsInv, Load, DiskInv'
    PROVE  ProgInv'
<1>1. /\ prog \in Loaders /\ prog \notin Creators /\ at = 1 /\ local = NoLocals
      /\ phase = "loading" /\ UNCHANGED <<prog, at, mft, saved>> /\ prog # "none"
      /\ pc = "idle" /\ child = NULL /\ ~dirty
  BY DEF ProgramsInv, ProgInv, Life, Load, LoadInode, LoadClose, disk, progVars,
         Creators, Loaders, DiskInv, LoadInv, AtRest
<1>2. CASE LoadInode /\ UNCHANGED progVars
  <2>1. phase' = "loading" /\ local' = local /\ dirty' = dirty
    BY <1>1, <1>2 DEF LoadInode, progVars
  <2>2. Life' /\ SavedOK'
    BY <1>1, <2>1 DEF ProgramsInv, ProgInv, Life, SavedOK
  <2>3. QED
    BY <1>1, <2>1, <2>2 DEF ProgInv, CreatorInv, LoaderInv, InMemory
<1>3. CASE LoadClose /\ local' = Set("root", root)
  <2>1. /\ phase' = "running" /\ UNCHANGED <<inode, root, pc, child, dirty>>
    BY <1>3 DEF LoadClose, memory
  <2>2. LogsFull(inode') /\ TopNamed(inode', root') /\ inode'[root'].is_directory = mft'[1].is_directory
    BY <1>3, LoadedIsSaved
  <2>3. Life' /\ SavedOK'
    BY <1>1, <2>1 DEF ProgramsInv, ProgInv, Life, SavedOK
  <2>4. LogsKept'
    BY <1>1, <2>1, <2>2 DEF LogsKept, LogsFull, Directories
  <2>5. DelFacts'
    BY <1>1, NothingKnown
  <2>6. "root" \in DOMAIN local' /\ local'["root"] = root'
    BY <1>3, <2>1, SetEffect
  <2>7. LoaderInv'
    BY <1>1, <2>1, <2>2, <2>4, <2>5, <2>6 DEF LoaderInv
  <2>8. QED
    BY <1>1, <2>2, <2>3, <2>7 DEF ProgInv, CreatorInv
<1>4. QED
  BY <1>2, <1>3 DEF Load

\* The end, and a kill.
LEMMA EndProg ==
    ASSUME ProgramsInv, Exit, Gone, UNCHANGED <<mft, saved>>
    PROVE  ProgInv'
<1>1. /\ phase' = "down" /\ prog' = "none" /\ at' = 1 /\ local' = NoLocals
      /\ UNCHANGED <<mft, saved>> /\ ~dirty'
  BY DEF Exit, Gone
<1>2. prog' \notin Creators /\ prog' \notin Loaders
  BY <1>1 DEF Creators, Loaders
<1>3. Life' /\ SavedOK'
  BY <1>1 DEF ProgramsInv, ProgInv, Life, SavedOK
<1>4. QED
  BY <1>1, <1>2, <1>3 DEF ProgInv, CreatorInv, LoaderInv, InMemory

\* What is known of the programs depends on these variables only.
LEMMA SameProg ==
    ASSUME ProgInv, UNCHANGED <<bat, inode, root, pc, parent, child, mft, saved, phase, dirty>>,
           UNCHANGED <<prog, at, local>>
    PROVE  ProgInv'
<1>1. Life' /\ SavedOK'
  BY DEF ProgInv, Life, SavedOK
<1>2. Directories' = Directories
  BY DEF Directories
<1>3. CreatorInv'
  <2>1. PlacesMade => PlacesMade'
    BY <1>2 DEF PlacesMade
  <2>2. LogMade => LogMade'
    BY DEF LogMade, Filling, Taken
  <2>3. QED
    BY <1>2, <2>1, <2>2 DEF ProgInv, CreatorInv
<1>4. LoaderInv'
  <2>1. DelFacts => DelFacts'
    <3>1. \A v, name : Is(v, name)' <=> Is(v, name)
      BY DEF Is, Has
    <3>2. \A w, v, name : In(w, v, name)' <=> In(w, v, name)
      BY DEF In, Is, Has, ChildrenOf
    <3>3. QED
      BY <3>1, <3>2 DEF DelFacts
  <2>2. LogsKept => LogsKept'
    BY <1>2 DEF LogsKept, LogAtWork
  <2>3. QED
    BY <2>1, <2>2 DEF ProgInv, LoaderInv, InMemory
<1>5. (InMemory => TopNamed(inode, root))'
  BY DEF ProgInv, InMemory, TopNamed
<1>6. QED
  BY <1>1, <1>3, <1>4, <1>5 DEF ProgInv

\* Programs save at the end of their texts, and those that create have a root
\* then.
LEMMA SaverAt ==
    ASSUME ProgramsInv, Before("save")
    PROVE  /\ prog \in Creators \cup {"del_fs"} /\ phase = "running" /\ pc = "idle"
           /\ at = Len(Text(prog)) /\ at \in 13 .. 41 /\ (prog = "del_fs" => at = 41)
           /\ prog = "create_fs_2" => at = 14
           /\ Text(prog)[at].op = "save" /\ (prog \in Creators => root # NULL)
<1>1. /\ prog \in Creators \cup Loaders /\ phase = "running" /\ pc = "idle"
      /\ at \in 1 .. Len(Text(prog)) /\ Text(prog)[at].op = "save"
  BY Running
<1>2. prog # "load_fs"
  BY <1>1, Texts, LoadFsWell DEF Looks
<1>3. prog \in Creators \cup {"del_fs"}
  BY <1>1, <1>2 DEF Loaders
<1>4. CASE prog = "del_fs"
  <2>1. Text(prog) = DelFs /\ Len(Text(prog)) = 41
    BY <1>4, Texts
  <2>2. at \in 1 .. 41 /\ DelFs[at].op = "save"
    BY <1>1, <2>1
  <2>3. at = 41
    BY <2>2, Texts, DelFsWell DEF Deletes
  <2>4. prog \notin Creators /\ prog # "create_fs_2"
    BY <1>4 DEF Creators
  <2>5. QED
    BY <1>1, <1>3, <2>1, <2>3, <2>4
<1>5. CASE prog \in Creators
  <2>1. PICK t : t = Text(prog)
    OBVIOUS
  <2>0. PICK n \in 13 .. 15 : n = Len(t)
    BY <1>5, <2>1, Texts
  <2>2. \A k \in 1 .. n : WellMade(prog, t, k)
    BY <1>5, <2>0, <2>1, Texts
  <2>3. at = n
    BY <1>1, <2>0, <2>1, <2>2 DEF WellMade
  <2>4. WellMade(prog, t, 1)
    BY <2>2
  <2>5. t[1].op = "create_dir" /\ 1 \in 1 .. at - 1
    BY <2>3, <2>4 DEF WellMade
  <2>6. Directories # {}
    BY <1>5, <2>1, <2>5 DEF ProgramsInv, ProgInv, CreatorInv, PlacesMade
  <2>7. root # NULL
    BY <1>1, <2>6, RunningTree DEF ProgramsInv, InMemory, Directories
  <2>8. prog # "del_fs"
    BY <1>5 DEF Creators
  <2>9. prog = "create_fs_2" => at = 14
    <3>1. prog = "create_fs_2" => Len(t) = 14
      BY <2>1, Texts
    <3>2. QED
      BY <2>0, <2>3, <3>1
  <2>10. at \in 13 .. 41
    BY <2>3
  <2>12. at = Len(t)
    BY <2>0, <2>3, Zenon
  <2>11. QED
    BY <1>1, <1>3, <2>1, <2>7, <2>8, <2>9, <2>10, <2>12
<1>6. QED
  BY <1>1, <1>3, <1>4, <1>5

\* The call to save_inodes is made.
LEMMA SaveOpenProg ==
    ASSUME ProgramsInv, Before("save"), Advance, UNCHANGED local,
           UNCHANGED <<bat, inode, root, pc, parent, child, dirty, saved>>,
           \/ phase' = "saving" /\ mft' = <<>> /\ root # NULL
           \/ phase' = phase /\ mft' = mft /\ root = NULL
    PROVE  ProgInv'
<1>1. /\ prog \in Creators \cup {"del_fs"} /\ phase = "running" /\ pc = "idle"
      /\ at = Len(Text(prog)) /\ at \in 13 .. 41 /\ (prog = "del_fs" => at = 41)
      /\ prog = "create_fs_2" => at = 14
      /\ Text(prog)[at].op = "save" /\ (prog \in Creators => root # NULL)
  BY SaverAt
<1>2. at' = at + 1 /\ prog' = prog /\ local' = local
  BY DEF Advance
<1>3. Directories' = Directories /\ InMemory /\ InMemory'
  BY <1>1 DEF Directories, InMemory
<1>4. prog # "none" /\ prog # "load_fs" /\ (prog = "del_fs" <=> prog \in Loaders)
  BY <1>1 DEF Creators, Loaders
<1>5. root = NULL => ~dirty
  BY <1>1, <1>3, <1>4 DEF ProgramsInv, ProgInv, LoaderInv
<1>6. Life'
  <2>1. phase' \in {"saving", "running"} /\ pc' = "idle" /\ dirty' = dirty
    BY <1>1
  <2>2. prog \in Creators \cup Loaders \cup {"none"} /\ at' \in 1 .. Len(Text(prog)) + 1
    BY <1>1, <1>2 DEF Loaders
  <2>3. phase' = "saving" => at' = Len(Text(prog')) + 1 /\ prog' # "load_fs"
    BY <1>1, <1>2, <1>4
  <2>4. phase' = "running" => ~dirty'
    BY <1>1, <1>5
  <2>5. QED
    BY <1>1, <1>2, <1>4, <2>1, <2>2, <2>3, <2>4 DEF Life
<1>7. SavedOK'
  BY DEF ProgramsInv, ProgInv, SavedOK
<1>8. CreatorInv'
  <2> SUFFICES ASSUME prog \in Creators PROVE CreatorInv'
      BY <1>2 DEF CreatorInv
  <2>1. PlacesMade'
    <3>1. PICK t : t = Text(prog)
      OBVIOUS
    <3>2. ASSUME NEW k \in 1 .. at, t[k].op = "create_dir"
          PROVE  t[k].var \in DOMAIN local /\ local[t[k].var] \in Directories
      <4>1. k # at
        BY <1>1, <3>1, <3>2
      <4>2. k \in 1 .. at - 1
        BY <1>1, <4>1
      <4>3. QED
        BY <3>1, <3>2, <4>2 DEF ProgramsInv, ProgInv, CreatorInv, PlacesMade
    <3>3. at' - 1 = at
      BY <1>1, <1>2
    <3>4. QED
      BY <1>2, <1>3, <3>1, <3>2, <3>3 DEF PlacesMade
  <2>2. prog = "create_fs_2" => LogMade'
    <3> SUFFICES ASSUME prog = "create_fs_2" PROVE LogMade'
        OBVIOUS
    <3>0. at = 14
      BY <1>1
    <3>1. at = 14 /\ at' = 15
      BY <1>2, <3>0
    <3>2. LogMade
      BY <1>1 DEF ProgramsInv, ProgInv, CreatorInv
    <3>3. QED
      BY <1>2, <3>1, <3>2 DEF LogMade
  <2>3. \A p \in Directories' :
            inode'[p].name = "log" => prog' = "create_fs_2" /\ at' > 6 /\ p = local'["log"]
    BY <1>1, <1>2, <1>3 DEF ProgramsInv, ProgInv, CreatorInv
  <2>4. QED
    BY <1>1, <1>2, <2>1, <2>2, <2>3 DEF CreatorInv
<1>9. LoaderInv'
  <2> SUFFICES ASSUME prog = "del_fs" PROVE LoaderInv'
      BY <1>2, <1>4 DEF LoaderInv
  <2>last. at = 41
    BY <1>1
  <2>0. at = 41 /\ at' = 42
    BY <1>2, <2>last
  <2>1. DelFacts'
    BY <2>0, NothingKnown
  <2>2. LogsKept'
    <3>1. LogsKept
      BY <1>3, <1>4 DEF ProgramsInv, ProgInv, LoaderInv
    <3>2. \A p : ~LogAtWork(p)
      BY <2>0 DEF LogAtWork
    <3>3. QED
      BY <1>1, <1>3, <3>1, <3>2 DEF LogsKept
  <2>3. QED
    BY <1>1, <1>2, <1>3, <1>4, <2>1, <2>2 DEF ProgramsInv, ProgInv, LoaderInv
<1>10. QED
  BY <1>1, <1>3, <1>6, <1>7, <1>8, <1>9 DEF ProgramsInv, ProgInv, TopNamed

\* What is on disk when the file is closed is the tree in memory.
LEMMA SaveCloseProg ==
    ASSUME ProgramsInv, SaveClose, UNCHANGED <<prog, at, local>>
    PROVE  ProgInv'
<1>1. /\ phase = "saving" /\ phase' = "running" /\ ~dirty' /\ mft' = stream
      /\ UNCHANGED <<bat, inode, root, pc, parent, child>>
      /\ saved' = [inode |-> inode, root |-> root]
  BY DEF SaveClose, memory
<1>2. InMemory /\ InMemory' /\ Directories' = Directories
  BY <1>1 DEF InMemory, Directories
<1>3. /\ prog \in Creators \cup {"del_fs"} /\ at = Len(Text(prog)) + 1
      /\ prog # "none" /\ (prog \in Creators => prog \notin Loaders)
  BY <1>1 DEF ProgramsInv, ProgInv, Life, Creators, Loaders
<1>4. prog = "del_fs" => at = 42
  <2> SUFFICES ASSUME prog = "del_fs" PROVE at = 42
      OBVIOUS
  <2>1. Len(Text(prog)) = 41
    BY Texts
  <2>2. at = Len(Text(prog)) + 1
    BY <1>3
  <2>3. QED
    BY <2>1, <2>2
<1>5. prog = "create_fs_2" => at = 15
  <2> SUFFICES ASSUME prog = "create_fs_2" PROVE at = 15
      OBVIOUS
  <2>1. Len(Text(prog)) = 14
    BY Texts
  <2>2. at = Len(Text(prog)) + 1
    BY <1>3
  <2>3. QED
    BY <2>1, <2>2
<1>6. pc = "idle" /\ child = NULL /\ root # NULL /\ NULL \notin Directories
  BY <1>1, <1>2, RunningTree, DirectoryIsNotNull DEF ProgramsInv, DiskInv, SaveInv, TypeOK
<1>7. LogsFull(inode)
  <2> SUFFICES ASSUME NEW p \in Directories, inode[p].name = "log"
               PROVE  inode[p].children # <<>>
      BY DEF LogsFull, Directories
  <2>1. CASE prog = "del_fs"
    <3>1. LogsKept
      BY <1>2, <2>1 DEF ProgramsInv, ProgInv, LoaderInv, Loaders
    <3>2. ~LogAtWork(p)
      BY <1>4, <2>1 DEF LogAtWork
    <3>3. QED
      BY <1>6, <3>1, <3>2 DEF LogsKept
  <2>2. CASE prog \in Creators
    <3>1. prog = "create_fs_2" /\ p = local["log"]
      BY <2>2 DEF ProgramsInv, ProgInv, CreatorInv
    <3>2. LogMade /\ at > 9
      BY <1>1, <1>5, <2>2, <3>1 DEF ProgramsInv, ProgInv, CreatorInv
    <3>3. QED
      BY <3>1, <3>2 DEF LogMade
  <2>3. QED
    BY <1>3, <2>1, <2>2
<1>8. SavedOK'
  BY <1>1, <1>2, <1>7 DEF ProgramsInv, ProgInv, SavedOK
<1>9. Life'
  BY <1>1, <1>3, <1>6 DEF ProgramsInv, ProgInv, Life
<1>10. CreatorInv'
  <2>1. PlacesMade => PlacesMade'
    BY <1>2 DEF PlacesMade
  <2>2. LogMade => LogMade'
    BY <1>1 DEF LogMade, Filling, Taken
  <2>3. QED
    BY <1>1, <1>2, <2>1, <2>2 DEF ProgramsInv, ProgInv, CreatorInv
<1>11. LoaderInv'
  <2> SUFFICES ASSUME prog = "del_fs" PROVE LoaderInv'
      BY <1>3 DEF LoaderInv
  <2>1. DelFacts'
    BY <1>4, NothingKnown
  <2>2. LogsKept'
    BY <1>1, <1>2, <1>3, <1>6, <1>7 DEF LogsKept, LogsFull, Directories
  <2>3. inode[root].is_directory = stream[1].is_directory
    <3>1. PICK T : Written(inode, root, T, stream) /\ T[Len(stream)] = todo
      BY <1>1 DEF ProgramsInv, DiskInv, SaveInv
    <3>2. todo = <<>>
      BY DEF SaveClose
    <3>3. QED
      BY <3>1, <3>2, FirstRecord
  <2>4. prog \in Loaders
    BY DEF Loaders
  <2>5. QED
    BY <1>1, <1>2, <1>3, <1>6, <2>1, <2>2, <2>3, <2>4 DEF ProgramsInv, ProgInv, LoaderInv
<1>12. QED
  BY <1>1, <1>2, <1>8, <1>9, <1>10, <1>11 DEF ProgramsInv, ProgInv

\* Saving.
LEMMA SaveProg ==
    ASSUME ProgramsInv, SaveCall
    PROVE  ProgInv'
<1>1. CASE Before("save") /\ SaveOpen /\ Advance /\ UNCHANGED local
  BY <1>1, SaveOpenProg DEF SaveOpen, memory
<1>2. CASE Before("save") /\ root = NULL /\ UNCHANGED <<allVars, local>> /\ Advance
  BY <1>2, SaveOpenProg DEF allVars, vars
<1>3. CASE SaveInode /\ UNCHANGED progVars
  BY <1>3, SameProg DEF SaveInode, memory, disk, progVars, ProgramsInv
<1>4. CASE SaveClose /\ UNCHANGED progVars
  BY <1>4, SaveCloseProg DEF progVars
<1>5. QED
  BY <1>1, <1>2, <1>3, <1>4 DEF SaveCall

-------------------------------------------------------------------------------
(* Programs look *)

\* Nobody but a program that loads looks for an inode.
LEMMA SearcherAt ==
    ASSUME ProgramsInv, Before("find")
    PROVE  /\ prog \in Loaders /\ phase = "running" /\ pc = "idle"
           /\ at \in 1 .. Len(Text(prog)) /\ Instr = Text(prog)[at] /\ Instr.op = "find"
<1>1. /\ prog \in Creators \cup Loaders /\ phase = "running" /\ pc = "idle"
      /\ at \in 1 .. Len(Text(prog)) /\ Instr = Text(prog)[at] /\ Instr.op = "find"
  BY Running
<1>2. ASSUME prog \in Creators PROVE FALSE
  BY <1>1, <1>2, Texts DEF WellMade
<1>3. QED
  BY <1>1, <1>2

\* What a search finds has the name, and is a child of what was searched.
LEMMA FoundIs ==
    ASSUME ProgramsInv, InMemory, pc = "idle", prog = "del_fs",
           NEW call, Searched(call), NEW found, found # NULL,
           local[call.in] # NULL, FindInodeByName(local[call.in], call.name, found)
    PROVE  /\ found \in DOMAIN inode \ {child} /\ Has(call.in)
           /\ inode[root].is_directory =>
                 inode[found].name = call.name /\ found \in ChildrenOf(local[call.in])
<1>1. "root" \in DOMAIN local /\ local["root"] = root /\ TopNamed(inode, root)
  BY DEF ProgramsInv, ProgInv, LoaderInv, Loaders
<1>2. /\ root \in DOMAIN inode \cup {NULL} /\ child = NULL /\ NULL \notin DOMAIN inode
  BY RunningTree, DirectoryIsNotNull DEF ProgramsInv, TypeOK
<1>3. /\ call.in \in DOMAIN local /\ local[call.in] \in DOMAIN inode
      /\ inode[root].is_directory => inode[local[call.in]].name # call.name
  <2>1. CASE call.in = "root" /\ call.name # RootName
    BY <1>1, <1>2, <2>1 DEF TopNamed
  <2>2. CASE \E name : name # call.name /\ Is(call.in, name)
    BY <2>2 DEF Is, Has
  <2>3. QED
    BY <2>1, <2>2 DEF Searched
<1>4. PICK p : p = local[call.in]
  OBVIOUS
<1>5. root # NULL /\ GoodTree(inode, root)
  BY <1>2, <1>3, RunningTree DEF ProgramsInv
<1>6. CASE inode[root].is_directory
  <2>1. PICK i \in DOMAIN inode[p].children :
              found = inode[p].children[i] /\ inode[found].name = call.name
    BY <1>3, <1>4, <1>6 DEF FindInodeByName, FirstNamed
  <2>2. found \in ChildrenOf(p) /\ found \in DOMAIN inode
    BY <1>3, <1>4, <1>5, <2>1 DEF ChildrenOf, GoodTree, TreeLinks
  <2>3. QED
    BY <1>2, <1>3, <1>4, <2>1, <2>2 DEF Has
<1>7. CASE ~inode[root].is_directory
  <2>1. DOMAIN inode = {root}
    BY <1>5, <1>7, LoneFile
  <2>2. found = p
    BY <1>3, <1>4, <1>7, <2>1 DEF FindInodeByName
  <2>3. QED
    BY <1>2, <1>3, <1>4, <1>7, <2>2 DEF Has
<1>8. QED
  BY <1>6, <1>7

\* What is known of the other variables stays so.
Others(var) ==
    /\ \A v, name : v # var /\ Is(v, name) => Is(v, name)'
    /\ \A w, v, name : w # var /\ v # var /\ In(w, v, name) => In(w, v, name)'

\* The assignment to var is the only change: what is known of the others stays.
LEMMA OthersKept ==
    ASSUME UNCHANGED <<inode, root, child>>, NEW var, NEW x, local' = Set(var, x)
    PROVE  Others(var)
<1>1. ASSUME NEW v, v # var, Has(v) PROVE Has(v)' /\ local'[v] = local[v]
  BY <1>1, SetEffect DEF Has
<1>2. \A v, name : v # var /\ Is(v, name) => Is(v, name)'
  BY <1>1 DEF Is
<1>3. ASSUME NEW w, NEW v, NEW name, w # var, v # var, In(w, v, name) PROVE In(w, v, name)'
  <2>1. Is(v, name)' /\ Has(w)' /\ local'[w] = local[w] /\ local'[v] = local[v]
    BY <1>1, <1>2, <1>3 DEF In, Is
  <2>2. ChildrenOf(local[w])' = ChildrenOf(local[w])
    BY <2>1 DEF ChildrenOf
  <2>3. QED
    BY <1>3, <2>1, <2>2 DEF In, ChildrenOf
<1>4. QED
  BY <1>2, <1>3 DEF Others

\* What is new is that the variable has what was looked for.
Fresh(call) ==
    /\ Is(call.var, call.name)'
    /\ call.in # call.var => In(call.in, call.var, call.name)'

\* What has been found is known of the variable it is assigned to.
LEMMA FreshFound ==
    ASSUME UNCHANGED <<inode, root, child>>, NEW var, NEW found, local' = Set(var, found),
           NEW call, call.var = var, found \in DOMAIN inode \ {child}, Has(call.in),
           inode[root].is_directory =>
              inode[found].name = call.name /\ found \in ChildrenOf(local[call.in])
    PROVE  Fresh(call)
<1>1. DOMAIN local' = DOMAIN local \cup {var}
  BY SetEffect
<1>2. local'[var] = found
  BY SetEffect
<1>3. \A v : v # var /\ Has(v) => Has(v)' /\ local'[v] = local[v]
  BY SetEffect DEF Has
<1>4. PICK in, name : in = call.in /\ name = call.name
  OBVIOUS
<1>5. Is(var, name)'
  <2>1. inode[root].is_directory => inode[found].name = name
    BY <1>4
  <2>2. QED
    BY <1>1, <1>2, <2>1 DEF Is, Has
<1>6. ASSUME in # var PROVE In(in, var, name)'
  <2>1. Has(in)' /\ local'[in] = local[in]
    BY <1>3, <1>4, <1>6, Zenon
  <2>2. inode[root].is_directory => found \in ChildrenOf(local[in])
    BY <1>4
  <2>3. inode'[root'].is_directory => found \in ChildrenOf(local[in])'
    BY <2>1, <2>2 DEF ChildrenOf
  <2>4. QED
    BY <1>2, <1>5, <2>1, <2>3 DEF In
<1>7. QED
  BY <1>4, <1>5, <1>6 DEF Fresh

\* del_fs knows at its next place what it must, whether the search found
\* something or not, and it keeps the root and, while it works there, /var/log.
LEMMA SearchKeeps ==
    ASSUME DelFacts, at \in 1 .. 41, NEW call, call = DelFs[at], call.op = "find",
           NEW found, local' = Set(call.var, found), Others(call.var),
           \/ at' = call.absent /\ found = NULL
           \/ at' = at + 1 /\ Fresh(call) /\ local[call.in] # NULL
    PROVE  /\ DelFacts' /\ at' \in 1 .. 41 /\ call.var # "root"
           /\ at \in 6 .. 12 => at' \in 6 .. 12 /\ call.var # "log"
<1>0. PICK k \in 1 .. 41 : k = at /\ call = DelFs[k]
  OBVIOUS
<1>set. call.var \in DOMAIN local' /\ local'[call.var] = found
  BY SetEffect
<1>1. CASE k = 1
  <2>1. call.in = "root" /\ call.name = "kernel" /\ call.var = "node" /\ call.absent = 3
    BY <1>0, <1>1, DelFsText, CallFields
  <2>2. ASSUME at' = call.absent, found = NULL PROVE DelFacts'
    <3>1. at' = 3
      BY <1>1, <2>1, <2>2
    <3>2. QED
      BY <3>1, NothingKnown
  <2>3. ASSUME at' = k + 1, Fresh(call), local[call.in] # NULL PROVE DelFacts'
    <3>1. at' = 2
      BY <1>1, <2>1, <2>3
    <3>2. In("root", "node", "kernel")'
      BY <2>1, <2>3 DEF Fresh
    <3>3. QED
      BY <3>1, <3>2 DEF DelFacts
  <2>4. at' \in {3, 2}
    BY <1>0, <1>1, <2>1
  <2>5. QED
    BY <1>0, <1>1, <2>1, <2>2, <2>3, <2>4
<1>2. CASE k = 3
  <2>1. call.in = "root" /\ call.name = "var" /\ call.var = "var" /\ call.absent = 13
    BY <1>0, <1>2, DelFsText, CallFields
  <2>2. ASSUME at' = call.absent, found = NULL PROVE DelFacts'
    <3>1. at' = 13
      BY <1>2, <2>1, <2>2
    <3>2. QED
      BY <3>1, NothingKnown
  <2>3. ASSUME at' = k + 1, Fresh(call), local[call.in] # NULL PROVE DelFacts'
    <3>1. at' = 4
      BY <1>2, <2>1, <2>3
    <3>2. Is("var", "var")'
      BY <2>1, <2>3 DEF Fresh
    <3>3. QED
      BY <3>1, <3>2 DEF DelFacts
  <2>4. at' \in {13, 4}
    BY <1>0, <1>2, <2>1
  <2>5. QED
    BY <1>0, <1>2, <2>1, <2>2, <2>3, <2>4
<1>3. CASE k = 4
  <2>1. call.in = "var" /\ call.name = "log" /\ call.var = "log" /\ call.absent = 13
    BY <1>0, <1>3, DelFsText, CallFields
  <2>2. ASSUME at' = call.absent, found = NULL PROVE DelFacts'
    <3>1. at' = 13
      BY <1>3, <2>1, <2>2
    <3>2. QED
      BY <3>1, NothingKnown
  <2>3. ASSUME at' = k + 1, Fresh(call), local[call.in] # NULL PROVE DelFacts'
    <3>1. at' = 5
      BY <1>3, <2>1, <2>3
    <3>2. Is("var", "var")
      BY <1>0, <1>3 DEF DelFacts
    <3>3. Is("var", "var")'
      BY <2>1, <3>2 DEF Others
    <3>4. In("var", "log", "log")'
      BY <2>1, <2>3 DEF Fresh
    <3>5. QED
      BY <3>1, <3>3, <3>4 DEF DelFacts
  <2>4. at' \in {13, 5}
    BY <1>0, <1>3, <2>1
  <2>5. QED
    BY <1>0, <1>3, <2>1, <2>2, <2>3, <2>4
<1>4. CASE k = 6
  <2>1. call.in = "log" /\ call.name = "message" /\ call.var = "node" /\ call.absent = 8
    BY <1>0, <1>4, DelFsText, CallFields
  <2>2. ASSUME at' = call.absent, found = NULL PROVE DelFacts'
    <3>1. at' = 8
      BY <1>4, <2>1, <2>2
    <3>2. Is("var", "var") /\ In("var", "log", "log")
      BY <1>0, <1>4 DEF DelFacts
    <3>3. Is("var", "var")' /\ In("var", "log", "log")'
      BY <2>1, <3>2 DEF Others
    <3>4. QED
      BY <3>1, <3>3 DEF DelFacts
  <2>3. ASSUME at' = k + 1, Fresh(call), local[call.in] # NULL PROVE DelFacts'
    <3>1. at' = 7
      BY <1>4, <2>1, <2>3
    <3>2. Is("var", "var") /\ In("var", "log", "log")
      BY <1>0, <1>4 DEF DelFacts
    <3>3. Is("var", "var")' /\ In("var", "log", "log")'
      BY <2>1, <3>2 DEF Others
    <3>4. In("log", "node", "message")'
      BY <2>1, <2>3 DEF Fresh
    <3>5. QED
      BY <3>1, <3>3, <3>4 DEF DelFacts
  <2>4. at' \in {8, 7}
    BY <1>0, <1>4, <2>1
  <2>5. QED
    BY <1>0, <1>4, <2>1, <2>2, <2>3, <2>4
<1>5. CASE k = 8
  <2>1. call.in = "log" /\ call.name = "warn" /\ call.var = "node" /\ call.absent = 10
    BY <1>0, <1>5, DelFsText, CallFields
  <2>2. ASSUME at' = call.absent, found = NULL PROVE DelFacts'
    <3>1. at' = 10
      BY <1>5, <2>1, <2>2
    <3>2. Is("var", "var") /\ In("var", "log", "log")
      BY <1>0, <1>5 DEF DelFacts
    <3>3. Is("var", "var")' /\ In("var", "log", "log")'
      BY <2>1, <3>2 DEF Others
    <3>4. QED
      BY <3>1, <3>3 DEF DelFacts
  <2>3. ASSUME at' = k + 1, Fresh(call), local[call.in] # NULL PROVE DelFacts'
    <3>1. at' = 9
      BY <1>5, <2>1, <2>3
    <3>2. Is("var", "var") /\ In("var", "log", "log")
      BY <1>0, <1>5 DEF DelFacts
    <3>3. Is("var", "var")' /\ In("var", "log", "log")'
      BY <2>1, <3>2 DEF Others
    <3>4. In("log", "node", "warn")'
      BY <2>1, <2>3 DEF Fresh
    <3>5. QED
      BY <3>1, <3>3, <3>4 DEF DelFacts
  <2>4. at' \in {10, 9}
    BY <1>0, <1>5, <2>1
  <2>5. QED
    BY <1>0, <1>5, <2>1, <2>2, <2>3, <2>4
<1>6. CASE k = 10
  <2>1. call.in = "log" /\ call.name = "fail" /\ call.var = "node" /\ call.absent = 12
    BY <1>0, <1>6, DelFsText, CallFields
  <2>2. ASSUME at' = call.absent, found = NULL PROVE DelFacts'
    <3>1. at' = 12
      BY <1>6, <2>1, <2>2
    <3>2. Is("var", "var") /\ In("var", "log", "log")
      BY <1>0, <1>6 DEF DelFacts
    <3>3. Is("var", "var")' /\ In("var", "log", "log")'
      BY <2>1, <3>2 DEF Others
    <3>4. QED
      BY <3>1, <3>3 DEF DelFacts
  <2>3. ASSUME at' = k + 1, Fresh(call), local[call.in] # NULL PROVE DelFacts'
    <3>1. at' = 11
      BY <1>6, <2>1, <2>3
    <3>2. Is("var", "var") /\ In("var", "log", "log")
      BY <1>0, <1>6 DEF DelFacts
    <3>3. Is("var", "var")' /\ In("var", "log", "log")'
      BY <2>1, <3>2 DEF Others
    <3>4. In("log", "node", "fail")'
      BY <2>1, <2>3 DEF Fresh
    <3>5. QED
      BY <3>1, <3>3, <3>4 DEF DelFacts
  <2>4. at' \in {12, 11}
    BY <1>0, <1>6, <2>1
  <2>5. QED
    BY <1>0, <1>6, <2>1, <2>2, <2>3, <2>4
<1>7. CASE k = 13
  <2>1. call.in = "root" /\ call.name = "share" /\ call.var = "dir" /\ call.absent = 17
    BY <1>0, <1>7, DelFsText, CallFields
  <2>2. ASSUME at' = call.absent, found = NULL PROVE DelFacts'
    <3>1. at' = 17
      BY <1>7, <2>1, <2>2
    <3>2. QED
      BY <3>1, NothingKnown
  <2>3. ASSUME at' = k + 1, Fresh(call), local[call.in] # NULL PROVE DelFacts'
    <3>1. at' = 14
      BY <1>7, <2>1, <2>3
    <3>2. Is("dir", "share")'
      BY <2>1, <2>3 DEF Fresh
    <3>3. QED
      BY <3>1, <3>2 DEF DelFacts
  <2>4. at' \in {17, 14}
    BY <1>0, <1>7, <2>1
  <2>5. QED
    BY <1>0, <1>7, <2>1, <2>2, <2>3, <2>4
<1>8. CASE k = 14
  <2>1. call.in = "dir" /\ call.name = "man" /\ call.var = "dir" /\ call.absent = 17
    BY <1>0, <1>8, DelFsText, CallFields
  <2>2. ASSUME at' = call.absent, found = NULL PROVE DelFacts'
    <3>1. at' = 17
      BY <1>8, <2>1, <2>2
    <3>2. QED
      BY <3>1, NothingKnown
  <2>3. ASSUME at' = k + 1, Fresh(call), local[call.in] # NULL PROVE DelFacts'
    <3>1. at' = 15
      BY <1>8, <2>1, <2>3
    <3>2. Is("dir", "man")'
      BY <2>1, <2>3 DEF Fresh
    <3>3. QED
      BY <3>1, <3>2 DEF DelFacts
  <2>4. at' \in {17, 15}
    BY <1>0, <1>8, <2>1
  <2>5. QED
    BY <1>0, <1>8, <2>1, <2>2, <2>3, <2>4
<1>9. CASE k = 15
  <2>1. call.in = "dir" /\ call.name = "read.2" /\ call.var = "node" /\ call.absent = 17
    BY <1>0, <1>9, DelFsText, CallFields
  <2>2. ASSUME at' = call.absent, found = NULL PROVE DelFacts'
    <3>1. at' = 17
      BY <1>9, <2>1, <2>2
    <3>2. QED
      BY <3>1, NothingKnown
  <2>3. ASSUME at' = k + 1, Fresh(call), local[call.in] # NULL PROVE DelFacts'
    <3>1. at' = 16
      BY <1>9, <2>1, <2>3
    <3>2. Is("dir", "man")
      BY <1>0, <1>9 DEF DelFacts
    <3>3. Is("dir", "man")'
      BY <2>1, <3>2 DEF Others
    <3>4. In("dir", "node", "read.2")'
      BY <2>1, <2>3 DEF Fresh
    <3>5. QED
      BY <3>1, <3>3, <3>4 DEF DelFacts
  <2>4. at' \in {17, 16}
    BY <1>0, <1>9, <2>1
  <2>5. QED
    BY <1>0, <1>9, <2>1, <2>2, <2>3, <2>4
<1>10. CASE k = 17
  <2>1. call.in = "root" /\ call.name = "etc" /\ call.var = "dir" /\ call.absent = 20
    BY <1>0, <1>10, DelFsText, CallFields
  <2>2. ASSUME at' = call.absent, found = NULL PROVE DelFacts'
    <3>1. at' = 20
      BY <1>10, <2>1, <2>2
    <3>2. QED
      BY <3>1, NothingKnown
  <2>3. ASSUME at' = k + 1, Fresh(call), local[call.in] # NULL PROVE DelFacts'
    <3>1. at' = 18
      BY <1>10, <2>1, <2>3
    <3>2. Is("dir", "etc")'
      BY <2>1, <2>3 DEF Fresh
    <3>3. QED
      BY <3>1, <3>2 DEF DelFacts
  <2>4. at' \in {20, 18}
    BY <1>0, <1>10, <2>1
  <2>5. QED
    BY <1>0, <1>10, <2>1, <2>2, <2>3, <2>4
<1>11. CASE k = 18
  <2>1. call.in = "dir" /\ call.name = "hosts" /\ call.var = "node" /\ call.absent = 20
    BY <1>0, <1>11, DelFsText, CallFields
  <2>2. ASSUME at' = call.absent, found = NULL PROVE DelFacts'
    <3>1. at' = 20
      BY <1>11, <2>1, <2>2
    <3>2. QED
      BY <3>1, NothingKnown
  <2>3. ASSUME at' = k + 1, Fresh(call), local[call.in] # NULL PROVE DelFacts'
    <3>1. at' = 19
      BY <1>11, <2>1, <2>3
    <3>2. Is("dir", "etc")
      BY <1>0, <1>11 DEF DelFacts
    <3>3. Is("dir", "etc")'
      BY <2>1, <3>2 DEF Others
    <3>4. In("dir", "node", "hosts")'
      BY <2>1, <2>3 DEF Fresh
    <3>5. QED
      BY <3>1, <3>3, <3>4 DEF DelFacts
  <2>4. at' \in {20, 19}
    BY <1>0, <1>11, <2>1
  <2>5. QED
    BY <1>0, <1>11, <2>1, <2>2, <2>3, <2>4
<1>12. CASE k = 20
  <2>1. call.in = "root" /\ call.name = "etc" /\ call.var = "dir" /\ call.absent = 23
    BY <1>0, <1>12, DelFsText, CallFields
  <2>2. ASSUME at' = call.absent, found = NULL PROVE DelFacts'
    <3>1. at' = 23
      BY <1>12, <2>1, <2>2
    <3>2. QED
      BY <3>1, NothingKnown
  <2>3. ASSUME at' = k + 1, Fresh(call), local[call.in] # NULL PROVE DelFacts'
    <3>1. at' = 21
      BY <1>12, <2>1, <2>3
    <3>2. Is("dir", "etc")'
      BY <2>1, <2>3 DEF Fresh
    <3>3. QED
      BY <3>1, <3>2 DEF DelFacts
  <2>4. at' \in {23, 21}
    BY <1>0, <1>12, <2>1
  <2>5. QED
    BY <1>0, <1>12, <2>1, <2>2, <2>3, <2>4
<1>13. CASE k = 21
  <2>1. call.in = "dir" /\ call.name = "host.conf" /\ call.var = "node" /\ call.absent = 23
    BY <1>0, <1>13, DelFsText, CallFields
  <2>2. ASSUME at' = call.absent, found = NULL PROVE DelFacts'
    <3>1. at' = 23
      BY <1>13, <2>1, <2>2
    <3>2. QED
      BY <3>1, NothingKnown
  <2>3. ASSUME at' = k + 1, Fresh(call), local[call.in] # NULL PROVE DelFacts'
    <3>1. at' = 22
      BY <1>13, <2>1, <2>3
    <3>2. Is("dir", "etc")
      BY <1>0, <1>13 DEF DelFacts
    <3>3. Is("dir", "etc")'
      BY <2>1, <3>2 DEF Others
    <3>4. In("dir", "node", "host.conf")'
      BY <2>1, <2>3 DEF Fresh
    <3>5. QED
      BY <3>1, <3>3, <3>4 DEF DelFacts
  <2>4. at' \in {23, 22}
    BY <1>0, <1>13, <2>1
  <2>5. QED
    BY <1>0, <1>13, <2>1, <2>2, <2>3, <2>4
<1>14. CASE k = 23
  <2>1. call.in = "root" /\ call.name = "etc" /\ call.var = "dir" /\ call.absent = 30
    BY <1>0, <1>14, DelFsText, CallFields
  <2>2. ASSUME at' = call.absent, found = NULL PROVE DelFacts'
    <3>1. at' = 30
      BY <1>14, <2>1, <2>2
    <3>2. QED
      BY <3>1, NothingKnown
  <2>3. ASSUME at' = k + 1, Fresh(call), local[call.in] # NULL PROVE DelFacts'
    <3>1. at' = 24
      BY <1>14, <2>1, <2>3
    <3>2. Is("dir", "etc")'
      BY <2>1, <2>3 DEF Fresh
    <3>3. QED
      BY <3>1, <3>2 DEF DelFacts
  <2>4. at' \in {30, 24}
    BY <1>0, <1>14, <2>1
  <2>5. QED
    BY <1>0, <1>14, <2>1, <2>2, <2>3, <2>4
<1>15. CASE k = 24
  <2>1. call.in = "dir" /\ call.name = "httpd" /\ call.var = "http" /\ call.absent = 30
    BY <1>0, <1>15, DelFsText, CallFields
  <2>2. ASSUME at' = call.absent, found = NULL PROVE DelFacts'
    <3>1. at' = 30
      BY <1>15, <2>1, <2>2
    <3>2. QED
      BY <3>1, NothingKnown
  <2>3. ASSUME at' = k + 1, Fresh(call), local[call.in] # NULL PROVE DelFacts'
    <3>1. at' = 25
      BY <1>15, <2>1, <2>3
    <3>2. Is("dir", "etc")
      BY <1>0, <1>15 DEF DelFacts
    <3>3. Is("dir", "etc")'
      BY <2>1, <3>2 DEF Others
    <3>4. In("dir", "http", "httpd")'
      BY <2>1, <2>3 DEF Fresh
    <3>5. QED
      BY <3>1, <3>3, <3>4 DEF DelFacts
  <2>4. at' \in {30, 25}
    BY <1>0, <1>15, <2>1
  <2>5. QED
    BY <1>0, <1>15, <2>1, <2>2, <2>3, <2>4
<1>16. CASE k = 26
  <2>1. call.in = "dir" /\ call.name = "httpd" /\ call.var = "http" /\ call.absent = 30
    BY <1>0, <1>16, DelFsText, CallFields
  <2>2. ASSUME at' = call.absent, found = NULL PROVE DelFacts'
    <3>1. at' = 30
      BY <1>16, <2>1, <2>2
    <3>2. QED
      BY <3>1, NothingKnown
  <2>3. ASSUME at' = k + 1, Fresh(call), local[call.in] # NULL PROVE DelFacts'
    <3>1. at' = 27
      BY <1>16, <2>1, <2>3
    <3>2. Is("dir", "etc")
      BY <1>0, <1>16 DEF DelFacts
    <3>3. Is("dir", "etc")'
      BY <2>1, <3>2 DEF Others
    <3>4. In("dir", "http", "httpd")'
      BY <2>1, <2>3 DEF Fresh
    <3>5. QED
      BY <3>1, <3>3, <3>4 DEF DelFacts
  <2>4. at' \in {30, 27}
    BY <1>0, <1>16, <2>1
  <2>5. QED
    BY <1>0, <1>16, <2>1, <2>2, <2>3, <2>4
<1>17. CASE k = 27
  <2>1. call.in = "http" /\ call.name = "conf" /\ call.var = "node" /\ call.absent = 30
    BY <1>0, <1>17, DelFsText, CallFields
  <2>2. ASSUME at' = call.absent, found = NULL PROVE DelFacts'
    <3>1. at' = 30
      BY <1>17, <2>1, <2>2
    <3>2. QED
      BY <3>1, NothingKnown
  <2>3. ASSUME at' = k + 1, Fresh(call), local[call.in] # NULL PROVE DelFacts'
    <3>1. at' = 28
      BY <1>17, <2>1, <2>3
    <3>2. Is("dir", "etc") /\ In("dir", "http", "httpd")
      BY <1>0, <1>17 DEF DelFacts
    <3>3. Is("dir", "etc")' /\ In("dir", "http", "httpd")'
      BY <2>1, <3>2 DEF Others
    <3>4. In("http", "node", "conf")'
      BY <2>1, <2>3 DEF Fresh
    <3>5. QED
      BY <3>1, <3>3, <3>4 DEF DelFacts
  <2>4. at' \in {30, 28}
    BY <1>0, <1>17, <2>1
  <2>5. QED
    BY <1>0, <1>17, <2>1, <2>2, <2>3, <2>4
<1>18. CASE k = 30
  <2>1. call.in = "root" /\ call.name = "home" /\ call.var = "dir" /\ call.absent = 41
    BY <1>0, <1>18, DelFsText, CallFields
  <2>2. ASSUME at' = call.absent, found = NULL PROVE DelFacts'
    <3>1. at' = 41
      BY <1>18, <2>1, <2>2
    <3>2. QED
      BY <3>1, NothingKnown
  <2>3. ASSUME at' = k + 1, Fresh(call), local[call.in] # NULL PROVE DelFacts'
    <3>1. at' = 31
      BY <1>18, <2>1, <2>3
    <3>2. Is("dir", "home")'
      BY <2>1, <2>3 DEF Fresh
    <3>3. QED
      BY <3>1, <3>2 DEF DelFacts
  <2>4. at' \in {41, 31}
    BY <1>0, <1>18, <2>1
  <2>5. QED
    BY <1>0, <1>18, <2>1, <2>2, <2>3, <2>4
<1>19. CASE k = 31
  <2>1. call.in = "dir" /\ call.name = "user" /\ call.var = "udir" /\ call.absent = 41
    BY <1>0, <1>19, DelFsText, CallFields
  <2>2. ASSUME at' = call.absent, found = NULL PROVE DelFacts'
    <3>1. at' = 41
      BY <1>19, <2>1, <2>2
    <3>2. QED
      BY <3>1, NothingKnown
  <2>3. ASSUME at' = k + 1, Fresh(call), local[call.in] # NULL PROVE DelFacts'
    <3>1. at' = 32
      BY <1>19, <2>1, <2>3
    <3>2. Is("dir", "home")
      BY <1>0, <1>19 DEF DelFacts
    <3>3. Is("dir", "home")'
      BY <2>1, <3>2 DEF Others
    <3>4. In("dir", "udir", "user")'
      BY <2>1, <2>3 DEF Fresh
    <3>5. QED
      BY <3>1, <3>3, <3>4 DEF DelFacts
  <2>4. at' \in {41, 32}
    BY <1>0, <1>19, <2>1
  <2>5. QED
    BY <1>0, <1>19, <2>1, <2>2, <2>3, <2>4
<1>20. CASE k = 33
  <2>1. call.in = "dir" /\ call.name = "user" /\ call.var = "udir" /\ call.absent = 34
    BY <1>0, <1>20, DelFsText, CallFields
  <2>2. ASSUME at' = call.absent, found = NULL PROVE DelFacts'
    <3>1. at' = 34
      BY <1>20, <2>1, <2>2
    <3>2. Is("dir", "home")
      BY <1>0, <1>20 DEF DelFacts
    <3>3. Is("dir", "home")'
      BY <2>1, <3>2 DEF Others
    <3>4. "udir" \in DOMAIN local' /\ local'["udir"] = NULL
      BY <1>set, <2>1, <2>2
    <3>5. QED
      BY <3>1, <3>3, <3>4 DEF DelFacts
  <2>3. ASSUME at' = k + 1, Fresh(call), local[call.in] # NULL PROVE DelFacts'
    <3>1. at' = 34
      BY <1>20, <2>1, <2>3
    <3>2. Is("dir", "home")
      BY <1>0, <1>20 DEF DelFacts
    <3>3. Is("dir", "home")'
      BY <2>1, <3>2 DEF Others
    <3>4. In("dir", "udir", "user")'
      BY <2>1, <2>3 DEF Fresh
    <3>5. QED
      BY <3>1, <3>3, <3>4 DEF DelFacts
  <2>4. at' \in {34, 34}
    BY <1>0, <1>20, <2>1
  <2>5. QED
    BY <1>0, <1>20, <2>1, <2>2, <2>3, <2>4
<1>21. CASE k = 34
  <2>1. call.in = "udir" /\ call.name = "Download" /\ call.var = "dl" /\ call.absent = 41
    BY <1>0, <1>21, DelFsText, CallFields
  <2>2. ASSUME at' = call.absent, found = NULL PROVE DelFacts'
    <3>1. at' = 41
      BY <1>21, <2>1, <2>2
    <3>2. QED
      BY <3>1, NothingKnown
  <2>3. ASSUME at' = k + 1, Fresh(call), local[call.in] # NULL PROVE DelFacts'
    <3>1. at' = 35
      BY <1>21, <2>1, <2>3
    <3>2. In("dir", "udir", "user")
      BY <1>0, <1>21, <2>1, <2>3 DEF DelFacts
    <3>3. Is("dir", "home")
      BY <1>0, <1>21 DEF DelFacts
    <3>4. Is("dir", "home")' /\ In("dir", "udir", "user")'
      BY <2>1, <3>2, <3>3 DEF Others
    <3>5. In("udir", "dl", "Download")'
      BY <2>1, <2>3 DEF Fresh
    <3>6. QED
      BY <3>1, <3>4, <3>5 DEF DelFacts
  <2>4. at' \in {41, 35}
    BY <1>0, <1>21, <2>1
  <2>5. QED
    BY <1>0, <1>21, <2>1, <2>2, <2>3, <2>4
<1>22. CASE k = 36
  <2>1. call.in = "udir" /\ call.name = "Download" /\ call.var = "dl" /\ call.absent = 41
    BY <1>0, <1>22, DelFsText, CallFields
  <2>2. ASSUME at' = call.absent, found = NULL PROVE DelFacts'
    <3>1. at' = 41
      BY <1>22, <2>1, <2>2
    <3>2. QED
      BY <3>1, NothingKnown
  <2>3. ASSUME at' = k + 1, Fresh(call), local[call.in] # NULL PROVE DelFacts'
    <3>1. at' = 37
      BY <1>22, <2>1, <2>3
    <3>2. Is("dir", "home") /\ In("dir", "udir", "user")
      BY <1>0, <1>22 DEF DelFacts
    <3>3. Is("dir", "home")' /\ In("dir", "udir", "user")'
      BY <2>1, <3>2 DEF Others
    <3>4. In("udir", "dl", "Download")'
      BY <2>1, <2>3 DEF Fresh
    <3>5. QED
      BY <3>1, <3>3, <3>4 DEF DelFacts
  <2>4. at' \in {41, 37}
    BY <1>0, <1>22, <2>1
  <2>5. QED
    BY <1>0, <1>22, <2>1, <2>2, <2>3, <2>4
<1>23. CASE k = 37
  <2>1. call.in = "dl" /\ call.name = "oblig2" /\ call.var = "node" /\ call.absent = 41
    BY <1>0, <1>23, DelFsText, CallFields
  <2>2. ASSUME at' = call.absent, found = NULL PROVE DelFacts'
    <3>1. at' = 41
      BY <1>23, <2>1, <2>2
    <3>2. QED
      BY <3>1, NothingKnown
  <2>3. ASSUME at' = k + 1, Fresh(call), local[call.in] # NULL PROVE DelFacts'
    <3>1. at' = 38
      BY <1>23, <2>1, <2>3
    <3>2. Is("dir", "home") /\ In("dir", "udir", "user") /\ In("udir", "dl", "Download")
      BY <1>0, <1>23 DEF DelFacts
    <3>3. Is("dir", "home")' /\ In("dir", "udir", "user")' /\ In("udir", "dl", "Download")'
      BY <2>1, <3>2 DEF Others
    <3>4. In("dl", "node", "oblig2")'
      BY <2>1, <2>3 DEF Fresh
    <3>5. QED
      BY <3>1, <3>3, <3>4 DEF DelFacts
  <2>4. at' \in {41, 38}
    BY <1>0, <1>23, <2>1
  <2>5. QED
    BY <1>0, <1>23, <2>1, <2>2, <2>3, <2>4
<1>24. CASE k \in {2, 5, 7, 9, 11, 12, 16, 19, 22, 25, 28, 29, 32, 35, 38, 39, 40, 41}
  <2>1. DelFs[k].op # "find"
    BY <1>24, DelFsText, CallFields
  <2>2. QED
    BY <1>0, <2>1
<1>25. QED
  BY <1>1, <1>2, <1>3, <1>4, <1>5, <1>6, <1>7, <1>8, <1>9, <1>10, <1>11, <1>12, <1>13, <1>14,
     <1>15, <1>16, <1>17, <1>18, <1>19, <1>20, <1>21, <1>22, <1>23, <1>24

\* The directories are those there were, and while del_fs works on /var/log it
\* has that one.
LEMMA LogsStay ==
    ASSUME LogsKept, UNCHANGED <<inode, child, prog>>, pc' = "idle",
           prog = "del_fs" /\ at \in 6 .. 12 => at' \in 6 .. 12 /\ local'["log"] = local["log"]
    PROVE  LogsKept'
<1>1. Directories' = Directories
  BY DEF Directories
<1>2. \A p : LogAtWork(p) => LogAtWork(p)'
  BY DEF LogAtWork
<1>3. QED
  BY <1>1, <1>2 DEF LogsKept

\* A search of load_fs.
LEMMA LookProg ==
    ASSUME ProgramsInv, FindCall, prog = "load_fs"
    PROVE  ProgInv'
<1>1. /\ phase = "running" /\ pc = "idle" /\ at \in 1 .. Len(Text(prog))
      /\ Instr = Text(prog)[at] /\ InMemory
  BY SearcherAt DEF FindCall, InMemory
<1>2. PICK call : call = Instr
  OBVIOUS
<1>3. at \in 1 .. 23 /\ Looks(call, at) /\ Len(Text(prog)) = 23
  BY <1>1, <1>2, Texts, LoadFsWell
<1>4. /\ UNCHANGED <<bat, inode, root, pc, parent, child, mft, saved, phase, dirty>>
      /\ UNCHANGED prog
  BY DEF FindCall, allVars, vars
<1>5. PICK found \in DOMAIN inode \cup {NULL} :
         /\ local' = Set("dir", found)
         /\ at' = IF found = NULL THEN call.absent ELSE at + 1
  BY <1>2, <1>3 DEF FindCall, Looks
<1>6. at' \in 2 .. 24
  <2>1. call.absent \in at + 1 .. 24
    BY <1>3 DEF Looks
  <2>2. QED
    BY <1>3, <1>5, <2>1
<1>7. prog \in Loaders /\ prog \notin Creators /\ prog # "none"
  BY DEF Loaders, Creators
<1>8. Life' /\ SavedOK'
  <2>0. PICK n \in 23 .. 23 : n = Len(Text(prog))
    BY <1>3
  <2>1. at' \in 1 .. n + 1
    BY <1>6
  <2>2. ~dirty
    BY <1>1 DEF ProgramsInv, ProgInv, Life
  <2>3. Life'
    BY <1>1, <1>4, <1>7, <2>0, <2>1, <2>2 DEF Life
  <2>4. QED
    BY <1>4, <2>3 DEF ProgramsInv, ProgInv, SavedOK
<1>9. LogsKept'
  BY <1>1, <1>4, <1>7, LogsStay DEF ProgramsInv, ProgInv, LoaderInv
<1>10. /\ "dir" \in DOMAIN local' /\ local'["dir"] = found
  BY <1>5, SetEffect
<1>11. "root" \in DOMAIN local' /\ local'["root"] = local["root"]
  <2>1. "root" \in DOMAIN local
    BY <1>1, <1>7 DEF ProgramsInv, ProgInv, LoaderInv
  <2>2. local' = Set("dir", found) /\ "root" # "dir"
    BY <1>5
  <2>3. \A v \in DOMAIN local \ {"dir"} : v \in DOMAIN local' /\ local'[v] = local[v]
    BY <2>2, SetEffect
  <2>4. QED
    BY <2>1, <2>2, <2>3, Zenon
<1>12. LoaderInv'
  BY <1>1, <1>4, <1>7, <1>9, <1>10, <1>11 DEF ProgramsInv, ProgInv, LoaderInv
<1>13. QED
  BY <1>1, <1>4, <1>7, <1>8, <1>12 DEF ProgramsInv, ProgInv, CreatorInv, InMemory, TopNamed

\* A search of del_fs.
LEMMA DelFindProg ==
    ASSUME ProgramsInv, FindCall, prog = "del_fs"
    PROVE  ProgInv'
<1>1. /\ phase = "running" /\ pc = "idle" /\ at \in 1 .. Len(Text(prog))
      /\ Instr = Text(prog)[at] /\ Instr.op = "find" /\ InMemory
  BY SearcherAt DEF FindCall, InMemory
<1>2. PICK call : call = Instr
  OBVIOUS
<1>3. at \in 1 .. 41 /\ call = DelFs[at] /\ call.op = "find" /\ Len(Text(prog)) = 41
  BY <1>1, <1>2, Texts
<1>4. /\ UNCHANGED <<bat, inode, root, pc, parent, child, mft, saved, phase, dirty>>
      /\ UNCHANGED prog
  BY DEF FindCall, allVars, vars
<1>5. prog \in Loaders /\ prog \notin Creators /\ prog # "none" /\ prog # "load_fs"
  BY DEF Loaders, Creators
<1>6. /\ DelFacts /\ LogsKept /\ "root" \in DOMAIN local /\ local["root"] = root
  BY <1>1, <1>5 DEF ProgramsInv, ProgInv, LoaderInv
<1>7. Searched(call)
  BY <1>3, <1>6, KnownToSearch
<1>8. PICK found \in DOMAIN inode \cup {NULL} :
         /\ IF local[call.in] = NULL THEN found = NULL
            ELSE FindInodeByName(local[call.in], call.name, found)
         /\ local' = Set(call.var, found)
         /\ at' = IF found = NULL THEN call.absent ELSE at + 1
  BY <1>2 DEF FindCall
<1>9. PICK var : var = call.var /\ local' = Set(var, found)
  BY <1>8
<1>10. Others(var)
  BY <1>4, <1>9, OthersKept
<1>11. found # NULL => Fresh(call) /\ local[call.in] # NULL
  <2> SUFFICES ASSUME found # NULL PROVE Fresh(call) /\ local[call.in] # NULL
      OBVIOUS
  <2>1. local[call.in] # NULL /\ FindInodeByName(local[call.in], call.name, found)
    BY <1>8
  <2>2. /\ found \in DOMAIN inode \ {child} /\ Has(call.in)
        /\ inode[root].is_directory =>
              inode[found].name = call.name /\ found \in ChildrenOf(local[call.in])
    BY <1>1, <1>7, <2>1, FoundIs
  <2>3. Fresh(call)
    BY <1>4, <1>9, <2>2, FreshFound
  <2>4. QED
    BY <2>1, <2>3
<1>12. /\ DelFacts' /\ at' \in 1 .. 41 /\ var # "root"
       /\ at \in 6 .. 12 => at' \in 6 .. 12 /\ var # "log"
  <2>1. \/ at' = call.absent /\ found = NULL
        \/ at' = at + 1 /\ Fresh(call) /\ local[call.in] # NULL
    BY <1>8, <1>11
  <2>2. QED
    BY <1>3, <1>6, <1>9, <1>10, <2>1, SearchKeeps
<1>13. "root" \in DOMAIN local' /\ local'["root"] = root
  BY <1>6, <1>9, <1>12, SetEffect
<1>14. at \in 6 .. 12 => local'["log"] = local["log"]
  <2> SUFFICES ASSUME at \in 6 .. 12 PROVE local'["log"] = local["log"]
      OBVIOUS
  <2>1. "log" \in DOMAIN local
    <3>1. In("var", "log", "log")
      BY <1>6 DEF DelFacts
    <3>2. QED
      BY <3>1 DEF In, Is, Has
  <2>2. "log" # var
    BY <1>12
  <2>3. QED
    BY <1>9, <2>1, <2>2, SetEffect
<1>15. LogsKept'
  BY <1>1, <1>4, <1>6, <1>12, <1>14, LogsStay
<1>16. LoaderInv'
  BY <1>1, <1>4, <1>5, <1>12, <1>13, <1>15 DEF ProgramsInv, ProgInv, LoaderInv
<1>17. Life' /\ SavedOK'
  <2>0. PICK n \in 41 .. 41 : n = Len(Text(prog))
    BY <1>3
  <2>1. at' \in 1 .. n + 1 /\ at' <= n
    BY <1>12
  <2>2. Life'
    BY <1>1, <1>4, <1>5, <2>0, <2>1 DEF Life
  <2>3. QED
    BY <1>4, <2>2 DEF ProgramsInv, ProgInv, SavedOK
<1>18. QED
  BY <1>1, <1>4, <1>5, <1>16, <1>17 DEF ProgramsInv, ProgInv, CreatorInv, InMemory, TopNamed

\* A search.
LEMMA FindProg ==
    ASSUME ProgramsInv, FindCall
    PROVE  ProgInv'
BY SearcherAt, LookProg, DelFindProg DEF FindCall, Loaders

-------------------------------------------------------------------------------
(* del_fs deletes *)

\* The call does not begin to delete, or what it deletes has the name.
Spared(name) == child' = child \/ (inode[root].is_directory /\ inode[child'].name = name)

\* What is known of inodes with other names stays so.
Rest(name) ==
    /\ \A v, other : other # name /\ Is(v, other) => Is(v, other)'
    /\ \A w, v, nw, nv :
          nw # name /\ nv # name /\ Is(w, nw) /\ In(w, v, nv) => In(w, v, nv)'

\* What is known of inodes with another name than the one deleted stays.
LEMMA RestKept ==
    ASSUME UNCHANGED <<inode, root, local>>, NEW name, Spared(name)
    PROVE  Rest(name)
<1>1. ASSUME NEW v, NEW other, other # name, Is(v, other) PROVE Has(v)'
  <2>1. v \in DOMAIN local /\ local[v] \in DOMAIN inode \ {child}
    BY <1>1 DEF Is, Has
  <2>2. local[v] # child'
    BY <1>1, <2>1 DEF Spared, Is
  <2>3. QED
    BY <2>1, <2>2 DEF Has
<1>2. \A v, other : other # name /\ Is(v, other) => Is(v, other)'
  BY <1>1 DEF Is
<1>3. \A p : ChildrenOf(p)' = ChildrenOf(p)
  BY DEF ChildrenOf
<1>4. ASSUME NEW w, NEW v, NEW nw, NEW nv, nw # name, nv # name, Is(w, nw), In(w, v, nv)
      PROVE  In(w, v, nv)'
  <2>1. Is(v, nv)' /\ Has(w)'
    BY <1>1, <1>2, <1>4 DEF In
  <2>2. inode[root].is_directory => local[v] \in ChildrenOf(local[w])
    BY <1>4 DEF In
  <2>3. (inode[root].is_directory => local[v] \in ChildrenOf(local[w]))'
    BY <1>3, <2>2
  <2>4. QED
    BY <2>1, <2>3 DEF In
<1>5. QED
  BY <1>2, <1>4 DEF Rest

\* What a call to delete is about: what it deletes has been found in a
\* directory that is not called log but while del_fs works there, and what
\* comes after it is still known.
Target(call, name) ==
    /\ In(call.in, call.var, name)
    /\ Rest(name) /\ (at = 5 => \A other : Rest(other)) => DelFacts'
    /\ at \in {5, 12} => name = "log" /\ call.var = "log" /\ call.op = "delete_dir"
    /\ \/ call.in = "root"
       \/ \E other : other # "log" /\ Is(call.in, other)
       \/ call.in = "log" /\ at \in {7, 9, 11}

\* At each place del_fs deletes, no fact that main needs later is about an inode
\* with the name of the one deleted.
LEMMA DeleteKeeps ==
    ASSUME DelFacts, at \in 1 .. 40, NEW call, call = DelFs[at],
           call.op \in {"delete_file", "delete_dir"}, at' = at + 1
    PROVE  \E name : Target(call, name)
<1>0. PICK k \in 1 .. 40 : k = at /\ call = DelFs[k]
  OBVIOUS
<1>1. CASE k = 2
  <2>1. call.in = "root" /\ call.var = "node" /\ call.op = "delete_file"
    BY <1>0, <1>1, DelFsText, CallFields
  <2>2. In("root", "node", "kernel")
    BY <1>0, <1>1 DEF DelFacts
  <2>3. ASSUME Rest("kernel") PROVE DelFacts'
    <3>1. at' = 3
      BY <1>0, <1>1
    <3>2. QED
      BY <3>1, NothingKnown
  <2>4. QED
    BY <1>0, <1>1, <2>1, <2>2, <2>3 DEF Target
<1>2. CASE k = 5
  <2>1. call.in = "var" /\ call.var = "log" /\ call.op = "delete_dir"
    BY <1>0, <1>2, DelFsText, CallFields
  <2>2. In("var", "log", "log")
    BY <1>0, <1>2 DEF DelFacts
  <2>3. ASSUME Rest("none") PROVE DelFacts'
    <3>1. at' = 6
      BY <1>0, <1>2
    <3>2. /\ Is("var", "var")
          /\ In("var", "log", "log")
      BY <1>0, <1>2 DEF DelFacts, In
    <3>3. Is("var", "var")' /\ In("var", "log", "log")'
      BY <2>3, <3>2 DEF Rest
    <3>4. QED
      BY <3>1, <3>3 DEF DelFacts
  <2>4. Is("var", "var")
    BY <1>0, <1>2 DEF DelFacts, In
  <2>5. QED
    BY <1>0, <1>2, <2>1, <2>2, <2>3, <2>4 DEF Target
<1>3. CASE k = 7
  <2>1. call.in = "log" /\ call.var = "node" /\ call.op = "delete_file"
    BY <1>0, <1>3, DelFsText, CallFields
  <2>2. In("log", "node", "message")
    BY <1>0, <1>3 DEF DelFacts
  <2>3. ASSUME Rest("message") PROVE DelFacts'
    <3>1. at' = 8
      BY <1>0, <1>3
    <3>2. /\ Is("var", "var")
          /\ In("var", "log", "log")
      BY <1>0, <1>3 DEF DelFacts, In
    <3>3. Is("var", "var")' /\ In("var", "log", "log")'
      BY <2>3, <3>2 DEF Rest
    <3>4. QED
      BY <3>1, <3>3 DEF DelFacts
  <2>4. QED
    BY <1>0, <1>3, <2>1, <2>2, <2>3 DEF Target
<1>4. CASE k = 9
  <2>1. call.in = "log" /\ call.var = "node" /\ call.op = "delete_file"
    BY <1>0, <1>4, DelFsText, CallFields
  <2>2. In("log", "node", "warn")
    BY <1>0, <1>4 DEF DelFacts
  <2>3. ASSUME Rest("warn") PROVE DelFacts'
    <3>1. at' = 10
      BY <1>0, <1>4
    <3>2. /\ Is("var", "var")
          /\ In("var", "log", "log")
      BY <1>0, <1>4 DEF DelFacts, In
    <3>3. Is("var", "var")' /\ In("var", "log", "log")'
      BY <2>3, <3>2 DEF Rest
    <3>4. QED
      BY <3>1, <3>3 DEF DelFacts
  <2>4. QED
    BY <1>0, <1>4, <2>1, <2>2, <2>3 DEF Target
<1>5. CASE k = 11
  <2>1. call.in = "log" /\ call.var = "node" /\ call.op = "delete_file"
    BY <1>0, <1>5, DelFsText, CallFields
  <2>2. In("log", "node", "fail")
    BY <1>0, <1>5 DEF DelFacts
  <2>3. ASSUME Rest("fail") PROVE DelFacts'
    <3>1. at' = 12
      BY <1>0, <1>5
    <3>2. /\ Is("var", "var")
          /\ In("var", "log", "log")
      BY <1>0, <1>5 DEF DelFacts, In
    <3>3. Is("var", "var")' /\ In("var", "log", "log")'
      BY <2>3, <3>2 DEF Rest
    <3>4. QED
      BY <3>1, <3>3 DEF DelFacts
  <2>4. QED
    BY <1>0, <1>5, <2>1, <2>2, <2>3 DEF Target
<1>6. CASE k = 12
  <2>1. call.in = "var" /\ call.var = "log" /\ call.op = "delete_dir"
    BY <1>0, <1>6, DelFsText, CallFields
  <2>2. In("var", "log", "log")
    BY <1>0, <1>6 DEF DelFacts
  <2>3. ASSUME Rest("log") PROVE DelFacts'
    <3>1. at' = 13
      BY <1>0, <1>6
    <3>2. QED
      BY <3>1, NothingKnown
  <2>4. Is("var", "var")
    BY <1>0, <1>6 DEF DelFacts, In
  <2>5. QED
    BY <1>0, <1>6, <2>1, <2>2, <2>3, <2>4 DEF Target
<1>7. CASE k = 16
  <2>1. call.in = "dir" /\ call.var = "node" /\ call.op = "delete_file"
    BY <1>0, <1>7, DelFsText, CallFields
  <2>2. In("dir", "node", "read.2")
    BY <1>0, <1>7 DEF DelFacts
  <2>3. ASSUME Rest("read.2") PROVE DelFacts'
    <3>1. at' = 17
      BY <1>0, <1>7
    <3>2. QED
      BY <3>1, NothingKnown
  <2>4. Is("dir", "man")
    BY <1>0, <1>7 DEF DelFacts, In
  <2>5. QED
    BY <1>0, <1>7, <2>1, <2>2, <2>3, <2>4 DEF Target
<1>8. CASE k = 19
  <2>1. call.in = "dir" /\ call.var = "node" /\ call.op = "delete_file"
    BY <1>0, <1>8, DelFsText, CallFields
  <2>2. In("dir", "node", "hosts")
    BY <1>0, <1>8 DEF DelFacts
  <2>3. ASSUME Rest("hosts") PROVE DelFacts'
    <3>1. at' = 20
      BY <1>0, <1>8
    <3>2. QED
      BY <3>1, NothingKnown
  <2>4. Is("dir", "etc")
    BY <1>0, <1>8 DEF DelFacts, In
  <2>5. QED
    BY <1>0, <1>8, <2>1, <2>2, <2>3, <2>4 DEF Target
<1>9. CASE k = 22
  <2>1. call.in = "dir" /\ call.var = "node" /\ call.op = "delete_file"
    BY <1>0, <1>9, DelFsText, CallFields
  <2>2. In("dir", "node", "host.conf")
    BY <1>0, <1>9 DEF DelFacts
  <2>3. ASSUME Rest("host.conf") PROVE DelFacts'
    <3>1. at' = 23
      BY <1>0, <1>9
    <3>2. QED
      BY <3>1, NothingKnown
  <2>4. Is("dir", "etc")
    BY <1>0, <1>9 DEF DelFacts, In
  <2>5. QED
    BY <1>0, <1>9, <2>1, <2>2, <2>3, <2>4 DEF Target
<1>10. CASE k = 25
  <2>1. call.in = "dir" /\ call.var = "http" /\ call.op = "delete_dir"
    BY <1>0, <1>10, DelFsText, CallFields
  <2>2. In("dir", "http", "httpd")
    BY <1>0, <1>10 DEF DelFacts
  <2>3. ASSUME Rest("httpd") PROVE DelFacts'
    <3>1. at' = 26
      BY <1>0, <1>10
    <3>2. Is("dir", "etc")
      BY <1>0, <1>10 DEF DelFacts, In
    <3>3. Is("dir", "etc")'
      BY <2>3, <3>2 DEF Rest
    <3>4. QED
      BY <3>1, <3>3 DEF DelFacts
  <2>4. Is("dir", "etc")
    BY <1>0, <1>10 DEF DelFacts, In
  <2>5. QED
    BY <1>0, <1>10, <2>1, <2>2, <2>3, <2>4 DEF Target
<1>11. CASE k = 28
  <2>1. call.in = "http" /\ call.var = "node" /\ call.op = "delete_file"
    BY <1>0, <1>11, DelFsText, CallFields
  <2>2. In("http", "node", "conf")
    BY <1>0, <1>11 DEF DelFacts
  <2>3. ASSUME Rest("conf") PROVE DelFacts'
    <3>1. at' = 29
      BY <1>0, <1>11
    <3>2. /\ Is("dir", "etc")
          /\ In("dir", "http", "httpd")
      BY <1>0, <1>11 DEF DelFacts, In
    <3>3. Is("dir", "etc")' /\ In("dir", "http", "httpd")'
      BY <2>3, <3>2 DEF Rest
    <3>4. QED
      BY <3>1, <3>3 DEF DelFacts
  <2>4. Is("http", "httpd")
    BY <1>0, <1>11 DEF DelFacts, In
  <2>5. QED
    BY <1>0, <1>11, <2>1, <2>2, <2>3, <2>4 DEF Target
<1>12. CASE k = 29
  <2>1. call.in = "dir" /\ call.var = "http" /\ call.op = "delete_dir"
    BY <1>0, <1>12, DelFsText, CallFields
  <2>2. In("dir", "http", "httpd")
    BY <1>0, <1>12 DEF DelFacts
  <2>3. ASSUME Rest("httpd") PROVE DelFacts'
    <3>1. at' = 30
      BY <1>0, <1>12
    <3>2. QED
      BY <3>1, NothingKnown
  <2>4. Is("dir", "etc")
    BY <1>0, <1>12 DEF DelFacts, In
  <2>5. QED
    BY <1>0, <1>12, <2>1, <2>2, <2>3, <2>4 DEF Target
<1>13. CASE k = 32
  <2>1. call.in = "dir" /\ call.var = "udir" /\ call.op = "delete_dir"
    BY <1>0, <1>13, DelFsText, CallFields
  <2>2. In("dir", "udir", "user")
    BY <1>0, <1>13 DEF DelFacts
  <2>3. ASSUME Rest("user") PROVE DelFacts'
    <3>1. at' = 33
      BY <1>0, <1>13
    <3>2. Is("dir", "home")
      BY <1>0, <1>13 DEF DelFacts, In
    <3>3. Is("dir", "home")'
      BY <2>3, <3>2 DEF Rest
    <3>4. QED
      BY <3>1, <3>3 DEF DelFacts
  <2>4. Is("dir", "home")
    BY <1>0, <1>13 DEF DelFacts, In
  <2>5. QED
    BY <1>0, <1>13, <2>1, <2>2, <2>3, <2>4 DEF Target
<1>14. CASE k = 35
  <2>1. call.in = "udir" /\ call.var = "dl" /\ call.op = "delete_dir"
    BY <1>0, <1>14, DelFsText, CallFields
  <2>2. In("udir", "dl", "Download")
    BY <1>0, <1>14 DEF DelFacts
  <2>3. ASSUME Rest("Download") PROVE DelFacts'
    <3>1. at' = 36
      BY <1>0, <1>14
    <3>2. /\ Is("dir", "home")
          /\ In("dir", "udir", "user")
      BY <1>0, <1>14 DEF DelFacts, In
    <3>3. Is("dir", "home")' /\ In("dir", "udir", "user")'
      BY <2>3, <3>2 DEF Rest
    <3>4. QED
      BY <3>1, <3>3 DEF DelFacts
  <2>4. Is("udir", "user")
    BY <1>0, <1>14 DEF DelFacts, In
  <2>5. QED
    BY <1>0, <1>14, <2>1, <2>2, <2>3, <2>4 DEF Target
<1>15. CASE k = 38
  <2>1. call.in = "dl" /\ call.var = "node" /\ call.op = "delete_file"
    BY <1>0, <1>15, DelFsText, CallFields
  <2>2. In("dl", "node", "oblig2")
    BY <1>0, <1>15 DEF DelFacts
  <2>3. ASSUME Rest("oblig2") PROVE DelFacts'
    <3>1. at' = 39
      BY <1>0, <1>15
    <3>2. /\ Is("dir", "home")
          /\ In("dir", "udir", "user")
          /\ In("udir", "dl", "Download")
          /\ Is("udir", "user")
      BY <1>0, <1>15 DEF DelFacts, In
    <3>3. Is("dir", "home")' /\ In("dir", "udir", "user")' /\ In("udir", "dl", "Download")'
      BY <2>3, <3>2 DEF Rest
    <3>4. QED
      BY <3>1, <3>3 DEF DelFacts
  <2>4. Is("dl", "Download")
    BY <1>0, <1>15 DEF DelFacts, In
  <2>5. QED
    BY <1>0, <1>15, <2>1, <2>2, <2>3, <2>4 DEF Target
<1>16. CASE k = 39
  <2>1. call.in = "udir" /\ call.var = "dl" /\ call.op = "delete_dir"
    BY <1>0, <1>16, DelFsText, CallFields
  <2>2. In("udir", "dl", "Download")
    BY <1>0, <1>16 DEF DelFacts
  <2>3. ASSUME Rest("Download") PROVE DelFacts'
    <3>1. at' = 40
      BY <1>0, <1>16
    <3>2. /\ Is("dir", "home")
          /\ In("dir", "udir", "user")
      BY <1>0, <1>16 DEF DelFacts, In
    <3>3. Is("dir", "home")' /\ In("dir", "udir", "user")'
      BY <2>3, <3>2 DEF Rest
    <3>4. QED
      BY <3>1, <3>3 DEF DelFacts
  <2>4. Is("udir", "user")
    BY <1>0, <1>16 DEF DelFacts, In
  <2>5. QED
    BY <1>0, <1>16, <2>1, <2>2, <2>3, <2>4 DEF Target
<1>17. CASE k = 40
  <2>1. call.in = "dir" /\ call.var = "udir" /\ call.op = "delete_dir"
    BY <1>0, <1>17, DelFsText, CallFields
  <2>2. In("dir", "udir", "user")
    BY <1>0, <1>17 DEF DelFacts
  <2>3. ASSUME Rest("user") PROVE DelFacts'
    <3>1. at' = 41
      BY <1>0, <1>17
    <3>2. QED
      BY <3>1, NothingKnown
  <2>4. Is("dir", "home")
    BY <1>0, <1>17 DEF DelFacts, In
  <2>5. QED
    BY <1>0, <1>17, <2>1, <2>2, <2>3, <2>4 DEF Target
<1>18. CASE k \in {1, 3, 4, 6, 8, 10, 13, 14, 15, 17, 18, 20, 21, 23, 24, 26, 27, 30, 31, 33, 34, 36, 37}
  <2>1. DelFs[k].op = "find"
    BY <1>18, DelFsText, CallFields
  <2>2. QED
    BY <1>0, <2>1
<1>19. QED
  BY <1>0, <1>1, <1>2, <1>3, <1>4, <1>5, <1>6, <1>7, <1>8, <1>9, <1>10, <1>11, <1>12, <1>13, <1>14,
     <1>15, <1>16, <1>17, <1>18

\* A directory log that is not empty is not deleted: the first attempt at
\* /var/log fails.
LEMMA FirstAttemptFails ==
    ASSUME ProgramsInv, InMemory, child = NULL, LogsKept, prog = "del_fs", at = 5,
           NEW n \in DOMAIN inode, inode[n].is_directory, inode[n].name = "log"
    PROVE  inode[n].children # <<>>
<1>1. n \in Directories \ {child}
  BY DirectoryIsNotNull DEF ProgramsInv, Directories
<1>2. ~LogAtWork(n)
  BY DEF LogAtWork
<1>3. QED
  BY <1>1, <1>2 DEF LogsKept

\* If the last attempt is refused, /var/log is not empty.
LEMMA LastAttempt ==
    ASSUME ProgramsInv, InMemory, pc = "idle", NEW v, NEW w, In(w, v, "log"),
           Instr.op = "delete_dir", Refused(local[w], local[v]),
           inode[local[v]].is_directory
    PROVE  inode[local[v]].children # <<>>
<1>1. PICK n, p : n = local[v] /\ p = local[w]
  OBVIOUS
<1>2. n \in DOMAIN inode /\ Refused(p, n)
  BY <1>1 DEF In, Is, Has
<1>3. root # NULL /\ GoodTree(inode, root)
  BY <1>2, RunningTree DEF ProgramsInv
<1>4. inode[root].is_directory
  <2> SUFFICES ASSUME ~inode[root].is_directory PROVE FALSE
      OBVIOUS
  <2>1. DOMAIN inode = {root}
    BY <1>3, LoneFile
  <2>2. QED
    BY <1>1, <1>2, <2>1
<1>5. n \in ChildrenOf(p)
  BY <1>1, <1>4 DEF In
<1>6. QED
  BY <1>1, <1>2, <1>5 DEF Refused

\* A call to delete.
LEMMA DeleteProg ==
    ASSUME ProgramsInv, DeleteCall
    PROVE  ProgInv'
<1>1. /\ prog = "del_fs" /\ phase = "running" /\ pc = "idle" /\ InMemory
      /\ at \in 1 .. 40 /\ Instr = DelFs[at] /\ DelFacts /\ LogsKept
      /\ Instr.op \in {"delete_file", "delete_dir"}
  BY DeleterAt DEF InMemory
<1>2. at' = at + 1 /\ UNCHANGED <<prog, local>>
  BY DEF DeleteCall, Advance
<1>3. PICK call : call = Instr
  OBVIOUS
<1>4. PICK name : Target(call, name)
  BY <1>1, <1>2, <1>3, DeleteKeeps
<1>5. PICK w, v : w = call.in /\ v = call.var /\ In(w, v, name)
  BY <1>4 DEF Target
<1>6. PICK p, n : p = local[w] /\ n = local[v]
  OBVIOUS
<1>7. \/ Refused(p, n) /\ UNCHANGED allVars
      \/ /\ Call /\ UNCHANGED <<bat, inode, root, mft, phase, saved>>
         /\ inode[n].children = <<>>
         /\ inode[n].is_directory <=> call.op = "delete_dir"
         /\ inode[root].is_directory /\ root # NULL /\ inode[n].name = name
         /\ p \in Directories /\ n \in ChildrenOf(p)
         /\ child' = n /\ parent' = p /\ pc' = "freeing"
  BY <1>3, <1>5, <1>6, DeleteIs
<1>8. /\ UNCHANGED <<bat, inode, root, mft, phase, saved>>
      /\ pc' \in {"idle", "freeing"} /\ (pc' # "idle" => dirty')
      /\ pc' = "idle" => Refused(p, n) /\ child' = child
  BY <1>1, <1>7 DEF allVars, vars, Call, Perform
<1>9. child = NULL /\ n \in DOMAIN inode /\ p \in DOMAIN inode /\ root # NULL
  BY <1>1, <1>5, <1>6, RunningTree DEF ProgramsInv, TypeOK, In, Is, Has
<1>10. Spared(name)
  <2>1. CASE UNCHANGED allVars
    BY <2>1 DEF Spared, allVars, vars
  <2>2. CASE inode[root].is_directory /\ inode[n].name = name /\ child' = n
    BY <2>2 DEF Spared
  <2>3. QED
    BY <1>7, <2>1, <2>2
<1>11. at = 5 => pc' = "idle"
  <2> SUFFICES ASSUME at = 5, pc' # "idle" PROVE FALSE
      OBVIOUS
  <2>1. /\ inode[n].children = <<>> /\ inode[n].name = name
        /\ inode[n].is_directory <=> call.op = "delete_dir"
    BY <1>1, <1>7, <1>8 DEF allVars, vars
  <2>2. name = "log" /\ call.op = "delete_dir"
    BY <1>4 DEF Target
  <2>3. QED
    BY <1>1, <1>9, <2>1, <2>2, FirstAttemptFails
<1>12. DelFacts'
  <2>1. Rest(name)
    BY <1>2, <1>8, <1>10, RestKept
  <2>2. ASSUME at = 5, NEW other PROVE Rest(other)
    BY <1>2, <1>8, <1>11, <2>2, RestKept DEF Spared
  <2>3. QED
    BY <1>4, <2>1, <2>2 DEF Target
<1>13. LogsKept'
  <2>1. Directories' = Directories
    BY <1>8 DEF Directories
  <2>2. ASSUME NEW q \in Directories, q # child', inode[q].name = "log",
               inode[q].children = <<>>
        PROVE  LogAtWork(q)'
    <3>1. q # child
      BY <1>1, <1>9, <2>2, DirectoryIsNotNull DEF ProgramsInv
    <3>2. LogAtWork(q)
      BY <1>1, <2>2, <3>1 DEF LogsKept
    <3>3. at \in 6 .. 12 /\ q = local["log"]
      BY <3>2 DEF LogAtWork
    <3>4. CASE at = 12
      <4>1. name = "log" /\ v = "log" /\ call.op = "delete_dir"
        BY <1>4, <1>5, <3>4 DEF Target
      <4>2. q = n
        BY <1>6, <3>3, <4>1
      <4>3. Refused(p, n)
        BY <1>7, <2>2, <4>2
      <4>4. inode[n].is_directory
        BY <2>2, <4>2 DEF Directories
      <4>5. inode[n].children # <<>>
        BY <1>1, <1>3, <1>5, <1>6, <4>1, <4>3, <4>4, LastAttempt
      <4>6. QED
        BY <2>2, <4>2, <4>5
    <3>5. CASE at # 12
      <4>1. at' \in 6 .. 12
        BY <1>2, <3>3, <3>5
      <4>2. QED
        BY <1>1, <1>2, <3>3, <4>1 DEF LogAtWork
    <3>6. QED
      BY <3>4, <3>5
  <2>3. ASSUME pc' = "freeing" PROVE (inode[parent].name # "log" \/ LogAtWork(parent))'
    <3>1. /\ parent' = p /\ inode[root].is_directory
      BY <1>1, <1>7, <2>3 DEF allVars, vars
    <3>2. CASE call.in = "root"
      <4>1. p = root
        BY <1>1, <1>5, <1>6, <3>2 DEF ProgramsInv, ProgInv, LoaderInv, Loaders
      <4>2. inode[p].name = RootName
        BY <1>1, <1>9, <3>1, <4>1 DEF ProgramsInv, ProgInv, TopNamed
      <4>3. RootName # "log"
        BY ProgramsAssumption
      <4>4. QED
        BY <1>8, <3>1, <4>2, <4>3
    <3>3. CASE \E other : other # "log" /\ Is(call.in, other)
      <4>1. inode[p].name # "log"
        BY <1>5, <1>6, <3>1, <3>3 DEF Is
      <4>2. QED
        BY <1>8, <3>1, <4>1
    <3>4. CASE call.in = "log" /\ at \in {7, 9, 11}
      <4>1. at' \in 6 .. 12 /\ p = local["log"]
        BY <1>2, <1>5, <1>6, <3>4
      <4>2. LogAtWork(parent)'
        BY <1>1, <1>2, <3>1, <4>1 DEF LogAtWork
      <4>3. QED
        BY <4>2
    <3>5. QED
      BY <1>4, <3>2, <3>3, <3>4 DEF Target
  <2>4. QED
    BY <1>8, <2>1, <2>2, <2>3 DEF LogsKept
<1>14. prog \in Loaders /\ prog \notin Creators /\ prog # "none" /\ prog # "load_fs"
  BY <1>1 DEF Loaders, Creators
<1>15. LoaderInv'
  BY <1>1, <1>2, <1>8, <1>9, <1>12, <1>13, <1>14 DEF ProgramsInv, ProgInv, LoaderInv
<1>16. Life' /\ SavedOK'
  <2>1. PICK m \in 41 .. 41 : m = Len(Text(prog))
    BY <1>1, Texts
  <2>2. at' \in 1 .. m + 1 /\ at' <= m
    <3>1. at \in 1 .. 40
      BY <1>1
    <3>2. at' \in 2 .. 41
      BY <1>2, <3>1
    <3>3. QED
      BY <3>2
  <2>3. Life'
    BY <1>1, <1>2, <1>8, <1>14, <2>1, <2>2 DEF Life
  <2>4. QED
    BY <1>8, <2>3 DEF ProgramsInv, ProgInv, SavedOK
<1>17. QED
  BY <1>1, <1>2, <1>8, <1>14, <1>15, <1>16 DEF ProgramsInv, ProgInv, CreatorInv, TopNamed

-------------------------------------------------------------------------------
(* Programs create *)

\* A step of a program that creates keeps Life, if the text goes on.
LEMMA CreatorLives ==
    ASSUME ProgramsInv, prog \in Creators, phase = "running",
           UNCHANGED <<prog, phase, mft, saved>>, dirty', at' \in 1 .. Len(Text(prog))
    PROVE  Life' /\ SavedOK' /\ LoaderInv'
<1>1. prog \notin Loaders /\ prog # "none" /\ prog # "load_fs"
  BY DEF Creators, Loaders
<1>2. PICK n \in 13 .. 15 : n = Len(Text(prog))
  BY Texts
<1>3. at' \in 1 .. n + 1 /\ at' <= n
  BY <1>2
<1>4. Life'
  BY <1>1, <1>2, <1>3 DEF Life
<1>5. QED
  BY <1>1, <1>4 DEF ProgramsInv, ProgInv, SavedOK, LoaderInv

\* The directory new has been made.
DirMade(new) ==
    /\ new \notin DOMAIN inode /\ DOMAIN inode' = DOMAIN inode \cup {new}
    /\ inode'[new].is_directory
    /\ inode'[new].name = IF at = 1 THEN RootName ELSE Instr.name
    /\ \A q \in DOMAIN inode : inode'[q].name = inode[q].name
                            /\ inode'[q].is_directory = inode[q].is_directory
    /\ root' = IF at = 1 THEN new ELSE root

\* create_dir makes one directory and sets the variable to it.
LEMMA CreateDirEffect ==
    ASSUME ProgramsInv, CreateDirCall
    PROVE  /\ \E new : DirMade(new) /\ local' = Set(Instr.var, new)
           /\ UNCHANGED <<bat, pc, child, phase, mft, saved>> /\ dirty'
<1>1. Before("create_dir") /\ phase = "running" /\ InMemory
  BY DEF CreateDirCall, Before, InMemory
<1>2. IInv /\ num_inode_ids \in Nat /\ RootName \in Names
  BY <1>1, RunningTree, InodeAssumption DEF ProgramsInv, TypeOK
<1>3. \/ at = 1 /\ Perform(CreateRoot)
      \/ /\ at > 1 /\ local[Instr.in] \in Directories /\ Instr.name \in Names
         /\ Perform(CreateDir(local[Instr.in], Instr.name))
  BY CreateDirIs
<1>4. /\ UNCHANGED <<bat, pc, child, phase, mft, saved>> /\ dirty'
  BY <1>3 DEF Perform, CreateRoot, CreateDir
<1>5. PICK x \in DOMAIN inode' \ DOMAIN inode : local' = Set(Instr.var, x)
  BY DEF CreateDirCall
<1>6. CASE at = 1 /\ Perform(CreateRoot)
  <2>1. PICK new \in Ptr \ DOMAIN inode :
              inode' = With(new, NewDirectory(num_inode_ids, RootName)) /\ root' = new
    BY <1>6 DEF Perform, CreateRoot
  <2>2. PICK record : record = NewDirectory(num_inode_ids, RootName)
    OBVIOUS
  <2>3. /\ record \in InodeRecord /\ record.children = <<>> /\ record.name = RootName
        /\ record.is_directory
    BY <1>2, <2>2, NewFields
  <2>4. /\ DOMAIN inode' = DOMAIN inode \cup {new} /\ inode'[new] = record
        /\ \A q \in DOMAIN inode : Same(q)
    BY <1>2, <2>1, <2>2, <2>3, LeafEffect
  <2>5. DirMade(new)
    BY <1>6, <2>1, <2>3, <2>4 DEF DirMade, Same, Kept
  <2>6. x = new
    BY <1>5, <2>4
  <2>7. QED
    BY <1>4, <1>5, <2>5, <2>6
<1>7. CASE /\ at > 1 /\ local[Instr.in] \in Directories /\ Instr.name \in Names
           /\ Perform(CreateDir(local[Instr.in], Instr.name))
  <2>0. PICK p, name : p = local[Instr.in] /\ name = Instr.name
    OBVIOUS
  <2>1. p \in DOMAIN inode /\ name \in Names /\ Perform(CreateDir(p, name)) /\ at # 1
    BY <1>7, <2>0 DEF Directories
  <2>2. PICK new \in Ptr \ DOMAIN inode :
              AddInodeToParent(p, new, NewDirectory(num_inode_ids, name))
    BY <2>1 DEF Perform, CreateDir
  <2>3. PICK record : record = NewDirectory(num_inode_ids, name)
    OBVIOUS
  <2>4. /\ record \in InodeRecord /\ record.children = <<>> /\ record.name = name
        /\ record.is_directory
    <3>1. name \in Names /\ num_inode_ids \in Nat
      BY <1>2, <2>1
    <3>2. QED
      BY <2>3, <3>1, NewFields
  <2>5. new # p /\ root' = root
    BY <2>1 DEF Perform, CreateDir
  <2>6. /\ DOMAIN inode' = DOMAIN inode \cup {new} /\ inode'[new] = record /\ Kept(p)
        /\ \A q \in DOMAIN inode \ {p, new} : Same(q)
    BY <1>2, <2>1, <2>2, <2>3, <2>4, <2>5, ChildEffect
  <2>7. \A q \in DOMAIN inode : Kept(q)
    BY <2>1, <2>2, <2>6 DEF Same
  <2>8. DirMade(new)
    BY <2>0, <2>1, <2>2, <2>4, <2>5, <2>6, <2>7 DEF DirMade, Kept
  <2>9. x = new
    BY <1>5, <2>6
  <2>10. QED
    BY <1>4, <1>5, <2>8, <2>9
<1>8. QED
  BY <1>3, <1>6, <1>7

\* A call to create_dir.
LEMMA CreateDirProg ==
    ASSUME ProgramsInv, CreateDirCall, DiskInv'
    PROVE  ProgInv'
<1>1. /\ prog \in Creators /\ at \in 1 .. Len(Text(prog)) - 1 /\ phase = "running" /\ pc = "idle"
      /\ WellMade(prog, Text(prog), at) /\ Instr = Text(prog)[at] /\ Instr.op = "create_dir"
  BY CreatorAt, Running DEF CreateDirCall
<1>2. at' = at + 1 /\ prog' = prog
  BY DEF CreateDirCall, Advance
<1>3. /\ UNCHANGED <<bat, pc, child, phase, mft, saved>> /\ dirty'
  BY CreateDirEffect
<1>4. PICK new : DirMade(new) /\ local' = Set(Instr.var, new)
  BY CreateDirEffect
<1>5. PICK t, n : t = Text(prog) /\ n = Len(t) /\ n \in 13 .. 15
  BY <1>1, Texts
<1>6. at \in 1 .. n - 1 /\ at \in Nat
  BY <1>1, <1>5
<1>7. InMemory /\ InMemory'
  BY <1>1, <1>3 DEF InMemory
<1>8. Directories' = Directories \cup {new} /\ new \notin Directories
  BY <1>4 DEF Directories, DirMade
<1>9. PlacesMade'
  <2>1. ASSUME NEW k \in 1 .. at, t[k].op = "create_dir"
        PROVE  t[k].var \in DOMAIN local' /\ local'[t[k].var] \in Directories'
    <3>1. CASE t[k].var = Instr.var
      <4>1. PICK var : var = Instr.var /\ local' = Set(var, new)
        BY <1>4
      <4>2. DOMAIN local' = DOMAIN local \cup {var}
        BY <4>1, SetEffect
      <4>3. local'[var] = new
        BY <4>1, SetEffect
      <4>4. QED
        BY <1>8, <3>1, <4>1, <4>2, <4>3
    <3>2. CASE t[k].var # Instr.var
      <4>1. k # at
        BY <1>1, <1>5, <3>2
      <4>2. k \in 1 .. at - 1
        BY <1>6, <4>1
      <4>3. t[k].var \in DOMAIN local /\ local[t[k].var] \in Directories
        BY <1>1, <1>5, <2>1, <4>2 DEF ProgramsInv, ProgInv, CreatorInv, PlacesMade
      <4>4. QED
        BY <1>4, <1>8, <3>2, <4>3, SetEffect
    <3>3. QED
      BY <3>1, <3>2
  <2>2. at' - 1 = at
    BY <1>2, <1>6
  <2>3. QED
    BY <1>2, <1>5, <2>1, <2>2 DEF PlacesMade
<1>10. prog = "create_fs_2" => at \in 1 .. 6
  BY <1>1, <1>6 DEF WellMade
<1>11. ASSUME NEW p \in Directories', inode'[p].name = "log"
       PROVE  prog' = "create_fs_2" /\ at' > 6 /\ p = local'["log"]
  <2>1. p = new
    <3> SUFFICES ASSUME p # new PROVE FALSE
        OBVIOUS
    <3>1. p \in Directories /\ inode[p].name = "log"
      BY <1>4, <1>8, <1>11 DEF DirMade, Directories
    <3>2. prog = "create_fs_2" /\ at > 6
      BY <1>1, <3>1 DEF ProgramsInv, ProgInv, CreatorInv
    <3>3. QED
      BY <1>10, <3>2
  <2>2. at # 1 /\ Instr.name = "log"
    BY <1>4, <1>11, <2>1, ProgramsAssumption DEF DirMade
  <2>3. prog = "create_fs_2" /\ at = 6 /\ Instr.var = "log"
    BY <1>1, <2>2 DEF WellMade
  <2>4. local'["log"] = new
    BY <1>4, <2>3, SetEffect
  <2>5. QED
    BY <1>2, <2>1, <2>3, <2>4
<1>12. prog = "create_fs_2" => LogMade'
  <2> SUFFICES ASSUME prog = "create_fs_2" PROVE LogMade'
      OBVIOUS
  <2>1. at \in 1 .. 6 /\ at' \in 2 .. 7
    BY <1>2, <1>10
  <2>2. Taken(0)
    BY <1>1, <2>1 DEF ProgramsInv, ProgInv, CreatorInv, LogMade
  <2>3. Taken(0)'
    BY <1>3, <2>2 DEF Taken
  <2>4. QED
    BY <1>1, <1>3, <2>1, <2>3 DEF LogMade
<1>13. CreatorInv'
  <2>1. at' # 1
    BY <1>2, <1>6
  <2>2. QED
    BY <1>1, <1>2, <1>3, <1>9, <1>11, <1>12, <2>1 DEF CreatorInv
<1>14. TopNamed(inode', root')
  <2>1. CASE at = 1
    BY <1>4, <2>1 DEF TopNamed, DirMade
  <2>2. CASE at # 1
    <3>1. root' = root /\ root \in DOMAIN inode \cup {NULL}
      BY <1>4, <1>7, <2>2, RunningTree DEF DirMade, ProgramsInv
    <3>2. QED
      BY <1>4, <1>7, <3>1 DEF TopNamed, DirMade, ProgramsInv, ProgInv
  <2>3. QED
    BY <2>1, <2>2
<1>15. at' \in 1 .. Len(Text(prog))
  BY <1>2, <1>5, <1>6
<1>16. QED
  BY <1>1, <1>2, <1>3, <1>13, <1>14, <1>15, CreatorLives DEF ProgInv

\* Other calls leave the directories as they are.
LEMMA CreatorKeeps ==
    ASSUME ProgramsInv, prog \in Creators, UNCHANGED <<prog, local>>, at \in Nat,
           Directories' = Directories,
           \A p \in Directories : inode'[p].name = inode[p].name,
           \/ at' = at
           \/ at' = at + 1 /\ Text(prog)[at].op # "create_dir"
    PROVE  /\ PlacesMade'
           /\ \A p \in Directories' :
                 inode'[p].name = "log" =>
                    prog' = "create_fs_2" /\ at' > 6 /\ p = local'["log"]
<1>1. PICK t : t = Text(prog)
  OBVIOUS
<1>2. ASSUME NEW k \in 1 .. at' - 1, t[k].op = "create_dir"
      PROVE  t[k].var \in DOMAIN local' /\ local'[t[k].var] \in Directories'
  <2>1. k \in 1 .. at - 1
    <3>1. k # at \/ at' = at
      BY <1>1, <1>2
    <3>2. QED
      BY <3>1
  <2>2. QED
    BY <1>1, <1>2, <2>1 DEF ProgramsInv, ProgInv, CreatorInv, PlacesMade
<1>3. PlacesMade'
  BY <1>1, <1>2 DEF PlacesMade
<1>4. \A p \in Directories : inode[p].name = "log" =>
         prog = "create_fs_2" /\ at > 6 /\ p = local["log"]
  BY DEF ProgramsInv, ProgInv, CreatorInv
<1>5. QED
  BY <1>3, <1>4

\* The sizes there are need a number of blocks.
LEMMA NeededNat == \A size \in Sizes : BlocksNeeded(size) \in Nat
BY InodeAssumption, BlocksFit

\* A file has no blocks yet.
LEMMA NoneTaken ==
    ASSUME NEW n \in Nat, Taken(n), UNCHANGED bat,
           pc' = "allocating", inode'[child'].blocks = <<>>,
           NEW size \in Sizes, inode'[child'].filesize = size
    PROVE  Filling(size, n)'
<1>1. BlocksNeeded(size) \in Nat
  BY NeededNat
<1>2. Len(<<>>) = 0
  OBVIOUS
<1>3. Taken(n + 0)'
  BY DEF Taken
<1>4. QED
  BY <1>1, <1>2, <1>3 DEF Filling

\* A call to create_file.
LEMMA CreateFileProg ==
    ASSUME ProgramsInv, CreateFileCall
    PROVE  ProgInv'
<1>1. /\ prog \in Creators /\ at \in 1 .. Len(Text(prog)) - 1 /\ phase = "running" /\ pc = "idle"
      /\ WellMade(prog, Text(prog), at) /\ Instr = Text(prog)[at] /\ Instr.op = "create_file"
      /\ at > 1
  BY CreatorAt, Running DEF CreateFileCall
<1>2. at' = at + 1 /\ prog' = prog /\ local' = local
  BY DEF CreateFileCall, Advance
<1>3. PICK p, name, size : p = local[Instr.in] /\ name = Instr.name /\ size = Instr.size
  OBVIOUS
<1>4. /\ p \in Directories /\ name \in Names /\ size \in Sizes
      /\ Perform(CreateFile(p, name, size))
  BY <1>3, CreateFileIs
<1>5. PICK t, n : t = Text(prog) /\ n = Len(t) /\ n \in 13 .. 15
  BY <1>1, Texts
<1>6. at \in 1 .. n - 1 /\ at \in Nat
  BY <1>1, <1>5
<1>7. InMemory /\ InMemory'
  BY <1>1, <1>4 DEF InMemory, Perform
<1>8. IInv /\ num_inode_ids \in Nat /\ root \in DOMAIN inode \cup {NULL}
  BY <1>7, RunningTree DEF ProgramsInv, TypeOK
<1>9. PICK new \in Ptr \ DOMAIN inode :
         inode' = With(new, NewFile(num_inode_ids, name, size)) /\ child' = new
  BY <1>4 DEF Perform, CreateFile
<1>10. /\ pc' = "allocating" /\ parent' = p /\ dirty'
       /\ UNCHANGED <<bat, root, phase, mft, saved>>
  BY <1>4 DEF Perform, CreateFile
<1>11. PICK record : record = NewFile(num_inode_ids, name, size)
  OBVIOUS
<1>12. /\ record \in InodeRecord /\ record.children = <<>> /\ ~record.is_directory
       /\ record.filesize = size /\ record.blocks = <<>>
  <2>1. \A s \in Sizes :
          /\ NewFile(num_inode_ids, name, s) \in InodeRecord
          /\ NewFile(num_inode_ids, name, s).children = <<>>
          /\ NewFile(num_inode_ids, name, s).blocks = <<>>
          /\ NewFile(num_inode_ids, name, s).filesize = s
          /\ ~NewFile(num_inode_ids, name, s).is_directory
    BY <1>4, <1>8, NewFields
  <2>2. QED
    BY <1>4, <1>11, <2>1
<1>13. /\ DOMAIN inode' = DOMAIN inode \cup {new} /\ inode'[new] = record
       /\ \A q \in DOMAIN inode : Same(q) /\ q # new
  BY <1>8, <1>9, <1>11, <1>12, LeafEffect
<1>14. \A q \in DOMAIN inode : inode'[q] = inode[q]
  BY <1>9 DEF With
<1>15. Directories' = Directories
  BY <1>12, <1>13, <1>14 DEF Directories
<1>16. /\ PlacesMade'
       /\ \A q \in Directories' :
             inode'[q].name = "log" => prog' = "create_fs_2" /\ at' > 6 /\ q = local'["log"]
  <2>1. \A q \in Directories : inode'[q].name = inode[q].name
    BY <1>14 DEF Directories
  <2>2. at' = at + 1 /\ Text(prog)[at].op # "create_dir"
    BY <1>1, <1>2
  <2>3. QED
    BY <1>1, <1>2, <1>6, <1>15, <2>1, <2>2, CreatorKeeps
<1>17. prog = "create_fs_2" => LogMade'
  <2> SUFFICES ASSUME prog = "create_fs_2" PROVE LogMade'
      OBVIOUS
  <2>1. at \notin 1 .. 6 /\ WellMade("create_fs_2", t, at)
    BY <1>1, <1>5, <1>6 DEF WellMade
  <2>2. at > 6 /\ LogMade
    BY <1>1, <1>6, <2>1 DEF ProgramsInv, ProgInv, CreatorInv
  <2>3. /\ pc' = "allocating" /\ inode'[child'].blocks = <<>> /\ UNCHANGED bat
        /\ inode'[child'].filesize = size
    BY <1>9, <1>10, <1>12, <1>13
  <2>4. CASE at = 7
    <3>1. size = Kernel /\ Taken(0) /\ at' = 8
      BY <1>1, <1>2, <1>3, <1>5, <2>1, <2>2, <2>4 DEF WellMade, LogMade
    <3>2. Filling(Kernel, 0)'
      BY <1>4, <2>3, <3>1, NoneTaken
    <3>3. QED
      BY <3>1, <3>2 DEF LogMade
  <2>5. CASE at = 8
    <3>1. /\ size = Message /\ Taken(BlocksNeeded(Kernel)) /\ at' = 9 /\ parent' = local'["log"]
      BY <1>1, <1>2, <1>3, <1>5, <1>10, <2>1, <2>2, <2>5 DEF WellMade, LogMade, Filling
    <3>2. BlocksNeeded(Kernel) \in Nat
      BY ScaleAssumption DEF BlocksNeeded, BLOCKSIZE, Kernel
    <3>3. Filling(Message, BlocksNeeded(Kernel))'
      BY <1>4, <2>3, <3>1, <3>2, NoneTaken
    <3>4. QED
      BY <1>10, <3>1, <3>3 DEF LogMade
  <2>6. CASE at > 8
    <3>1. inode[local["log"]].children # <<>> /\ at' > 9
      BY <1>1, <1>2, <1>6, <2>2, <2>6 DEF LogMade
    <3>2. local["log"] \in Directories
      <4>1. 6 \in 1 .. at - 1 /\ 6 \in 1 .. n
        BY <1>5, <1>6, <2>6
      <4>2. WellMade("create_fs_2", t, 6)
        BY <1>1, <1>5, <4>1, Texts
      <4>3. t[6].op = "create_dir" /\ t[6].var = "log"
        BY <4>2 DEF WellMade
      <4>4. QED
        BY <1>1, <1>5, <4>1, <4>3 DEF ProgramsInv, ProgInv, CreatorInv, PlacesMade
    <3>3. inode'[local["log"]].children # <<>>
      BY <1>14, <3>1, <3>2 DEF Directories
    <3>4. at' \in Nat
      BY <1>2, <1>6
    <3>5. QED
      BY <1>2, <3>1, <3>3, <3>4 DEF LogMade
  <2>7. QED
    BY <1>6, <2>2, <2>4, <2>5, <2>6
<1>18. CreatorInv'
  <2>1. at' # 1
    BY <1>2, <1>6
  <2>2. QED
    BY <1>1, <1>2, <1>10, <1>16, <1>17, <2>1 DEF CreatorInv
<1>19. TopNamed(inode', root')
  BY <1>7, <1>8, <1>10, <1>14 DEF TopNamed, ProgramsInv, ProgInv
<1>20. at' \in 1 .. Len(Text(prog))
  BY <1>2, <1>5, <1>6
<1>21. QED
  BY <1>1, <1>2, <1>10, <1>18, <1>19, <1>20, CreatorLives DEF ProgInv

-------------------------------------------------------------------------------
(* Programs inside a call *)

\* An inode has no children or has some, before and after a step.
LEMMA HasChildren ==
    ASSUME IInv, IInv', NEW q \in DOMAIN inode, q \in DOMAIN inode'
    PROVE  /\ inode[q].children = <<>> <=> ChildrenOf(q) = {}
           /\ inode'[q].children = <<>> <=> ChildrenOf(q)' = {}
<1>1. inode[q].children \in Seq(Ptr) /\ inode'[q].children \in Seq(Ptr)
  BY DEF IInv, TypeOK, InodeRecord
<1>2. ASSUME NEW s \in Seq(Ptr)
      PROVE  s = <<>> <=> {s[i] : i \in DOMAIN s} = {}
  <2>1. s # <<>> => s[1] \in {s[i] : i \in DOMAIN s}
    BY <1>2
  <2>2. QED
    BY <2>1
<1>3. QED
  BY <1>1, <1>2 DEF ChildrenOf

\* The file that is being created gets the first unused block.
LEMMA FillingGoesOn ==
    ASSUME IInv, NEW size \in Sizes, NEW n \in Nat, Filling(size, n), AllocateBlock
    PROVE  Filling(size, n)'
<1>1. PICK c : c = child
  OBVIOUS
<1>2. c \in DOMAIN inode /\ pc = "allocating" /\ BlocksMissing
  BY <1>1 DEF AllocateBlock, IInv, TypeOK
<1>3. PICK k : k = Len(inode[c].blocks)
  OBVIOUS
<1>4. inode[c].blocks \in Seq(Blocks) /\ k \in Nat
  BY <1>2, <1>3, RecordFields
<1>5. /\ inode[c].filesize = size /\ Taken(n + k) /\ BlocksNeeded(size) \in Nat
      /\ k < BlocksNeeded(size)
  BY <1>1, <1>2, <1>3, NeededNat DEF Filling, BlocksMissing
<1>6. PICK b \in Blocks :
         /\ IsFirstUnused(bat, b) /\ bat' = Marked(bat, b)
         /\ inode' = [inode EXCEPT ![c].blocks = Append(@, b)]
  BY <1>1 DEF AllocateBlock
<1>7. b = n + k
  <2>1. b \in Nat /\ NUM_BLOCKS \in Nat
    BY <1>6, NumBlocksAssumption DEF Blocks
  <2>2. ~(b < n + k)
    BY <1>5, <1>6 DEF Taken, IsFirstUnused
  <2>3. ~(n + k < b)
    <3> SUFFICES ASSUME n + k < b PROVE FALSE
        OBVIOUS
    <3>1. n + k \in Blocks
      BY <1>4, <1>6, <2>1 DEF Blocks
    <3>2. bat[n + k] # 0
      BY <1>6, <3>1 DEF IsFirstUnused
    <3>3. QED
      BY <1>4, <1>5, <3>1, <3>2 DEF Taken
  <2>4. QED
    BY <1>4, <2>1, <2>2, <2>3
<1>8. Taken(n + k + 1)'
  <2> SUFFICES ASSUME NEW d \in Blocks PROVE bat'[d] = IF d < n + k + 1 THEN 1 ELSE 0
      BY DEF Taken
  <2>1. bat[d] = IF d < n + k THEN 1 ELSE 0
    BY <1>5 DEF Taken
  <2>2. bat \in Table \cup {EmptyFile} /\ d \in Int
    BY DEF IInv, TypeOK, Blocks
  <2>3. bat'[d] = IF d = n + k THEN 1 ELSE bat[d]
    BY <1>6, <1>7, <2>2, MarkedTable DEF IsFirstUnused
  <2>4. QED
    BY <1>4, <2>1, <2>2, <2>3
<1>9. inode'[c].blocks = Append(inode[c].blocks, b) /\ inode'[c].filesize = size
  BY <1>2, <1>5, <1>6, BlockEffect
<1>10. Len(inode'[c].blocks) = k + 1
  BY <1>3, <1>4, <1>9, AppendEffect
<1>11. k + 1 <= BlocksNeeded(size)
  BY <1>4, <1>5
<1>12. child' = c /\ pc' = "allocating"
  BY <1>1 DEF AllocateBlock
<1>13. n + Len(inode'[child'].blocks) = n + k + 1
  <2>1. Len(inode'[child'].blocks) = k + 1
    BY <1>10, <1>12, Zenon
  <2>2. QED
    BY <1>4, <2>1
<1>14. PICK m : m = n + k + 1
  OBVIOUS
<1>15. /\ Taken(m)' /\ n + Len(inode'[child'].blocks) = m
       /\ inode'[child'].filesize = size
  <2>1. Taken(m)'
    BY <1>8, <1>14 DEF Taken
  <2>2. QED
    BY <1>9, <1>12, <1>13, <1>14, <2>1, Zenon
<1>16. (Taken(n + Len(inode[child].blocks)))'
  BY <1>15 DEF Taken
<1>17. Len(inode'[child'].blocks) <= BlocksNeeded(size)
  BY <1>10, <1>11, <1>12
<1>18. QED
  BY <1>12, <1>15, <1>16, <1>17 DEF Filling

\* There is a block for it.
LEMMA FillingHasRoom ==
    ASSUME IInv, NEW size \in Sizes, NEW n \in Nat, Filling(size, n), BlocksMissing,
           n + BlocksNeeded(size) <= NUM_BLOCKS
    PROVE  ~Full(bat)
<1>1. PICK c : c = child
  OBVIOUS
<1>2. c \in DOMAIN inode
  BY <1>1 DEF Filling, IInv, TypeOK
<1>3. PICK k : k = Len(inode[c].blocks)
  OBVIOUS
<1>4. k \in Nat
  BY <1>2, <1>3, RecordFields
<1>5. Taken(n + k) /\ BlocksNeeded(size) \in Nat /\ k < BlocksNeeded(size)
  BY <1>1, <1>3, NeededNat DEF Filling, BlocksMissing
<1>6. n + k \in Blocks
  BY <1>4, <1>5, NumBlocksAssumption DEF Blocks
<1>7. bat[n + k] = 0
  BY <1>4, <1>5, <1>6 DEF Taken
<1>8. QED
  BY <1>6, <1>7 DEF Full

\* When it has all its blocks, they are the next ones.
LEMMA Filled ==
    ASSUME IInv, NEW size \in Sizes, NEW n \in Nat, Filling(size, n), ~BlocksMissing
    PROVE  Taken(n + BlocksNeeded(size))
<1>1. PICK c : c = child
  OBVIOUS
<1>2. c \in DOMAIN inode
  BY <1>1 DEF Filling, IInv, TypeOK
<1>3. PICK k : k = Len(inode[c].blocks)
  OBVIOUS
<1>4. k \in Nat
  BY <1>2, <1>3, RecordFields
<1>5. /\ Taken(n + k) /\ BlocksNeeded(size) \in Nat
      /\ k <= BlocksNeeded(size) /\ ~(k < BlocksNeeded(size))
  BY <1>1, <1>3, NeededNat DEF Filling, BlocksMissing
<1>6. k = BlocksNeeded(size)
  BY <1>4, <1>5
<1>7. QED
  BY <1>5, <1>6

\* The sizes of kernel and message are those of create_fs_2, and there is room
\* for both.
LEMMA RoomForLog ==
    /\ Kernel \in Sizes /\ Message \in Sizes
    /\ BlocksNeeded(Kernel) \in Nat /\ BlocksNeeded(Message) \in Nat
    /\ 0 + BlocksNeeded(Kernel) <= NUM_BLOCKS
    /\ BlocksNeeded(Kernel) + BlocksNeeded(Message) <= NUM_BLOCKS
<1>1. PICK t : t = Text("create_fs_2")
  OBVIOUS
<1>2. /\ t[7].op = "create_file" /\ t[7].size = Kernel
      /\ t[8].op = "create_file" /\ t[8].size = Message
      /\ 7 \in DOMAIN t /\ 8 \in DOMAIN t
  <2>1. t = CreateFs2 /\ DOMAIN t = 1 .. Len(t) /\ Len(t) = 14
    BY <1>1, Texts DEF Creators
  <2>2. QED
    BY <2>1, CreateFs2Text, CallFields DEF Kernel, Message
<1>3. Kernel \in Sizes /\ Message \in Sizes
  BY <1>1, <1>2, ProgramsAssumption DEF Creators
<1>4. BlocksNeeded(Kernel) \in Nat /\ BlocksNeeded(Message) \in Nat
  BY <1>3, NeededNat
<1>5. BlocksNeeded(Kernel) + BlocksNeeded(Message) <= NUM_BLOCKS
  BY ProgramsAssumption DEF Kernel, Message
<1>6. QED
  BY <1>3, <1>4, <1>5, NumBlocksAssumption

\* A step inside create_file that leaves the directories as they are.
LEMMA CallOfCreator ==
    ASSUME ProgramsInv, prog \in Creators, phase = "running", pc # "idle", InMemory', DiskInv',
           UNCHANGED <<prog, local, at, phase, mft, saved, root>>, dirty', pc' # "freeing",
           Directories' = Directories,
           \A p \in Directories : Kept(p) /\ ChildrenOf(p) \subseteq ChildrenOf(p)',
           prog = "create_fs_2" /\ at \in {8, 9} => LogMade'
    PROVE  ProgInv'
<1>1. PICK n \in 13 .. 15 : n = Len(Text(prog))
  BY Texts
<1>2. prog # "none" /\ dirty
  BY DEF ProgramsInv, ProgInv, Life, Creators
<1>3. at \in 1 .. n
  <2>1. at \in 1 .. n + 1
    BY <1>1, <1>2 DEF ProgramsInv, ProgInv, Life
  <2>2. at <= n
    BY <1>1, <1>2 DEF ProgramsInv, ProgInv, Life
  <2>3. QED
    BY <2>1, <2>2
<1>4. at' \in 1 .. Len(Text(prog)) /\ at # 1 /\ at \in Nat
  BY <1>1, <1>3 DEF ProgramsInv, ProgInv, CreatorInv
<1>5. InMemory /\ IInv /\ IInv' /\ TypeOK'
  <2>1. InMemory
    BY DEF InMemory
  <2>2. IInv
    BY <2>1, RunningTree DEF ProgramsInv
  <2>3. IInv'
    BY DEF DiskInv, RunInv, InMemory
  <2>4. QED
    BY <2>1, <2>2, <2>3 DEF IInv
<1>6. /\ PlacesMade'
      /\ \A p \in Directories' :
            inode'[p].name = "log" => prog' = "create_fs_2" /\ at' > 6 /\ p = local'["log"]
  BY <1>4, CreatorKeeps DEF Kept
<1>7. prog = "create_fs_2" => LogMade'
  <2> SUFFICES ASSUME prog = "create_fs_2" PROVE LogMade'
      OBVIOUS
  <2>1. at > 7 /\ LogMade
    BY <1>4 DEF ProgramsInv, ProgInv, CreatorInv, LogMade
  <2>2. CASE at \in {8, 9}
    BY <2>2
  <2>3. CASE at > 9
    <3>1. inode[local["log"]].children # <<>>
      BY <1>4, <2>1, <2>3 DEF LogMade
    <3>2. PICK p : p = local["log"]
      OBVIOUS
    <3>3. p \in Directories
      <4>1. PICK t : t = Text(prog)
        OBVIOUS
      <4>2. 6 \in 1 .. at - 1 /\ 6 \in 1 .. n
        BY <1>1, <1>3, <2>3
      <4>3. WellMade("create_fs_2", t, 6)
        BY <1>1, <4>1, <4>2, Texts
      <4>4. t[6].op = "create_dir" /\ t[6].var = "log"
        BY <4>3 DEF WellMade
      <4>5. QED
        BY <3>2, <4>1, <4>2, <4>4 DEF ProgramsInv, ProgInv, CreatorInv, PlacesMade
    <3>4. p \in DOMAIN inode /\ p \in DOMAIN inode'
      BY <3>3 DEF Directories
    <3>5. ChildrenOf(p) # {}
      BY <1>5, <3>1, <3>2, <3>4, HasChildren
    <3>6. ChildrenOf(p)' # {}
      BY <3>3, <3>5
    <3>7. inode'[p].children # <<>>
      BY <1>5, <3>4, <3>6, HasChildren
    <3>8. QED
      BY <1>4, <2>3, <3>2, <3>7 DEF LogMade
  <2>4. QED
    BY <1>4, <2>1, <2>2, <2>3
<1>8. CreatorInv'
  BY <1>4, <1>6, <1>7 DEF CreatorInv
<1>9. TopNamed(inode', root')
  <2> SUFFICES ASSUME root # NULL, inode'[root].is_directory
               PROVE  inode'[root].name = RootName
      BY DEF TopNamed
  <2>1. root \in DOMAIN inode'
    BY <1>5 DEF TypeOK
  <2>2. root \in Directories
    BY <2>1 DEF Directories
  <2>3. Kept(root) /\ inode[root].is_directory
    BY <2>2 DEF Directories
  <2>4. QED
    BY <1>5, <2>3 DEF Kept, TopNamed, ProgramsInv, ProgInv
<1>10. QED
  BY <1>4, <1>8, <1>9, CreatorLives DEF ProgInv

\* What create_file works on while create_fs_2 makes its first files.
LEMMA LogInTheMaking ==
    ASSUME ProgramsInv, prog = "create_fs_2", pc # "idle", at \in {8, 9}
    PROVE  /\ LogMade /\ pc = "allocating"
           /\ at = 8 => Filling(Kernel, 0)
           /\ at = 9 => parent = local["log"] /\ Filling(Message, BlocksNeeded(Kernel))
BY DEF ProgramsInv, ProgInv, Life, CreatorInv, LogMade, Filling, Creators

\* A step inside create_file.
LEMMA CreatorInCall ==
    ASSUME ProgramsInv, prog \in Creators, Perform(Internal), UNCHANGED progVars,
           DiskInv', pc # "idle"
    PROVE  ProgInv'
<1>1. /\ phase = "running" /\ InMemory /\ InMemory' /\ dirty'
      /\ UNCHANGED <<prog, local, at, phase, mft, saved>>
  BY DEF Perform, InMemory, progVars
<1>2. IInv /\ RunTree /\ TypeOK /\ pc # "freeing"
  BY <1>1, RunningTree DEF ProgramsInv, ProgInv, CreatorInv
<1>3. pc \in {"allocating", "rolling_back"}
  BY <1>2 DEF TypeOK
<1>4. PICK c, p : c = child /\ p = parent
  OBVIOUS
<1>5. /\ c \in DOMAIN inode /\ p \in DOMAIN inode /\ c # p /\ inode[p].is_directory
      /\ ~inode[c].is_directory /\ inode[c].children = <<>>
  BY <1>2, <1>3, <1>4, CallHasTree DEF RunTree, CreatedFile
<1>6. c \notin Directories /\ p \in Directories
  BY <1>5 DEF Directories
<1>7. prog = "create_fs_2" /\ at \in {8, 9} => pc = "allocating"
  BY LogInTheMaking
<1>8. CASE AllocateBlock
  <2>1. PICK b \in Blocks : inode' = [inode EXCEPT ![c].blocks = Append(@, b)]
    BY <1>4, <1>8 DEF AllocateBlock
  <2>2. /\ DOMAIN inode' = DOMAIN inode /\ inode'[c].is_directory = inode[c].is_directory
        /\ \A q \in DOMAIN inode \ {c} : Same(q)
    BY <1>2, <1>5, <2>1, BlockEffect
  <2>3. /\ Directories' = Directories
        /\ \A q \in Directories : Kept(q) /\ ChildrenOf(q) \subseteq ChildrenOf(q)'
    BY <1>5, <1>6, <2>2 DEF Directories, Same, Kept
  <2>4. UNCHANGED <<root, pc, parent>>
    BY <1>8 DEF AllocateBlock
  <2>5. ASSUME prog = "create_fs_2", at \in {8, 9} PROVE LogMade'
    <3>1. /\ at = 8 => Filling(Kernel, 0)
          /\ at = 9 => parent = local["log"] /\ Filling(Message, BlocksNeeded(Kernel))
      BY <1>7, <1>3, <2>5, LogInTheMaking
    <3>2. CASE at = 8
      <4>1. Filling(Kernel, 0)'
        BY <1>2, <1>8, <3>1, <3>2, RoomForLog, FillingGoesOn
      <4>2. QED
        BY <1>1, <3>2, <4>1 DEF LogMade
    <3>3. CASE at = 9
      <4>1. PICK n : n = BlocksNeeded(Kernel)
        OBVIOUS
      <4>2. n \in Nat /\ Filling(Message, n) /\ Message \in Sizes
        BY <3>1, <3>3, <4>1, RoomForLog
      <4>3. Filling(Message, n)'
        BY <1>2, <1>8, <4>2, FillingGoesOn
      <4>4. Filling(Message, BlocksNeeded(Kernel))'
        BY <4>1, <4>3 DEF Filling, Taken
      <4>5. pc' # "idle"
        BY <1>3, <2>4
      <4>6. QED
        BY <1>1, <2>4, <3>1, <3>3, <4>4, <4>5 DEF LogMade
    <3>4. QED
      BY <2>5, <3>2, <3>3
  <2>6. pc' # "freeing"
    BY <1>2, <2>4
  <2>7. QED
    BY <1>1, <2>3, <2>4, <2>5, <2>6, CallOfCreator
<1>9. CASE AllocateFails
  <2>1. UNCHANGED <<inode, root>> /\ pc' = "rolling_back" /\ BlocksMissing /\ Full(bat)
    BY <1>9 DEF AllocateFails
  <2>2. /\ Directories' = Directories
        /\ \A q \in Directories : Kept(q) /\ ChildrenOf(q) \subseteq ChildrenOf(q)'
    BY <2>1, SameInode DEF Directories, Same
  <2>3. ~(prog = "create_fs_2" /\ at \in {8, 9})
    <3> SUFFICES ASSUME prog = "create_fs_2", at \in {8, 9} PROVE FALSE
        OBVIOUS
    <3>1. /\ at = 8 => Filling(Kernel, 0)
          /\ at = 9 => Filling(Message, BlocksNeeded(Kernel))
      BY LogInTheMaking
    <3>2. at # 8
      BY <1>2, <2>1, <3>1, RoomForLog, FillingHasRoom
    <3>3. at # 9
      BY <1>2, <2>1, <3>1, RoomForLog, FillingHasRoom
    <3>4. QED
      BY <3>2, <3>3
  <2>4. QED
    BY <1>1, <2>1, <2>2, <2>3, CallOfCreator
<1>10. CASE FreeBlock
  <2>1. UNCHANGED <<inode, root, pc>> /\ pc \in {"rolling_back", "freeing"}
    BY <1>10 DEF FreeBlock
  <2>2. /\ Directories' = Directories
        /\ \A q \in Directories : Kept(q) /\ ChildrenOf(q) \subseteq ChildrenOf(q)'
    BY <2>1, SameInode DEF Directories, Same
  <2>3. ~(prog = "create_fs_2" /\ at \in {8, 9}) /\ pc' # "freeing"
    BY <1>2, <1>7, <2>1
  <2>4. QED
    BY <1>1, <2>1, <2>2, <2>3, CallOfCreator
<1>11. CASE RollBackDone
  <2>1. inode' = Without(c) /\ root' = root /\ pc = "rolling_back" /\ pc' = "idle"
    BY <1>4, <1>11 DEF RollBackDone, Return
  <2>2. DOMAIN inode' = DOMAIN inode \ {c} /\ \A q \in DOMAIN inode' : Same(q)
    BY <2>1, DropEffect
  <2>3. /\ Directories' = Directories
        /\ \A q \in Directories : Kept(q) /\ ChildrenOf(q) \subseteq ChildrenOf(q)'
    BY <1>6, <2>2 DEF Directories, Same, Kept
  <2>4. ~(prog = "create_fs_2" /\ at \in {8, 9}) /\ pc' # "freeing"
    BY <1>7, <2>1
  <2>5. QED
    BY <1>1, <2>1, <2>3, <2>4, CallOfCreator
<1>12. CASE LinkFile
  <2>1. /\ AddInodeToParent(p, c, inode[c]) /\ UNCHANGED <<bat, root>>
        /\ pc' = "idle" /\ ~BlocksMissing
    BY <1>4, <1>12 DEF LinkFile, Return
  <2>2. c \in Ptr \ {p} /\ inode[c] \in InodeRecord
    BY <1>2, <1>5, RecordFields
  <2>3. /\ DOMAIN inode' = DOMAIN inode \cup {c} /\ inode'[c] = inode[c]
        /\ Kept(p) /\ ChildrenOf(p)' = ChildrenOf(p) \cup {c}
        /\ \A q \in DOMAIN inode \ {p, c} : Same(q)
    BY <1>2, <1>5, <2>1, <2>2, ChildEffect
  <2>4. \A q \in DOMAIN inode \ {c} : Kept(q) /\ ChildrenOf(q) \subseteq ChildrenOf(q)'
    BY <2>3 DEF Same
  <2>5. /\ Directories' = Directories
        /\ \A q \in Directories : Kept(q) /\ ChildrenOf(q) \subseteq ChildrenOf(q)'
    BY <1>5, <1>6, <2>3, <2>4 DEF Directories, Kept
  <2>6. ASSUME prog = "create_fs_2", at \in {8, 9} PROVE LogMade'
    <3>1. /\ at = 8 => Filling(Kernel, 0)
          /\ at = 9 => parent = local["log"]
      BY <2>6, LogInTheMaking
    <3>2. CASE at = 8
      <4>1. Taken(0 + BlocksNeeded(Kernel))
        BY <1>2, <2>1, <3>1, <3>2, RoomForLog, Filled
      <4>2. 0 + BlocksNeeded(Kernel) = BlocksNeeded(Kernel)
        BY RoomForLog
      <4>3. Taken(BlocksNeeded(Kernel))'
        BY <2>1, <4>1, <4>2 DEF Taken
      <4>4. QED
        BY <1>1, <2>1, <3>2, <4>3 DEF LogMade
    <3>3. CASE at = 9
      <4>1. p \in DOMAIN inode' /\ ChildrenOf(p)' # {}
        BY <1>5, <2>3
      <4>2. IInv'
        BY <1>1 DEF DiskInv, RunInv, InMemory
      <4>3. inode'[p].children # <<>>
        BY <1>2, <1>5, <4>1, <4>2, HasChildren
      <4>4. QED
        BY <1>1, <1>4, <2>1, <3>1, <3>3, <4>3 DEF LogMade
    <3>4. QED
      BY <2>6, <3>2, <3>3
  <2>7. QED
    BY <1>1, <2>1, <2>5, <2>6, CallOfCreator
<1>13. ~LinkFails /\ ~Unlink
  BY <1>2, ProgramsAssumption DEF LinkFails, Unlink
<1>14. QED
  BY <1>8, <1>9, <1>10, <1>11, <1>12, <1>13 DEF Perform, Internal

\* What is known of a variable is still known.
Lasting ==
    /\ \A v, name : Is(v, name) => Is(v, name)'
    /\ \A w, v, name : In(w, v, name) => In(w, v, name)'

\* What main of del_fs knows lasts while its call goes on.
LEMMA FactsLast ==
    ASSUME DelFacts, Lasting, UNCHANGED <<at, local>>
    PROVE  DelFacts'
BY DEF DelFacts, Lasting

\* A step inside delete_file or delete_dir of del_fs.
LEMMA LoaderInCall ==
    ASSUME ProgramsInv, prog \in Loaders, Perform(Internal), UNCHANGED progVars,
           DiskInv', pc # "idle"
    PROVE  ProgInv'
<1>1. /\ phase = "running" /\ InMemory /\ InMemory' /\ dirty'
      /\ UNCHANGED <<prog, local, at, phase, mft, saved>>
  BY DEF Perform, InMemory, progVars
<1>2. /\ IInv /\ RunTree /\ TypeOK /\ LoaderInv /\ pc = "freeing" /\ prog = "del_fs"
      /\ DelFacts /\ LogsKept /\ dirty
  BY <1>1, RunningTree DEF ProgramsInv, ProgInv, LoaderInv, Life
<1>3. /\ prog \notin Creators /\ prog # "none" /\ prog # "load_fs"
  BY <1>2 DEF Creators
<1>4. PICK c, p : c = child /\ p = parent
  OBVIOUS
<1>5. /\ c \in DOMAIN inode /\ p \in DOMAIN inode /\ c # p /\ root # NULL
      /\ c # root /\ c \in ChildrenOf(p) /\ root \in DOMAIN inode
  <2>1. /\ c \in DOMAIN inode /\ p \in DOMAIN inode /\ c # p /\ root # NULL
    BY <1>2, <1>4, CallHasTree
  <2>2. c \in ChildrenOf(p)
    BY <1>2, <1>4, KidsAreChildren DEF RunTree, DeletedLeaf
  <2>3. c # root /\ root \in DOMAIN inode
    BY <1>2, <1>4, <2>1 DEF IInv, LinksOK, TypeOK
  <2>4. QED
    BY <2>1, <2>2, <2>3
<1>6. Life' /\ SavedOK' /\ CreatorInv'
  BY <1>1, <1>2, <1>3 DEF ProgramsInv, ProgInv, Life, SavedOK, CreatorInv
<1>7. CASE FreeBlock
  <2>1. UNCHANGED <<inode, root, pc, parent, child>>
    BY <1>7 DEF FreeBlock
  <2>2. Lasting
    BY <1>1, <2>1 DEF Lasting, In, Is, Has, ChildrenOf
  <2>3. DelFacts'
    BY <1>1, <1>2, <2>2, FactsLast
  <2>4. LogsKept'
    BY <1>1, <1>2, <2>1 DEF LogsKept, LogAtWork, Directories
  <2>5. LoaderInv'
    BY <1>1, <1>2, <1>3, <1>5, <2>1, <2>3, <2>4 DEF LoaderInv
  <2>6. QED
    BY <1>1, <1>6, <2>1, <2>5 DEF ProgramsInv, ProgInv, TopNamed
<1>8. CASE Unlink
  <2>1. /\ root' = root /\ pc' = "idle" /\ child' = NULL /\ parent' = NULL
    BY <1>8 DEF Unlink, Return
  <2>2. /\ DOMAIN inode' = DOMAIN inode \ {c}
        /\ \A q \in DOMAIN inode' : Kept(q) /\ ChildrenOf(q)' = ChildrenOf(q) \ {c}
    BY <1>2, <1>4, <1>8, UnlinkEffect
  <2>3. root \in DOMAIN inode' /\ Kept(root) /\ NULL \notin DOMAIN inode
    BY <1>1, <1>5, <2>2, DirectoryIsNotNull DEF ProgramsInv
  <2>4. \A v : Has(v) => Has(v)' /\ local[v] \in DOMAIN inode' /\ local[v] # c
    BY <1>1, <1>4, <2>1, <2>2, <2>3 DEF Has
  <2>5. Lasting
    <3>1. ASSUME NEW v, NEW name, Is(v, name) PROVE Is(v, name)'
      <4>1. Has(v) /\ Has(v)' /\ local[v] \in DOMAIN inode'
        BY <2>4, <3>1 DEF Is
      <4>2. Kept(local[v])
        BY <2>2, <4>1
      <4>3. QED
        BY <1>1, <2>1, <2>3, <3>1, <4>1, <4>2 DEF Is, Kept
    <3>2. ASSUME NEW w, NEW v, NEW name, In(w, v, name) PROVE In(w, v, name)'
      <4>1. Is(v, name)' /\ Has(w) /\ Has(w)' /\ Has(v)
        BY <2>4, <3>1, <3>2 DEF In, Is
      <4>2. PICK q, r : q = local[w] /\ r = local[v]
        OBVIOUS
      <4>3. ChildrenOf(q)' = ChildrenOf(q) \ {c} /\ r # c
        BY <2>2, <2>4, <4>1, <4>2
      <4>4. inode[root].is_directory => r \in ChildrenOf(q)'
        BY <3>2, <4>2, <4>3 DEF In
      <4>5. inode'[root'].is_directory => r \in ChildrenOf(q)'
        BY <2>1, <2>3, <4>4 DEF Kept
      <4>6. local'[w] = q /\ local'[v] = r
        BY <1>1, <4>2
      <4>7. inode'[root'].is_directory => local'[v] \in (ChildrenOf(local[w]))'
        BY <4>5, <4>6 DEF ChildrenOf
      <4>8. QED
        BY <4>1, <4>7 DEF In
    <3>3. QED
      BY <3>1, <3>2 DEF Lasting
  <2>6. DelFacts'
    BY <1>1, <1>2, <2>5, FactsLast
  <2>7. LogsKept'
    <3>1. ASSUME NEW q \in Directories', inode'[q].name = "log", inode'[q].children = <<>>
          PROVE  LogAtWork(q)'
      <4>1. /\ q \in DOMAIN inode' /\ q \in DOMAIN inode /\ q # c
            /\ Kept(q) /\ ChildrenOf(q)' = ChildrenOf(q) \ {c}
        BY <2>2, <3>1 DEF Directories
      <4>2. q \in Directories \ {child} /\ inode[q].name = "log"
        BY <1>4, <3>1, <4>1 DEF Directories, Kept
      <4>3. LogAtWork(q)
        <5>1. CASE q = p
          BY <1>2, <1>4, <4>2, <5>1 DEF LogsKept
        <5>2. CASE q # p
          <6>1. c \notin ChildrenOf(q)
            BY <1>2, <1>5, <4>1, <5>2, ChildrenOnHeap
          <6>2. IInv'
            BY <1>1 DEF DiskInv, RunInv, InMemory
          <6>3. ChildrenOf(q)' = {}
            BY <1>2, <3>1, <4>1, <6>2, HasChildren
          <6>4. inode[q].children = <<>>
            BY <1>2, <4>1, <6>1, <6>2, <6>3, HasChildren
          <6>5. QED
            BY <1>2, <4>2, <6>4 DEF LogsKept
        <5>3. QED
          BY <5>1, <5>2
      <4>4. QED
        BY <1>1, <4>3 DEF LogAtWork
    <3>2. pc' # "freeing"
      BY <2>1
    <3>3. QED
      BY <3>1, <3>2 DEF LogsKept
  <2>8. LoaderInv'
    BY <1>1, <1>2, <1>3, <1>5, <2>1, <2>3, <2>6, <2>7 DEF LoaderInv, Kept
  <2>9. TopNamed(inode', root')
    BY <1>1, <1>5, <2>1, <2>3 DEF ProgramsInv, ProgInv, TopNamed, Kept
  <2>10. QED
    BY <1>6, <2>8, <2>9 DEF ProgInv
<1>9. QED
  BY <1>2, <1>7, <1>8 DEF Perform, Internal, AllocateBlock, AllocateFails, RollBackDone,
                          LinkFile, LinkFails

\* A step inside a call.
LEMMA InCallProg ==
    ASSUME ProgramsInv, InCall, DiskInv'
    PROVE  ProgInv'
<1>1. Perform(Internal) /\ UNCHANGED progVars /\ phase = "running"
  BY DEF InCall, Perform
<1>2. pc # "idle"
  BY <1>1 DEF Perform, Internal, AllocateBlock, AllocateFails, FreeBlock, RollBackDone,
              LinkFile, LinkFails, Unlink
<1>3. prog \in Creators \cup Loaders
  BY <1>1 DEF ProgramsInv, ProgInv, Life
<1>4. QED
  BY <1>1, <1>2, <1>3, CreatorInCall, LoaderInCall

-------------------------------------------------------------------------------
(* The inductive invariant *)

\* It holds initially.
LEMMA InitProgramsInv == ProgramsInit => ProgramsInv
BY InitDiskInv, InitProgInv DEF ProgramsInit, ProgramsInv

\* Every step keeps it.
LEMMA NextProgramsInv ==
    ASSUME ProgramsInv, [ProgramsNext]_programVars
    PROVE  ProgramsInv'
<1>1. DiskInv'
  BY StepIsDiskStep, NextDiskInv, ProgramsAssumption DEF ProgramsInv
<1>2. ASSUME NEW p \in Creators \cup Loaders, Start(p) PROVE ProgInv'
  <2>1. p \in Creators \cup Loaders
    BY <1>2
  <2>2. QED
    BY <1>2, <2>1, StartProg
<1>3. ASSUME Load PROVE ProgInv'
  BY <1>1, <1>3, LoadProg
<1>4. ASSUME CreateDirCall PROVE ProgInv'
  BY <1>1, <1>4, CreateDirProg
<1>5. ASSUME CreateFileCall PROVE ProgInv'
  BY <1>5, CreateFileProg
<1>6. ASSUME FindCall PROVE ProgInv'
  BY <1>6, FindProg
<1>7. ASSUME DeleteCall PROVE ProgInv'
  BY <1>7, DeleteProg
<1>8. ASSUME InCall PROVE ProgInv'
  BY <1>1, <1>8, InCallProg
<1>9. ASSUME SaveCall PROVE ProgInv'
  BY <1>9, SaveProg
<1>10. ASSUME End PROVE ProgInv'
  BY <1>10, EndProg DEF End, Quit, disk
<1>11. ASSUME Killed PROVE ProgInv'
  BY <1>11, EndProg DEF Killed, Kill, KillInWrite, disk
<1>12. ASSUME UNCHANGED programVars PROVE ProgInv'
  BY <1>12, SameProg DEF ProgramsInv, programVars, allVars, vars, progVars
<1>13. ASSUME FormatDisk PROVE ProgInv'
  BY <1>13, FormatProg
<1>14. QED
  BY <1>1, <1>2, <1>3, <1>4, <1>5, <1>6, <1>7, <1>8, <1>9, <1>10, <1>11, <1>12, <1>13
     DEF ProgramsInv, ProgramsNext, Program, DebugDisk

\* So it is an invariant of the programs.
LEMMA ProgramsInvHolds == ProgramsSpec => []ProgramsInv
<1>1. ProgramsInit => ProgramsInv
  BY InitProgramsInv
<1>2. ProgramsInv /\ [ProgramsNext]_programVars => ProgramsInv'
  BY NextProgramsInv
<1>3. QED
  BY <1>1, <1>2, PTL DEF ProgramsSpec

-------------------------------------------------------------------------------
(* The theorems *)

\* The programs do with the disk only what MasterFileTable takes programs to
\* do: each ends with everything saved (create_fs*.c and del_fs.c save last,
\* load_fs.c changes nothing), creates in a directory that is there, and
\* deletes from a directory only what it has found in it.  So all that is
\* proved there of the two files holds while these programs run, in any order
\* and killed anywhere.
THEOREM ProgramsUseTheDisk == ProgramsSpec => DiskSpec
<1>1. ProgramsInit => DiskInit
  BY DEF ProgramsInit
<1>2. ProgramsInv /\ [ProgramsNext]_programVars => [DiskNext]_allVars
  BY StepIsDiskStep
<1>3. QED
  BY <1>1, <1>2, ProgramsInvHolds, PTL DEF ProgramsSpec, DiskSpec

\* In the invariant nothing that a program is about to use has been released.
LEMMA InUse == ProgramsInv => NoUseAfterFree
<1> SUFFICES ASSUME ProgramsInv, Before(Instr.op)
             PROVE  /\ Instr.op # "save" => local[Instr.in] \in DOMAIN inode \cup {NULL}
                    /\ Instr.op \in {"delete_file", "delete_dir"} =>
                          local[Instr.var] \in DOMAIN inode
    BY DEF NoUseAfterFree
<1>1. PICK op : op = Instr.op
  OBVIOUS
<1>2. Before(op)
  BY <1>1
<1>3. /\ prog \in Creators \cup Loaders /\ at \in 1 .. Len(Text(prog))
      /\ Instr = Text(prog)[at] /\ InMemory
  BY <1>2, Running DEF InMemory
<1>4. root \in DOMAIN inode \cup {NULL}
  BY <1>3, RunningTree DEF ProgramsInv
<1>5. CASE prog \in Creators
  <2>1. PICK t, n : t = Text(prog) /\ n = Len(t) /\ n \in 13 .. 15
    BY <1>5, Texts
  <2>2. op \in {"create_dir", "create_file", "save"}
    BY <1>1, <1>3, <1>5, <2>1, Texts DEF WellMade
  <2>3. CASE op # "save"
    <3>1. local[Instr.in] = NULL \/ local[Instr.in] \in Directories
      <4>1. at \in 1 .. n
        BY <1>3, <2>1
      <4>2. at = 1 \/ at > 1
        BY <4>1
      <4>3. QED
        BY <1>2, <2>2, <2>3, <4>2, CreatorAt
    <3>2. QED
      BY <1>1, <2>2, <3>1 DEF Directories
  <2>4. QED
    BY <1>1, <2>2, <2>3
<1>6. CASE prog = "load_fs"
  <2>1. PICK call : call = Instr
    OBVIOUS
  <2>2. PICK n \in 23 .. 23 : n = Len(Text(prog))
    BY <1>6, Texts
  <2>3. at \in 1 .. 23
    <3>1. at \in 1 .. n
      BY <1>3, <2>2
    <3>2. QED
      BY <3>1
  <2>4. Looks(call, at)
    BY <1>3, <1>6, <2>1, <2>3, Texts, LoadFsWell
  <2>5. LoaderInv /\ prog \in Loaders
    BY <1>6 DEF ProgramsInv, ProgInv, Loaders
  <2>6. CASE call.in = "root"
    BY <1>1, <1>3, <1>4, <2>1, <2>4, <2>5, <2>6 DEF LoaderInv, Looks
  <2>7. CASE call.in = "dir"
    <3>1. at > 1
      BY <2>3, <2>4, <2>7 DEF Looks
    <3>2. local["dir"] \in DOMAIN inode \cup {NULL}
      BY <1>3, <1>6, <2>5, <3>1 DEF LoaderInv
    <3>3. QED
      BY <1>1, <2>1, <2>4, <2>7, <3>2 DEF Looks
  <2>8. QED
    BY <2>4, <2>6, <2>7 DEF Looks
<1>7. CASE prog = "del_fs"
  <2>1. PICK call : call = Instr
    OBVIOUS
  <2>2. PICK n \in 41 .. 41 : n = Len(Text(prog))
    BY <1>7, Texts
  <2>3. at \in 1 .. 41
    <3>1. at \in 1 .. n
      BY <1>3, <2>2
    <3>2. QED
      BY <3>1
  <2>4. call = DelFs[at] /\ Deletes(call, at)
    BY <1>3, <1>7, <2>1, <2>3, Texts, DelFsWell
  <2>5. LoaderInv /\ prog \in Loaders /\ DelFacts
    BY <1>3, <1>7 DEF ProgramsInv, ProgInv, Loaders, LoaderInv
  <2>6. CASE op = "find"
    <3>1. Searched(call)
      BY <1>1, <2>1, <2>3, <2>4, <2>5, <2>6, KnownToSearch
    <3>2. local["root"] = root
      BY <1>3, <2>5 DEF LoaderInv
    <3>3. local[call.in] \in DOMAIN inode \cup {NULL}
      BY <1>4, <3>1, <3>2 DEF Searched, Is, Has
    <3>4. QED
      BY <1>1, <2>1, <2>6, <3>3
  <2>7. CASE op \in {"delete_file", "delete_dir"}
    <3>1. Known(call)
      BY <1>1, <2>1, <2>3, <2>4, <2>5, <2>7, KnownToDelete
    <3>2. local[call.in] \in DOMAIN inode /\ local[call.var] \in DOMAIN inode
      BY <3>1 DEF Known, In, Is, Has
    <3>3. QED
      BY <2>1, <3>2
  <2>8. QED
    BY <1>1, <2>1, <2>4, <2>6, <2>7 DEF Deletes
<1>8. QED
  BY <1>3, <1>5, <1>6, <1>7 DEF Loaders

\* No program uses a pointer after what it points to has been released,
\* although del_fs.c goes on to use the pointers it passes to delete_file and
\* delete_dir (del_fs.c:92 and 99 are the clearest case): on any disk the
\* programs leave behind, /var/log is there and is not empty when del_fs
\* first tries to delete it.
THEOREM NoUseAfterFreeHolds == ProgramsSpec => []NoUseAfterFree
BY ProgramsInvHolds, InUse, PTL

\* A tree that is lost stays lost in every step.
LostStays == prog \notin Creators /\ prog' \notin Creators /\ Lost => bat' = bat /\ Lost'

\* A step that changes neither the disk nor the tree keeps it so.
LEMMA LostByDisk ==
    ASSUME UNCHANGED <<bat, mft>>, mft # <<>> \/ UNCHANGED <<phase, inode, root>>
    PROVE  LostStays
<1>1. CASE mft # <<>>
  BY <1>1 DEF LostStays, Lost
<1>2. CASE mft = <<>> /\ UNCHANGED <<phase, inode, root>>
  BY <1>2 DEF LostStays, Lost
<1>3. QED
  BY <1>1, <1>2

\* A program that runs on a lost tree has a file for a root, or no inode at all.
LEMMA LostInMemory ==
    ASSUME ProgramsInv, InMemory, prog \in Loaders, Lost, root # NULL
    PROVE  ~inode[root].is_directory
<1>1. LoaderInv
  BY DEF ProgramsInv, ProgInv
<1>2. CASE mft = <<>>
  BY <1>2 DEF Lost, InMemory
<1>3. CASE mft # <<>>
  <2>1. ~mft[1].is_directory
    BY <1>3 DEF Lost
  <2>2. inode[root].is_directory = mft[1].is_directory
    BY <1>1, <1>3 DEF LoaderInv
  <2>3. QED
    BY <2>1, <2>2
<1>4. QED
  BY <1>2, <1>3

\* Loading leaves the disk alone, and there is something on it while it loads.
LEMMA LostWhenLoading ==
    ASSUME ProgramsInv, Load
    PROVE  LostStays
<1>1. phase = "loading" /\ UNCHANGED <<bat, mft>>
  BY DEF Load, LoadInode, LoadClose, disk
<1>2. PICK T : Complete(saved.inode, saved.root, T, mft)
  BY <1>1 DEF ProgramsInv, DiskInv, LoadInv
<1>3. mft # <<>>
  BY <1>2, FirstRecord DEF Complete
<1>4. QED
  BY <1>1, <1>3, LostByDisk

\* So a program that loads begins with no tree.
LEMMA LostAtStart ==
    ASSUME ProgramsInv, NEW p \in Loaders, Start(p)
    PROVE  LostStays
<1>1. p \notin Creators
  BY DEF Loaders, Creators
<1>2. CASE LoadOpen
  BY <1>2, LostByDisk DEF LoadOpen, disk
<1>3. CASE LoadEmpty
  <2>1. /\ phase = "down" /\ mft = <<>> /\ UNCHANGED <<bat, mft>>
        /\ \/ UNCHANGED <<inode, root>>
           \/ \E new \in Ptr, name \in Names : inode' = With(new, Unread(name)) /\ root' = new
    BY <1>3 DEF LoadEmpty, disk
  <2>2. root = NULL
    BY <2>1, AtStart
  <2>3. CASE UNCHANGED <<inode, root>>
    BY <2>1, <2>2, <2>3 DEF LostStays, Lost
  <2>4. ASSUME NEW new \in Ptr, NEW name \in Names,
               inode' = With(new, Unread(name)), root' = new
        PROVE  LostStays
    <3>1. inode'[root'] = Unread(name)
      BY <2>4 DEF With
    <3>2. ~Unread(name).is_directory
      BY DEF Unread, NewFile
    <3>3. ~inode'[root'].is_directory
      BY <3>1, <3>2
    <3>4. QED
      BY <2>1, <3>3 DEF LostStays, Lost
  <2>5. QED
    BY <2>1, <2>3, <2>4
<1>4. QED
  BY <1>1, <1>2, <1>3 DEF Start

\* Saving writes a table that has no tree either.
LEMMA LostWhenSaving ==
    ASSUME ProgramsInv, SaveCall, prog \in Loaders
    PROVE  LostStays
<1>1. CASE Before("save") /\ SaveOpen
  <2>1. /\ phase = "running" /\ phase' = "saving" /\ root # NULL /\ mft' = <<>>
        /\ UNCHANGED <<bat, inode, root>>
    BY <1>1 DEF SaveOpen, memory
  <2>2. Lost => ~inode[root].is_directory
    BY <2>1, LostInMemory DEF InMemory
  <2>3. QED
    BY <2>1, <2>2 DEF LostStays, Lost
<1>2. CASE UNCHANGED allVars
  BY <1>2, LostByDisk DEF allVars, vars
<1>3. CASE SaveInode
  BY <1>3, LostByDisk DEF SaveInode, memory, disk
<1>4. CASE SaveClose
  <2>1. phase = "saving" /\ todo = <<>> /\ mft' = stream /\ UNCHANGED bat
    BY <1>4 DEF SaveClose
  <2>2. root # NULL
    BY <2>1 DEF ProgramsInv, DiskInv, SaveInv
  <2>3. PICK T : Written(inode, root, T, stream) /\ T[Len(stream)] = todo
    BY <2>1 DEF ProgramsInv, DiskInv, SaveInv
  <2>4. stream # <<>> /\ stream[1].is_directory = inode[root].is_directory
    BY <2>1, <2>3, FirstRecord
  <2>5. Lost => ~inode[root].is_directory
    BY <2>1, <2>2, LostInMemory DEF InMemory
  <2>6. QED
    BY <2>1, <2>4, <2>5 DEF LostStays, Lost
<1>5. QED
  BY <1>1, <1>2, <1>3, <1>4 DEF SaveCall, allVars, vars

\* Nothing is deleted: what there is to delete is in a directory.
LEMMA LostInCall ==
    ASSUME ProgramsInv, phase = "running", pc # "idle", prog \in Loaders
    PROVE  ~Lost
<1>1. phase = "running" /\ InMemory
  BY DEF InMemory
<1>2. pc # "idle"
  OBVIOUS
<1>3. pc = "freeing"
  BY <1>1, <1>2 DEF ProgramsInv, ProgInv, LoaderInv
<1>4. root # NULL /\ parent \in DOMAIN inode /\ inode[parent].is_directory
  BY <1>1, <1>2, RunningTree, CallHasTree DEF ProgramsInv
<1>5. GoodTree(inode, root)
  BY <1>1, <1>3, <1>4, RunningTree DEF ProgramsInv
<1>6. inode[root].is_directory
  <2> SUFFICES ASSUME ~inode[root].is_directory PROVE FALSE
      OBVIOUS
  <2>1. DOMAIN inode = {root}
    BY <1>5, LoneFile
  <2>2. QED
    BY <1>4, <2>1
<1>7. QED
  BY <1>1, <1>4, <1>6, LostInMemory

\* All steps of the programs.
LEMMA LostStep ==
    ASSUME ProgramsInv, [ProgramsNext]_programVars
    PROVE  LostStays
<1> SUFFICES ASSUME prog \notin Creators, prog' \notin Creators
             PROVE  LostStays
    BY DEF LostStays
<1>1. ASSUME NEW p \in Creators \cup Loaders, Start(p) PROVE LostStays
  <2>1. p \in Loaders
    BY <1>1 DEF Start
  <2>2. QED
    BY <1>1, <2>1, LostAtStart
<1>2. CASE Load
  BY <1>2, LostWhenLoading
<1>3. CASE CreateDirCall \/ CreateFileCall
  BY <1>3, CreatorAt DEF CreateDirCall, CreateFileCall
<1>4. CASE FindCall
  BY <1>4, LostByDisk DEF FindCall, allVars, vars
<1>5. CASE DeleteCall
  <2>1. PICK name : In(Instr.in, Instr.var, name)
    BY <1>5, DeleterAt DEF Known
  <2>2. UNCHANGED <<bat, inode, root, mft, phase>>
    BY <1>5, <2>1, DeleteIs DEF allVars, vars
  <2>3. QED
    BY <2>2, LostByDisk
<1>6. CASE InCall
  <2>1. phase = "running" /\ pc # "idle"
    BY <1>6 DEF InCall, Perform, Internal, AllocateBlock, AllocateFails, FreeBlock, RollBackDone,
                LinkFile, LinkFails, Unlink
  <2>2. prog \in Loaders
    BY <2>1 DEF ProgramsInv, ProgInv, Life
  <2>3. QED
    BY <2>1, <2>2, LostInCall DEF LostStays
<1>7. CASE SaveCall
  <2>1. phase \in {"running", "saving"}
    BY <1>7 DEF SaveCall, Before, SaveInode, SaveClose
  <2>2. prog \in Loaders
    BY <2>1 DEF ProgramsInv, ProgInv, Life
  <2>3. QED
    BY <1>7, <2>2, LostWhenSaving
<1>8. CASE End \/ Kill
  <2>1. UNCHANGED <<bat, mft>> /\ phase' = "down"
    BY <1>8 DEF End, Quit, Kill, Exit, disk
  <2>2. QED
    BY <2>1 DEF LostStays, Lost
<1>9. CASE UNCHANGED programVars
  BY <1>9, LostByDisk DEF programVars, allVars, vars
<1>10. CASE FormatDisk
  BY <1>10 DEF FormatDisk, Format, ProgramsInv, ProgInv, Life
<1>11. CASE KillInWrite
  <2>1. phase = "running" /\ pc # "idle"
    BY <1>11 DEF KillInWrite, WritesTable
  <2>2. prog \in Loaders
    BY <2>1 DEF ProgramsInv, ProgInv, Life
  <2>3. QED
    BY <2>1, <2>2, LostInCall DEF LostStays
<1>12. QED
  BY <1>1, <1>2, <1>3, <1>4, <1>5, <1>6, <1>7, <1>8, <1>9, <1>10, <1>11
     DEF ProgramsNext, Program, DebugDisk, Killed

\* inode.c:323 empties the master file table before it writes it.  If a program
\* is killed there the tree is lost for good: until a disk is made anew the
\* other programs neither free a block nor get one, nor make a tree of what
\* load_inodes leaves them, be it no inode or one of a file with a leftover name.
THEOREM LostStaysLostHolds == ProgramsSpec => LostStaysLost
<1>1. ProgramsInv /\ [ProgramsNext]_programVars => [LostStays]_programVars
  BY LostStep
<1>2. [LostStays]_programVars =>
         [prog \notin Creators /\ prog' \notin Creators /\ Lost
            => bat' = bat /\ Lost']_programVars
  BY DEF LostStays
<1>3. QED
  BY <1>1, <1>2, ProgramsInvHolds, PTL DEF ProgramsSpec, LostStaysLost

-------------------------------------------------------------------------------
(* The table *)

\* Without a table no program makes a call: it dies when it prints the table.
TableInv == bat = EmptyFile => at = 1 /\ pc = "idle"

\* A table has bytes.
LEMMA EmptyIsNoTable == EmptyFile \notin Table
<1>1. 0 \in Blocks
  BY NumBlocksAssumption DEF Blocks
<1>2. EmptyFile[0] \notin {0, 1}
  BY <1>1 DEF EmptyFile, NoByte
<1>3. QED
  BY <1>1, <1>2 DEF Table

\* A step inside a call keeps a table that is there.
LEMMA CallKeepsTable ==
    ASSUME IInv, RunTree, Internal, bat # EmptyFile
    PROVE  bat' # EmptyFile
<1>1. bat \in Table
  BY DEF IInv, TypeOK
<1>2. CASE AllocateBlock
  <2>1. PICK b \in Blocks : IsFirstUnused(bat, b) /\ bat' = Marked(bat, b)
    BY <1>2 DEF AllocateBlock
  <2>2. bat' \in Table
    BY <1>1, <2>1, MarkedTable DEF IsFirstUnused
  <2>3. QED
    BY <2>2, EmptyIsNoTable
<1>3. CASE FreeBlock
  <2>1. PICK b : bat' = Cleared(bat, b)
    BY <1>3 DEF FreeBlock
  <2>2. bat' \in Table
    BY <1>1, <2>1 DEF Cleared, Table
  <2>3. QED
    BY <2>2, EmptyIsNoTable
<1>4. CASE bat' = bat
  BY <1>4
<1>5. QED
  BY <1>2, <1>3, <1>4 DEF Internal, AllocateFails, RollBackDone, LinkFile, LinkFails, Unlink

\* Every step keeps it so.
LEMMA NextTable ==
    ASSUME ProgramsInv, TableInv, [ProgramsNext]_programVars
    PROVE  TableInv'
<1>1. ASSUME NEW p \in Creators \cup Loaders, Start(p) PROVE TableInv'
  <2>1. phase = "down"
    BY <1>1 DEF Start, StartCreate, LoadOpen, LoadEmpty
  <2>2. at = 1 /\ pc = "idle"
    BY <2>1, AtStart
  <2>3. at' = at /\ pc' = pc
    BY <1>1 DEF Start, StartCreate, LoadOpen, LoadEmpty, memory
  <2>4. QED
    BY <2>2, <2>3 DEF TableInv
<1>2. CASE FormatDisk
  <2>1. bat' = FormattedTable
    BY <1>2 DEF FormatDisk, Format
  <2>2. FormattedTable \in Table
    BY DEF FormattedTable, Table
  <2>3. QED
    BY <2>1, <2>2, EmptyIsNoTable DEF TableInv
<1>3. CASE Load
  <2>1. UNCHANGED <<bat, at, pc>>
    BY <1>3 DEF Load, LoadInode, LoadClose, memory, progVars
  <2>2. QED
    BY <2>1 DEF TableInv
<1>4. CASE CreateDirCall
  <2>1. bat # EmptyFile /\ bat' = bat
    BY <1>4 DEF CreateDirCall, Before, Perform, CreateRoot, CreateDir
  <2>2. QED
    BY <2>1 DEF TableInv
<1>5. CASE CreateFileCall
  <2>1. bat # EmptyFile /\ bat' = bat
    BY <1>5 DEF CreateFileCall, Before, Perform, CreateFile
  <2>2. QED
    BY <2>1 DEF TableInv
<1>6. CASE FindCall
  <2>1. bat # EmptyFile /\ bat' = bat
    BY <1>6 DEF FindCall, Before, allVars, vars
  <2>2. QED
    BY <2>1 DEF TableInv
<1>7. CASE DeleteCall
  <2>1. bat # EmptyFile /\ bat' = bat
    BY <1>7 DEF DeleteCall, Before, Perform, DeleteFile, DeleteDir, PickToDelete, allVars, vars
  <2>2. QED
    BY <2>1 DEF TableInv
<1>8. CASE InCall
  <2>1. phase = "running" /\ Internal
    BY <1>8 DEF InCall, Perform
  <2>2. pc # "idle"
    BY <2>1 DEF Internal, AllocateBlock, AllocateFails, FreeBlock, RollBackDone,
                LinkFile, LinkFails, Unlink
  <2>3. IInv /\ RunTree
    BY <2>1, RunningTree DEF ProgramsInv, InMemory
  <2>4. bat' # EmptyFile
    BY <2>1, <2>2, <2>3, CallKeepsTable DEF TableInv
  <2>5. QED
    BY <2>4 DEF TableInv
<1>9. CASE SaveCall
  <2>1. CASE Before("save")
    <3>1. bat # EmptyFile /\ bat' = bat
      BY <1>9, <2>1 DEF SaveCall, Before, SaveOpen, SaveInode, SaveClose, allVars, vars
    <3>2. QED
      BY <3>1 DEF TableInv
  <2>2. CASE (SaveInode \/ SaveClose) /\ UNCHANGED progVars
    <3>1. UNCHANGED <<bat, at, pc>>
      BY <2>2 DEF SaveInode, SaveClose, memory, progVars
    <3>2. QED
      BY <3>1 DEF TableInv
  <2>3. QED
    BY <1>9, <2>1, <2>2 DEF SaveCall
<1>10. CASE End \/ Killed
  <2>1. at' = 1 /\ pc' = "idle"
    BY <1>10 DEF End, Killed, Kill, KillInWrite, Quit, Exit, Gone
  <2>2. QED
    BY <2>1 DEF TableInv
<1>11. CASE UNCHANGED programVars
  BY <1>11 DEF TableInv, programVars, allVars, vars, progVars
<1>12. QED
  BY <1>1, <1>2, <1>3, <1>4, <1>5, <1>6, <1>7, <1>8, <1>9, <1>10, <1>11
     DEF ProgramsNext, Program, DebugDisk

-------------------------------------------------------------------------------
(* The rerun: what del_fs finds is what is at the paths of its text *)

\* The names del_fs looks for.
Words ==
    {"kernel", "var", "log", "message", "warn", "fail", "share", "man", "read.2", "etc", "hosts",
     "host.conf", "httpd", "conf", "home", "user", "Download", "oblig2"}

\* c goes down the path from r to q.
Chain(h, r, path, q, c) ==
    /\ c \in [0 .. Len(path) -> DOMAIN h] /\ c[0] = r /\ c[Len(path)] = q
    /\ \A k \in 1 .. Len(path) : c[k] \in Kids(h, c[k - 1]) /\ h[c[k]].name = path[k]

\* q is at the path, seen from r, on the heap h.
Leads(h, r, path, q) == \E c : Chain(h, r, path, q, c)

\* The path, and a name behind it.
Then(path, name) == Append(path, name)

\* Only the root is at the empty path.
LEMMA LeadsToRoot ==
    ASSUME NEW h, NEW r \in DOMAIN h, NEW q
    PROVE  Leads(h, r, <<>>, q) <=> q = r
<1>1. ASSUME Leads(h, r, <<>>, q) PROVE q = r
  BY <1>1 DEF Leads, Chain
<1>2. ASSUME q = r PROVE Leads(h, r, <<>>, q)
  <2>1. PICK c : c = [k \in 0 .. 0 |-> r]
    OBVIOUS
  <2>2. Len(<<>>) = 0 /\ 1 .. 0 = {}
    OBVIOUS
  <2>3. Chain(h, r, <<>>, q, c)
    BY <1>2, <2>1, <2>2 DEF Chain
  <2>4. QED
    BY <2>3 DEF Leads
<1>3. QED
  BY <1>1, <1>2

\* What is at a path is on the heap.
LEMMA LeadsToInode ==
    ASSUME NEW h, NEW r, NEW path \in Seq(Words), NEW q, Leads(h, r, path, q)
    PROVE  q \in DOMAIN h
<1>1. PICK c : Chain(h, r, path, q, c)
  BY DEF Leads
<1>2. PICK n \in Nat : n = Len(path)
  OBVIOUS
<1>3. c \in [0 .. n -> DOMAIN h] /\ c[n] = q /\ n \in 0 .. n
  BY <1>1, <1>2 DEF Chain
<1>4. QED
  BY <1>3

\* A path with one more name leads to the children with that name.
LEMMA LeadsOn ==
    ASSUME NEW h, NEW r, NEW path \in Seq(Words), NEW name \in Words, NEW q \in DOMAIN h
    PROVE  Leads(h, r, Then(path, name), q) <=>
              \E p \in DOMAIN h : /\ Leads(h, r, path, p)
                                  /\ q \in Kids(h, p) /\ h[q].name = name
<1>1. PICK n \in Nat : n = Len(path)
  OBVIOUS
<1>2. PICK longer : longer = Then(path, name)
  OBVIOUS
<1>3. /\ Len(longer) = n + 1 /\ longer[n + 1] = name
      /\ \A k \in 1 .. n : longer[k] = path[k]
  <2>1. PICK S : S = Words
    OBVIOUS
  <2>2. PICK s \in Seq(S) : s = path
    BY <2>1
  <2>3. PICK x \in S : x = name
    BY <2>1
  <2>4. /\ Len(Append(s, x)) = n + 1 /\ Append(s, x)[n + 1] = x
        /\ \A k \in 1 .. n : Append(s, x)[k] = s[k]
    BY <1>1, <2>2
  <2>5. QED
    BY <1>2, <2>2, <2>3, <2>4, Zenon DEF Then
<1>4. ASSUME Leads(h, r, longer, q)
      PROVE  \E p \in DOMAIN h : Leads(h, r, path, p) /\ q \in Kids(h, p) /\ h[q].name = name
  <2>1. PICK c : Chain(h, r, longer, q, c)
    BY <1>4 DEF Leads
  <2>2. /\ c \in [0 .. n + 1 -> DOMAIN h] /\ c[0] = r /\ c[n + 1] = q
        /\ \A k \in 1 .. n + 1 : c[k] \in Kids(h, c[k - 1]) /\ h[c[k]].name = longer[k]
    BY <1>3, <2>1 DEF Chain
  <2>3. PICK d : d = [k \in 0 .. n |-> c[k]]
    OBVIOUS
  <2>4. /\ d \in [0 .. n -> DOMAIN h] /\ d[0] = r /\ d[n] = c[n]
        /\ \A k \in 0 .. n : d[k] = c[k]
    BY <2>2, <2>3
  <2>5. ASSUME NEW k \in 1 .. n PROVE d[k] \in Kids(h, d[k - 1]) /\ h[d[k]].name = path[k]
    <3>1. k \in 1 .. n + 1 /\ k \in 0 .. n /\ k - 1 \in 0 .. n
      OBVIOUS
    <3>2. QED
      BY <1>3, <2>2, <2>4, <3>1
  <2>6. Chain(h, r, path, c[n], d)
    BY <1>1, <2>4, <2>5 DEF Chain
  <2>7. n \in 0 .. n + 1 /\ n + 1 \in 1 .. n + 1 /\ (n + 1) - 1 = n
    OBVIOUS
  <2>8. c[n] \in DOMAIN h /\ q \in Kids(h, c[n]) /\ h[q].name = name
    BY <1>3, <2>2, <2>7
  <2>9. QED
    BY <2>6, <2>8 DEF Leads
<1>5. ASSUME NEW p \in DOMAIN h, Leads(h, r, path, p), q \in Kids(h, p), h[q].name = name
      PROVE  Leads(h, r, longer, q)
  <2>1. PICK c : Chain(h, r, path, p, c)
    BY <1>5 DEF Leads
  <2>2. /\ c \in [0 .. n -> DOMAIN h] /\ c[0] = r /\ c[n] = p
        /\ \A k \in 1 .. n : c[k] \in Kids(h, c[k - 1]) /\ h[c[k]].name = path[k]
    BY <1>1, <2>1 DEF Chain
  <2>3. PICK d : d = [k \in 0 .. n + 1 |-> IF k = n + 1 THEN q ELSE c[k]]
    OBVIOUS
  <2>4. /\ d \in [0 .. n + 1 -> DOMAIN h] /\ d[n + 1] = q
        /\ \A k \in 0 .. n : d[k] = c[k]
    BY <2>2, <2>3
  <2>5. ASSUME NEW k \in 1 .. n + 1
        PROVE  d[k] \in Kids(h, d[k - 1]) /\ h[d[k]].name = longer[k]
    <3>1. CASE k = n + 1
      <4>1. k - 1 = n /\ n \in 0 .. n
        BY <3>1
      <4>2. QED
        BY <1>3, <1>5, <2>2, <2>4, <3>1, <4>1
    <3>2. CASE k # n + 1
      <4>1. k \in 1 .. n /\ k \in 0 .. n /\ k - 1 \in 0 .. n
        BY <3>2
      <4>2. QED
        BY <1>3, <2>2, <2>4, <4>1
    <3>3. QED
      BY <3>1, <3>2
  <2>6. d[0] = r
    BY <2>2, <2>4
  <2>7. Chain(h, r, longer, q, d)
    BY <1>3, <2>4, <2>5, <2>6 DEF Chain
  <2>8. QED
    BY <2>7 DEF Leads
<1>6. QED
  BY <1>2, <1>4, <1>5

\* g is h without the leaf c.
LeafGone(h, g, c) ==
    /\ DOMAIN g = DOMAIN h \ {c} /\ Kids(h, c) = {}
    /\ \A q \in DOMAIN g : g[q].name = h[q].name /\ Kids(g, q) = Kids(h, q) \ {c}

\* When a leaf goes, the paths lead where they led, but for the leaf.
LEMMA LeadsWithout ==
    ASSUME NEW h, NEW r, NEW g, NEW c, LeafGone(h, g, c),
           NEW path \in Seq(Words), NEW q \in DOMAIN g
    PROVE  Leads(g, r, path, q) <=> Leads(h, r, path, q)
<1>1. PICK n \in Nat : n = Len(path)
  OBVIOUS
<1>2. \A k \in 1 .. n : k \in 0 .. n /\ k - 1 \in 0 .. n
  OBVIOUS
<1>3. ASSUME Leads(g, r, path, q) PROVE Leads(h, r, path, q)
  <2>1. PICK d : Chain(g, r, path, q, d)
    BY <1>3 DEF Leads
  <2>2. /\ d \in [0 .. n -> DOMAIN g] /\ d[0] = r /\ d[n] = q
        /\ \A k \in 1 .. n : d[k] \in Kids(g, d[k - 1]) /\ g[d[k]].name = path[k]
    BY <1>1, <2>1 DEF Chain
  <2>3. \A k \in 1 .. n : d[k] \in Kids(h, d[k - 1]) /\ h[d[k]].name = path[k]
    BY <1>2, <2>2 DEF LeafGone
  <2>4. d \in [0 .. n -> DOMAIN h]
    BY <2>2 DEF LeafGone
  <2>5. Chain(h, r, path, q, d)
    BY <1>1, <2>2, <2>3, <2>4 DEF Chain
  <2>6. QED
    BY <2>5 DEF Leads
<1>4. ASSUME Leads(h, r, path, q) PROVE Leads(g, r, path, q)
  <2>1. PICK d : Chain(h, r, path, q, d)
    BY <1>4 DEF Leads
  <2>2. /\ d \in [0 .. n -> DOMAIN h] /\ d[0] = r /\ d[n] = q
        /\ \A k \in 1 .. n : d[k] \in Kids(h, d[k - 1]) /\ h[d[k]].name = path[k]
    BY <1>1, <2>1 DEF Chain
  <2>3. ASSUME NEW k \in 0 .. n PROVE d[k] \in DOMAIN g
    <3>1. CASE k = n
      BY <2>2, <3>1
    <3>2. CASE k # n
      <4>1. k + 1 \in 1 .. n /\ (k + 1) - 1 = k
        BY <3>2
      <4>2. d[k + 1] \in Kids(h, d[k])
        BY <2>2, <4>1
      <4>3. QED
        BY <2>2, <4>2 DEF LeafGone
    <3>3. QED
      BY <3>1, <3>2
  <2>4. \A k \in 1 .. n : d[k] \in Kids(g, d[k - 1]) /\ g[d[k]].name = path[k]
    BY <1>2, <2>2, <2>3 DEF LeafGone
  <2>5. d \in [0 .. n -> DOMAIN g]
    BY <2>2, <2>3
  <2>6. Chain(g, r, path, q, d)
    BY <1>1, <2>2, <2>4, <2>5 DEF Chain
  <2>7. QED
    BY <2>6 DEF Leads
<1>5. QED
  BY <1>3, <1>4

\* g is a copy of h, with each inode p at m[p].
CopiedTo(h, g, m) ==
    /\ m \in [DOMAIN h -> DOMAIN g]
    /\ \A t \in DOMAIN g : \E p \in DOMAIN h : m[p] = t
    /\ \A p, q \in DOMAIN h : m[p] = m[q] => p = q
    /\ \A p \in DOMAIN h : Kids(h, p) \subseteq DOMAIN h
    /\ \A p \in DOMAIN h : g[m[p]].name = h[p].name /\ g[m[p]].blocks = h[p].blocks
                           /\ g[m[p]].is_directory = h[p].is_directory
    /\ \A p \in DOMAIN h : Kids(g, m[p]) = {m[q] : q \in Kids(h, p)}

\* In a copy, the paths lead to the copies.
LEMMA LeadsToCopy ==
    ASSUME NEW h, NEW r \in DOMAIN h, NEW g, NEW m, CopiedTo(h, g, m),
           NEW path \in Seq(Words), NEW q \in DOMAIN h
    PROVE  Leads(g, m[r], path, m[q]) <=> Leads(h, r, path, q)
<1>1. PICK n \in Nat : n = Len(path)
  OBVIOUS
<1>2. \A k \in 1 .. n : k \in 0 .. n /\ k - 1 \in 0 .. n
  OBVIOUS
<1>3. ASSUME Leads(h, r, path, q) PROVE Leads(g, m[r], path, m[q])
  <2>1. PICK c : Chain(h, r, path, q, c)
    BY <1>3 DEF Leads
  <2>2. /\ c \in [0 .. n -> DOMAIN h] /\ c[0] = r /\ c[n] = q
        /\ \A k \in 1 .. n : c[k] \in Kids(h, c[k - 1]) /\ h[c[k]].name = path[k]
    BY <1>1, <2>1 DEF Chain
  <2>3. PICK d : d = [k \in 0 .. n |-> m[c[k]]]
    OBVIOUS
  <2>4. /\ d \in [0 .. n -> DOMAIN g] /\ d[0] = m[r] /\ d[n] = m[q]
        /\ \A k \in 0 .. n : d[k] = m[c[k]] /\ c[k] \in DOMAIN h
    BY <2>2, <2>3 DEF CopiedTo
  <2>5. ASSUME NEW k \in 1 .. n PROVE d[k] \in Kids(g, d[k - 1]) /\ g[d[k]].name = path[k]
    <3>1. /\ d[k] = m[c[k]] /\ c[k] \in DOMAIN h
          /\ d[k - 1] = m[c[k - 1]] /\ c[k - 1] \in DOMAIN h
      BY <1>2, <2>4
    <3>2. c[k] \in Kids(h, c[k - 1]) /\ h[c[k]].name = path[k]
      BY <2>2
    <3>3. Kids(g, d[k - 1]) = {m[x] : x \in Kids(h, c[k - 1])} /\ g[d[k]].name = h[c[k]].name
      BY <3>1 DEF CopiedTo
    <3>4. QED
      BY <3>1, <3>2, <3>3
  <2>6. Chain(g, m[r], path, m[q], d)
    BY <1>1, <2>4, <2>5 DEF Chain
  <2>7. QED
    BY <2>6 DEF Leads
<1>4. ASSUME Leads(g, m[r], path, m[q]) PROVE Leads(h, r, path, q)
  <2>1. PICK d : Chain(g, m[r], path, m[q], d)
    BY <1>4 DEF Leads
  <2>2. /\ d \in [0 .. n -> DOMAIN g] /\ d[0] = m[r] /\ d[n] = m[q]
        /\ \A k \in 1 .. n : d[k] \in Kids(g, d[k - 1]) /\ g[d[k]].name = path[k]
    BY <1>1, <2>1 DEF Chain
  <2>3. PICK c : c = [k \in 0 .. n |-> CHOOSE p \in DOMAIN h : m[p] = d[k]]
    OBVIOUS
  <2>4. \A k \in 0 .. n : c[k] \in DOMAIN h /\ m[c[k]] = d[k]
    <3>1. \A k \in 0 .. n : \E p \in DOMAIN h : m[p] = d[k]
      BY <2>2 DEF CopiedTo
    <3>2. QED
      BY <2>3, <3>1
  <2>5. c \in [0 .. n -> DOMAIN h]
    BY <2>3, <2>4
  <2>6. 0 \in 0 .. n /\ n \in 0 .. n
    OBVIOUS
  <2>7. c[0] = r /\ c[n] = q
    BY <2>2, <2>4, <2>6 DEF CopiedTo
  <2>8. ASSUME NEW k \in 1 .. n PROVE c[k] \in Kids(h, c[k - 1]) /\ h[c[k]].name = path[k]
    <3>1. /\ d[k] = m[c[k]] /\ c[k] \in DOMAIN h
          /\ d[k - 1] = m[c[k - 1]] /\ c[k - 1] \in DOMAIN h
      BY <1>2, <2>4
    <3>2. d[k] \in Kids(g, d[k - 1]) /\ g[d[k]].name = path[k]
      BY <2>2
    <3>3. Kids(g, d[k - 1]) = {m[x] : x \in Kids(h, c[k - 1])} /\ g[d[k]].name = h[c[k]].name
      BY <3>1 DEF CopiedTo
    <3>4. PICK x \in Kids(h, c[k - 1]) : m[x] = d[k]
      BY <3>2, <3>3
    <3>5. x \in DOMAIN h
      BY <3>1, <3>4 DEF CopiedTo
    <3>6. x = c[k]
      BY <3>1, <3>4, <3>5 DEF CopiedTo
    <3>7. QED
      BY <3>2, <3>3, <3>4, <3>6
  <2>9. Chain(h, r, path, q, c)
    BY <1>1, <2>5, <2>7, <2>8 DEF Chain
  <2>10. QED
    BY <2>9 DEF Leads
<1>5. QED
  BY <1>3, <1>4

\* The paths del_fs goes.
Top == <<>>
KernelFile == Then(Top, "kernel")
VarDir == Then(Top, "var")
LogDir == Then(VarDir, "log")
MessageFile == Then(LogDir, "message")
WarnFile == Then(LogDir, "warn")
FailFile == Then(LogDir, "fail")
ShareDir == Then(Top, "share")
ManDir == Then(ShareDir, "man")
ReadFile == Then(ManDir, "read.2")
EtcDir == Then(Top, "etc")
HostsFile == Then(EtcDir, "hosts")
HostConfFile == Then(EtcDir, "host.conf")
HttpdDir == Then(EtcDir, "httpd")
ConfFile == Then(HttpdDir, "conf")
HomeDir == Then(Top, "home")
UserDir == Then(HomeDir, "user")
DownloadDir == Then(UserDir, "Download")
Oblig2File == Then(DownloadDir, "oblig2")

\* At place k the variable v has what is at the path.
Knows(k, v, path) ==
    \/ v = "root" /\ path = Top
    \/ k = 2 /\ v = "node" /\ path = KernelFile
    \/ k \in 4 .. 12 /\ v = "var" /\ path = VarDir
    \/ k \in 5 .. 12 /\ v = "log" /\ path = LogDir
    \/ k = 7 /\ v = "node" /\ path = MessageFile
    \/ k = 9 /\ v = "node" /\ path = WarnFile
    \/ k = 11 /\ v = "node" /\ path = FailFile
    \/ k = 14 /\ v = "dir" /\ path = ShareDir
    \/ k \in 15 .. 16 /\ v = "dir" /\ path = ManDir
    \/ k = 16 /\ v = "node" /\ path = ReadFile
    \/ (k \in 18 .. 19 \/ k \in 21 .. 22 \/ k \in 24 .. 29) /\ v = "dir" /\ path = EtcDir
    \/ k = 19 /\ v = "node" /\ path = HostsFile
    \/ k = 22 /\ v = "node" /\ path = HostConfFile
    \/ (k = 25 \/ k \in 27 .. 28) /\ v = "http" /\ path = HttpdDir
    \/ k = 28 /\ v = "node" /\ path = ConfFile
    \/ k \in 31 .. 40 /\ v = "dir" /\ path = HomeDir
    \/ k \in 34 .. 40 /\ v = "udir" /\ path = UserDir
    \/ k \in 37 .. 38 /\ v = "dl" /\ path = DownloadDir
    \/ k = 38 /\ v = "node" /\ path = Oblig2File

\* At place k del_fs has tried to delete the file at the path.
Tried(k, path) ==
    \/ k > 2 /\ path = KernelFile
    \/ k > 7 /\ path = MessageFile
    \/ k > 9 /\ path = WarnFile
    \/ k > 11 /\ path = FailFile
    \/ k > 16 /\ path = ReadFile
    \/ k > 19 /\ path = HostsFile
    \/ k > 22 /\ path = HostConfFile
    \/ k > 28 /\ path = ConfFile
    \/ k > 38 /\ path = Oblig2File

\* The path is top, or goes on below it.
Below1(path, top) == \E x \in Words : path = Then(top, x)
Below2(path, top) == \E p \in Seq(Words) : Below1(p, top) /\ Below1(path, p)
Below3(path, top) == \E p \in Seq(Words) : Below2(p, top) /\ Below1(path, p)
AtOrBelow(path, top) ==
    path = top \/ Below1(path, top) \/ Below2(path, top) \/ Below3(path, top)

\* Nothing more is known at the next place than that var has what is at the path.
KnowsOn(k, next, var, path) ==
    \A v, p : Knows(next, v, p) => (v = var /\ p = path) \/ (v # var /\ Knows(k, v, p))

\* By the next place del_fs has tried no more files than those at the path and
\* below.
TriedOn(k, next, path) == \A p : Tried(next, p) => Tried(k, p) \/ AtOrBelow(p, path)

\* A search goes on one step, from the path in to path.
Steps(k, call, in, path) ==
    /\ Knows(k, call.in, in) /\ path = Then(in, call.name)
    /\ call.name \in Words /\ call.absent \in 1 .. 41
    /\ KnowsOn(k, k + 1, call.var, path) /\ KnowsOn(k, call.absent, call.var, path)
    /\ \A p : Tried(k + 1, p) => Tried(k, p)
    /\ TriedOn(k, call.absent, path)

\* A call to delete_file is for what is at the path, in the directory at in.
Removes(k, call, in, path) ==
    /\ Knows(k, call.in, in) /\ Knows(k, call.var, path)
    /\ \E name \in Words : path = Then(in, name)
    /\ Tried(41, path)
    /\ \A v, p : Knows(k + 1, v, p) => Knows(k, v, p)
    /\ \A p : Tried(k + 1, p) => Tried(k, p) \/ p = path

\* A call to delete_dir tries no file.
Passes(k) ==
    /\ \A v, p : Knows(k + 1, v, p) => Knows(k, v, p)
    /\ \A p : Tried(k + 1, p) => Tried(k, p)

\* A path with one more name is a path.
LEMMA LongerPath ==
    ASSUME NEW path \in Seq(Words), NEW name \in Words
    PROVE  Then(path, name) \in Seq(Words)
<1>1. PICK S : S = Words
  OBVIOUS
<1>2. PICK s \in Seq(S) : s = path
  BY <1>1
<1>3. PICK x \in S : x = name
  BY <1>1
<1>4. Append(s, x) \in Seq(S)
  OBVIOUS
<1>5. QED
  BY <1>1, <1>2, <1>3, <1>4, Zenon DEF Then

\* They are paths.
LEMMA Paths ==
    /\ Top \in Seq(Words)
    /\ KernelFile \in Seq(Words) /\ MessageFile \in Seq(Words) /\ WarnFile \in Seq(Words)
    /\ FailFile \in Seq(Words) /\ ReadFile \in Seq(Words) /\ HostsFile \in Seq(Words)
    /\ HostConfFile \in Seq(Words) /\ ConfFile \in Seq(Words) /\ Oblig2File \in Seq(Words)
    /\ VarDir \in Seq(Words) /\ LogDir \in Seq(Words) /\ ShareDir \in Seq(Words)
    /\ ManDir \in Seq(Words) /\ EtcDir \in Seq(Words) /\ HttpdDir \in Seq(Words)
    /\ HomeDir \in Seq(Words) /\ UserDir \in Seq(Words) /\ DownloadDir \in Seq(Words)
<1>1. Top \in Seq(Words)
  BY DEF Top
<1>2. /\ KernelFile \in Seq(Words) /\ VarDir \in Seq(Words) /\ ShareDir \in Seq(Words)
      /\ EtcDir \in Seq(Words) /\ HomeDir \in Seq(Words)
  BY <1>1, LongerPath DEF Words, KernelFile, VarDir, ShareDir, EtcDir, HomeDir
<1>3. /\ LogDir \in Seq(Words) /\ ManDir \in Seq(Words) /\ HttpdDir \in Seq(Words)
      /\ HostsFile \in Seq(Words) /\ HostConfFile \in Seq(Words) /\ UserDir \in Seq(Words)
  BY <1>2, LongerPath DEF Words, LogDir, ManDir, HttpdDir, HostsFile, HostConfFile, UserDir
<1>4. /\ MessageFile \in Seq(Words) /\ WarnFile \in Seq(Words) /\ FailFile \in Seq(Words)
      /\ ReadFile \in Seq(Words) /\ ConfFile \in Seq(Words) /\ DownloadDir \in Seq(Words)
  BY <1>3, LongerPath DEF Words, MessageFile, WarnFile, FailFile, ReadFile, ConfFile, DownloadDir
<1>5. Oblig2File \in Seq(Words)
  BY <1>4, LongerPath DEF Words, Oblig2File
<1>6. QED
  BY <1>1, <1>2, <1>3, <1>4, <1>5

\* So are those that del_fs knows or has tried.
LEMMA ArePaths ==
    /\ \A k, v, path : Knows(k, v, path) => path \in Seq(Words)
    /\ \A k, path : Tried(k, path) => path \in Seq(Words)
BY Paths DEF Knows, Tried

\* Of the files del_fs tries, these are below the directories.
LEMMA WhatIsBelow ==
    /\ AtOrBelow(KernelFile, KernelFile)
    /\ AtOrBelow(MessageFile, MessageFile) /\ AtOrBelow(MessageFile, LogDir)
    /\ AtOrBelow(MessageFile, VarDir)
    /\ AtOrBelow(WarnFile, WarnFile) /\ AtOrBelow(WarnFile, LogDir) /\ AtOrBelow(WarnFile, VarDir)
    /\ AtOrBelow(FailFile, FailFile) /\ AtOrBelow(FailFile, LogDir) /\ AtOrBelow(FailFile, VarDir)
    /\ AtOrBelow(ReadFile, ReadFile) /\ AtOrBelow(ReadFile, ManDir) /\ AtOrBelow(ReadFile, ShareDir)
    /\ AtOrBelow(HostsFile, HostsFile) /\ AtOrBelow(HostsFile, EtcDir)
    /\ AtOrBelow(HostConfFile, HostConfFile) /\ AtOrBelow(HostConfFile, EtcDir)
    /\ AtOrBelow(ConfFile, ConfFile) /\ AtOrBelow(ConfFile, HttpdDir) /\ AtOrBelow(ConfFile, EtcDir)
    /\ AtOrBelow(Oblig2File, Oblig2File) /\ AtOrBelow(Oblig2File, DownloadDir)
    /\ AtOrBelow(Oblig2File, UserDir) /\ AtOrBelow(Oblig2File, HomeDir)
<1>1. /\ Below1(MessageFile, LogDir) /\ Below1(WarnFile, LogDir) /\ Below1(FailFile, LogDir)
      /\ Below1(LogDir, VarDir)
      /\ Below1(ReadFile, ManDir) /\ Below1(ManDir, ShareDir)
      /\ Below1(HostsFile, EtcDir) /\ Below1(HostConfFile, EtcDir)
      /\ Below1(ConfFile, HttpdDir) /\ Below1(HttpdDir, EtcDir)
      /\ Below1(Oblig2File, DownloadDir) /\ Below1(DownloadDir, UserDir)
      /\ Below1(UserDir, HomeDir)
  BY DEF Below1, Words, MessageFile, WarnFile, FailFile, LogDir, ReadFile, ManDir, HostsFile,
         HostConfFile, ConfFile, HttpdDir, Oblig2File, DownloadDir, UserDir
<1>2. /\ Below2(MessageFile, VarDir) /\ Below2(WarnFile, VarDir) /\ Below2(FailFile, VarDir)
      /\ Below2(ReadFile, ShareDir) /\ Below2(ConfFile, EtcDir)
      /\ Below2(Oblig2File, UserDir) /\ Below2(DownloadDir, HomeDir)
  BY <1>1, Paths DEF Below2
<1>3. Below3(Oblig2File, HomeDir)
  BY <1>1, <1>2, Paths DEF Below3
<1>4. QED
  BY <1>1, <1>2, <1>3 DEF AtOrBelow

\* Where del_fs calls delete_file, delete_dir and find_inode_by_name.
FileCalls == {2, 7, 9, 11, 16, 19, 22, 28, 38}
DirCalls == {5, 12, 25, 29, 32, 35, 39, 40}
Searches == {1, 3, 4, 6, 8, 10, 13, 14, 15, 17, 18, 20, 21, 23, 24, 26, 27, 30, 31, 33,
             34, 36, 37}

\* What the calls of del_fs are.
LEMMA DelFsOps ==
    /\ \A k \in FileCalls : DelFs[k].op = "delete_file"
    /\ \A k \in DirCalls : DelFs[k].op = "delete_dir"
    /\ \A k \in Searches : DelFs[k].op = "find"
    /\ DelFs[41].op = "save"
<1>1. /\ DelFs[2].op = "delete_file" /\ DelFs[7].op = "delete_file" /\ DelFs[9].op = "delete_file"
      /\ DelFs[11].op = "delete_file" /\ DelFs[16].op = "delete_file"
      /\ DelFs[19].op = "delete_file" /\ DelFs[22].op = "delete_file"
      /\ DelFs[28].op = "delete_file" /\ DelFs[38].op = "delete_file"
  BY DelFsText, CallFields
<1>2. /\ DelFs[5].op = "delete_dir" /\ DelFs[12].op = "delete_dir" /\ DelFs[25].op = "delete_dir"
      /\ DelFs[29].op = "delete_dir" /\ DelFs[32].op = "delete_dir"
      /\ DelFs[35].op = "delete_dir" /\ DelFs[39].op = "delete_dir"
      /\ DelFs[40].op = "delete_dir"
  BY DelFsText, CallFields
<1>3. /\ DelFs[1].op = "find" /\ DelFs[3].op = "find" /\ DelFs[4].op = "find"
      /\ DelFs[6].op = "find" /\ DelFs[8].op = "find" /\ DelFs[10].op = "find"
      /\ DelFs[13].op = "find" /\ DelFs[14].op = "find" /\ DelFs[15].op = "find"
      /\ DelFs[17].op = "find" /\ DelFs[18].op = "find" /\ DelFs[20].op = "find"
  BY DelFsText, CallFields
<1>4. /\ DelFs[21].op = "find" /\ DelFs[23].op = "find" /\ DelFs[24].op = "find"
      /\ DelFs[26].op = "find" /\ DelFs[27].op = "find" /\ DelFs[30].op = "find"
      /\ DelFs[31].op = "find" /\ DelFs[33].op = "find" /\ DelFs[34].op = "find"
      /\ DelFs[36].op = "find" /\ DelFs[37].op = "find" /\ DelFs[41].op = "save"
  BY DelFsText, CallFields
<1>5. QED
  BY <1>1, <1>2, <1>3, <1>4 DEF FileCalls, DirCalls, Searches

\* Every search of del_fs goes on one step on a path, from a variable that has
\* what is at its beginning, and when it finds nothing only files below that
\* step are passed over.
LEMMA DelFsSteps ==
    ASSUME NEW k \in 1 .. 41, DelFs[k].op = "find"
    PROVE  \E in, path \in Seq(Words) : Steps(k, DelFs[k], in, path)
<1>1. PICK call : call = DelFs[k]
  OBVIOUS
<1> SUFFICES \E in, path \in Seq(Words) : Steps(k, call, in, path)
    BY <1>1
<1>2. call.op = "find"
  BY <1>1
<1>3. CASE k = 1
  <2>1. call.in = "root" /\ call.name = "kernel" /\ call.var = "node" /\ call.absent = 3
    BY <1>1, <1>3, DelFsText, CallFields
  <2>2. /\ Knows(1, "root", Top) /\ KnowsOn(1, 2, "node", KernelFile)
        /\ KnowsOn(1, 3, "node", KernelFile)
    BY DEF Knows, KnowsOn
  <2>3. (\A p : Tried(2, p) => Tried(1, p)) /\ TriedOn(1, 3, KernelFile)
    BY WhatIsBelow DEF Tried, TriedOn
  <2>4. KernelFile = Then(Top, "kernel") /\ k + 1 = 2
    BY <1>3 DEF KernelFile
  <2>5. Steps(k, call, Top, KernelFile)
    BY <1>3, <2>1, <2>2, <2>3, <2>4 DEF Steps, Words
  <2>6. QED
    BY <2>5, Paths
<1>4. CASE k = 3
  <2>1. call.in = "root" /\ call.name = "var" /\ call.var = "var" /\ call.absent = 13
    BY <1>1, <1>4, DelFsText, CallFields
  <2>2. /\ Knows(3, "root", Top) /\ KnowsOn(3, 4, "var", VarDir)
        /\ KnowsOn(3, 13, "var", VarDir)
    BY DEF Knows, KnowsOn
  <2>3. (\A p : Tried(4, p) => Tried(3, p)) /\ TriedOn(3, 13, VarDir)
    BY WhatIsBelow DEF Tried, TriedOn
  <2>4. VarDir = Then(Top, "var") /\ k + 1 = 4
    BY <1>4 DEF VarDir
  <2>5. Steps(k, call, Top, VarDir)
    BY <1>4, <2>1, <2>2, <2>3, <2>4 DEF Steps, Words
  <2>6. QED
    BY <2>5, Paths
<1>5. CASE k = 4
  <2>1. call.in = "var" /\ call.name = "log" /\ call.var = "log" /\ call.absent = 13
    BY <1>1, <1>5, DelFsText, CallFields
  <2>2. /\ Knows(4, "var", VarDir) /\ KnowsOn(4, 5, "log", LogDir)
        /\ KnowsOn(4, 13, "log", LogDir)
    BY DEF Knows, KnowsOn
  <2>3. (\A p : Tried(5, p) => Tried(4, p)) /\ TriedOn(4, 13, LogDir)
    BY WhatIsBelow DEF Tried, TriedOn
  <2>4. LogDir = Then(VarDir, "log") /\ k + 1 = 5
    BY <1>5 DEF LogDir
  <2>5. Steps(k, call, VarDir, LogDir)
    BY <1>5, <2>1, <2>2, <2>3, <2>4 DEF Steps, Words
  <2>6. QED
    BY <2>5, Paths
<1>6. CASE k = 6
  <2>1. call.in = "log" /\ call.name = "message" /\ call.var = "node" /\ call.absent = 8
    BY <1>1, <1>6, DelFsText, CallFields
  <2>2. /\ Knows(6, "log", LogDir) /\ KnowsOn(6, 7, "node", MessageFile)
        /\ KnowsOn(6, 8, "node", MessageFile)
    BY DEF Knows, KnowsOn
  <2>3. (\A p : Tried(7, p) => Tried(6, p)) /\ TriedOn(6, 8, MessageFile)
    BY WhatIsBelow DEF Tried, TriedOn
  <2>4. MessageFile = Then(LogDir, "message") /\ k + 1 = 7
    BY <1>6 DEF MessageFile
  <2>5. Steps(k, call, LogDir, MessageFile)
    BY <1>6, <2>1, <2>2, <2>3, <2>4 DEF Steps, Words
  <2>6. QED
    BY <2>5, Paths
<1>7. CASE k = 8
  <2>1. call.in = "log" /\ call.name = "warn" /\ call.var = "node" /\ call.absent = 10
    BY <1>1, <1>7, DelFsText, CallFields
  <2>2. /\ Knows(8, "log", LogDir) /\ KnowsOn(8, 9, "node", WarnFile)
        /\ KnowsOn(8, 10, "node", WarnFile)
    BY DEF Knows, KnowsOn
  <2>3. (\A p : Tried(9, p) => Tried(8, p)) /\ TriedOn(8, 10, WarnFile)
    BY WhatIsBelow DEF Tried, TriedOn
  <2>4. WarnFile = Then(LogDir, "warn") /\ k + 1 = 9
    BY <1>7 DEF WarnFile
  <2>5. Steps(k, call, LogDir, WarnFile)
    BY <1>7, <2>1, <2>2, <2>3, <2>4 DEF Steps, Words
  <2>6. QED
    BY <2>5, Paths
<1>8. CASE k = 10
  <2>1. call.in = "log" /\ call.name = "fail" /\ call.var = "node" /\ call.absent = 12
    BY <1>1, <1>8, DelFsText, CallFields
  <2>2. /\ Knows(10, "log", LogDir) /\ KnowsOn(10, 11, "node", FailFile)
        /\ KnowsOn(10, 12, "node", FailFile)
    BY DEF Knows, KnowsOn
  <2>3. (\A p : Tried(11, p) => Tried(10, p)) /\ TriedOn(10, 12, FailFile)
    BY WhatIsBelow DEF Tried, TriedOn
  <2>4. FailFile = Then(LogDir, "fail") /\ k + 1 = 11
    BY <1>8 DEF FailFile
  <2>5. Steps(k, call, LogDir, FailFile)
    BY <1>8, <2>1, <2>2, <2>3, <2>4 DEF Steps, Words
  <2>6. QED
    BY <2>5, Paths
<1>9. CASE k = 13
  <2>1. call.in = "root" /\ call.name = "share" /\ call.var = "dir" /\ call.absent = 17
    BY <1>1, <1>9, DelFsText, CallFields
  <2>2. /\ Knows(13, "root", Top) /\ KnowsOn(13, 14, "dir", ShareDir)
        /\ KnowsOn(13, 17, "dir", ShareDir)
    BY DEF Knows, KnowsOn
  <2>3. (\A p : Tried(14, p) => Tried(13, p)) /\ TriedOn(13, 17, ShareDir)
    BY WhatIsBelow DEF Tried, TriedOn
  <2>4. ShareDir = Then(Top, "share") /\ k + 1 = 14
    BY <1>9 DEF ShareDir
  <2>5. Steps(k, call, Top, ShareDir)
    BY <1>9, <2>1, <2>2, <2>3, <2>4 DEF Steps, Words
  <2>6. QED
    BY <2>5, Paths
<1>10. CASE k = 14
  <2>1. call.in = "dir" /\ call.name = "man" /\ call.var = "dir" /\ call.absent = 17
    BY <1>1, <1>10, DelFsText, CallFields
  <2>2. /\ Knows(14, "dir", ShareDir) /\ KnowsOn(14, 15, "dir", ManDir)
        /\ KnowsOn(14, 17, "dir", ManDir)
    BY DEF Knows, KnowsOn
  <2>3. (\A p : Tried(15, p) => Tried(14, p)) /\ TriedOn(14, 17, ManDir)
    BY WhatIsBelow DEF Tried, TriedOn
  <2>4. ManDir = Then(ShareDir, "man") /\ k + 1 = 15
    BY <1>10 DEF ManDir
  <2>5. Steps(k, call, ShareDir, ManDir)
    BY <1>10, <2>1, <2>2, <2>3, <2>4 DEF Steps, Words
  <2>6. QED
    BY <2>5, Paths
<1>11. CASE k = 15
  <2>1. call.in = "dir" /\ call.name = "read.2" /\ call.var = "node" /\ call.absent = 17
    BY <1>1, <1>11, DelFsText, CallFields
  <2>2. /\ Knows(15, "dir", ManDir) /\ KnowsOn(15, 16, "node", ReadFile)
        /\ KnowsOn(15, 17, "node", ReadFile)
    BY DEF Knows, KnowsOn
  <2>3. (\A p : Tried(16, p) => Tried(15, p)) /\ TriedOn(15, 17, ReadFile)
    BY WhatIsBelow DEF Tried, TriedOn
  <2>4. ReadFile = Then(ManDir, "read.2") /\ k + 1 = 16
    BY <1>11 DEF ReadFile
  <2>5. Steps(k, call, ManDir, ReadFile)
    BY <1>11, <2>1, <2>2, <2>3, <2>4 DEF Steps, Words
  <2>6. QED
    BY <2>5, Paths
<1>12. CASE k = 17
  <2>1. call.in = "root" /\ call.name = "etc" /\ call.var = "dir" /\ call.absent = 20
    BY <1>1, <1>12, DelFsText, CallFields
  <2>2. /\ Knows(17, "root", Top) /\ KnowsOn(17, 18, "dir", EtcDir)
        /\ KnowsOn(17, 20, "dir", EtcDir)
    BY DEF Knows, KnowsOn
  <2>3. (\A p : Tried(18, p) => Tried(17, p)) /\ TriedOn(17, 20, EtcDir)
    BY WhatIsBelow DEF Tried, TriedOn
  <2>4. EtcDir = Then(Top, "etc") /\ k + 1 = 18
    BY <1>12 DEF EtcDir
  <2>5. Steps(k, call, Top, EtcDir)
    BY <1>12, <2>1, <2>2, <2>3, <2>4 DEF Steps, Words
  <2>6. QED
    BY <2>5, Paths
<1>13. CASE k = 18
  <2>1. call.in = "dir" /\ call.name = "hosts" /\ call.var = "node" /\ call.absent = 20
    BY <1>1, <1>13, DelFsText, CallFields
  <2>2. /\ Knows(18, "dir", EtcDir) /\ KnowsOn(18, 19, "node", HostsFile)
        /\ KnowsOn(18, 20, "node", HostsFile)
    BY DEF Knows, KnowsOn
  <2>3. (\A p : Tried(19, p) => Tried(18, p)) /\ TriedOn(18, 20, HostsFile)
    BY WhatIsBelow DEF Tried, TriedOn
  <2>4. HostsFile = Then(EtcDir, "hosts") /\ k + 1 = 19
    BY <1>13 DEF HostsFile
  <2>5. Steps(k, call, EtcDir, HostsFile)
    BY <1>13, <2>1, <2>2, <2>3, <2>4 DEF Steps, Words
  <2>6. QED
    BY <2>5, Paths
<1>14. CASE k = 20
  <2>1. call.in = "root" /\ call.name = "etc" /\ call.var = "dir" /\ call.absent = 23
    BY <1>1, <1>14, DelFsText, CallFields
  <2>2. /\ Knows(20, "root", Top) /\ KnowsOn(20, 21, "dir", EtcDir)
        /\ KnowsOn(20, 23, "dir", EtcDir)
    BY DEF Knows, KnowsOn
  <2>3. (\A p : Tried(21, p) => Tried(20, p)) /\ TriedOn(20, 23, EtcDir)
    BY WhatIsBelow DEF Tried, TriedOn
  <2>4. EtcDir = Then(Top, "etc") /\ k + 1 = 21
    BY <1>14 DEF EtcDir
  <2>5. Steps(k, call, Top, EtcDir)
    BY <1>14, <2>1, <2>2, <2>3, <2>4 DEF Steps, Words
  <2>6. QED
    BY <2>5, Paths
<1>15. CASE k = 21
  <2>1. call.in = "dir" /\ call.name = "host.conf" /\ call.var = "node" /\ call.absent = 23
    BY <1>1, <1>15, DelFsText, CallFields
  <2>2. /\ Knows(21, "dir", EtcDir) /\ KnowsOn(21, 22, "node", HostConfFile)
        /\ KnowsOn(21, 23, "node", HostConfFile)
    BY DEF Knows, KnowsOn
  <2>3. (\A p : Tried(22, p) => Tried(21, p)) /\ TriedOn(21, 23, HostConfFile)
    BY WhatIsBelow DEF Tried, TriedOn
  <2>4. HostConfFile = Then(EtcDir, "host.conf") /\ k + 1 = 22
    BY <1>15 DEF HostConfFile
  <2>5. Steps(k, call, EtcDir, HostConfFile)
    BY <1>15, <2>1, <2>2, <2>3, <2>4 DEF Steps, Words
  <2>6. QED
    BY <2>5, Paths
<1>16. CASE k = 23
  <2>1. call.in = "root" /\ call.name = "etc" /\ call.var = "dir" /\ call.absent = 30
    BY <1>1, <1>16, DelFsText, CallFields
  <2>2. /\ Knows(23, "root", Top) /\ KnowsOn(23, 24, "dir", EtcDir)
        /\ KnowsOn(23, 30, "dir", EtcDir)
    BY DEF Knows, KnowsOn
  <2>3. (\A p : Tried(24, p) => Tried(23, p)) /\ TriedOn(23, 30, EtcDir)
    BY WhatIsBelow DEF Tried, TriedOn
  <2>4. EtcDir = Then(Top, "etc") /\ k + 1 = 24
    BY <1>16 DEF EtcDir
  <2>5. Steps(k, call, Top, EtcDir)
    BY <1>16, <2>1, <2>2, <2>3, <2>4 DEF Steps, Words
  <2>6. QED
    BY <2>5, Paths
<1>17. CASE k = 24
  <2>1. call.in = "dir" /\ call.name = "httpd" /\ call.var = "http" /\ call.absent = 30
    BY <1>1, <1>17, DelFsText, CallFields
  <2>2. /\ Knows(24, "dir", EtcDir) /\ KnowsOn(24, 25, "http", HttpdDir)
        /\ KnowsOn(24, 30, "http", HttpdDir)
    BY DEF Knows, KnowsOn
  <2>3. (\A p : Tried(25, p) => Tried(24, p)) /\ TriedOn(24, 30, HttpdDir)
    BY WhatIsBelow DEF Tried, TriedOn
  <2>4. HttpdDir = Then(EtcDir, "httpd") /\ k + 1 = 25
    BY <1>17 DEF HttpdDir
  <2>5. Steps(k, call, EtcDir, HttpdDir)
    BY <1>17, <2>1, <2>2, <2>3, <2>4 DEF Steps, Words
  <2>6. QED
    BY <2>5, Paths
<1>18. CASE k = 26
  <2>1. call.in = "dir" /\ call.name = "httpd" /\ call.var = "http" /\ call.absent = 30
    BY <1>1, <1>18, DelFsText, CallFields
  <2>2. /\ Knows(26, "dir", EtcDir) /\ KnowsOn(26, 27, "http", HttpdDir)
        /\ KnowsOn(26, 30, "http", HttpdDir)
    BY DEF Knows, KnowsOn
  <2>3. (\A p : Tried(27, p) => Tried(26, p)) /\ TriedOn(26, 30, HttpdDir)
    BY WhatIsBelow DEF Tried, TriedOn
  <2>4. HttpdDir = Then(EtcDir, "httpd") /\ k + 1 = 27
    BY <1>18 DEF HttpdDir
  <2>5. Steps(k, call, EtcDir, HttpdDir)
    BY <1>18, <2>1, <2>2, <2>3, <2>4 DEF Steps, Words
  <2>6. QED
    BY <2>5, Paths
<1>19. CASE k = 27
  <2>1. call.in = "http" /\ call.name = "conf" /\ call.var = "node" /\ call.absent = 30
    BY <1>1, <1>19, DelFsText, CallFields
  <2>2. /\ Knows(27, "http", HttpdDir) /\ KnowsOn(27, 28, "node", ConfFile)
        /\ KnowsOn(27, 30, "node", ConfFile)
    BY DEF Knows, KnowsOn
  <2>3. (\A p : Tried(28, p) => Tried(27, p)) /\ TriedOn(27, 30, ConfFile)
    BY WhatIsBelow DEF Tried, TriedOn
  <2>4. ConfFile = Then(HttpdDir, "conf") /\ k + 1 = 28
    BY <1>19 DEF ConfFile
  <2>5. Steps(k, call, HttpdDir, ConfFile)
    BY <1>19, <2>1, <2>2, <2>3, <2>4 DEF Steps, Words
  <2>6. QED
    BY <2>5, Paths
<1>20. CASE k = 30
  <2>1. call.in = "root" /\ call.name = "home" /\ call.var = "dir" /\ call.absent = 41
    BY <1>1, <1>20, DelFsText, CallFields
  <2>2. /\ Knows(30, "root", Top) /\ KnowsOn(30, 31, "dir", HomeDir)
        /\ KnowsOn(30, 41, "dir", HomeDir)
    BY DEF Knows, KnowsOn
  <2>3. (\A p : Tried(31, p) => Tried(30, p)) /\ TriedOn(30, 41, HomeDir)
    BY WhatIsBelow DEF Tried, TriedOn
  <2>4. HomeDir = Then(Top, "home") /\ k + 1 = 31
    BY <1>20 DEF HomeDir
  <2>5. Steps(k, call, Top, HomeDir)
    BY <1>20, <2>1, <2>2, <2>3, <2>4 DEF Steps, Words
  <2>6. QED
    BY <2>5, Paths
<1>21. CASE k = 31
  <2>1. call.in = "dir" /\ call.name = "user" /\ call.var = "udir" /\ call.absent = 41
    BY <1>1, <1>21, DelFsText, CallFields
  <2>2. /\ Knows(31, "dir", HomeDir) /\ KnowsOn(31, 32, "udir", UserDir)
        /\ KnowsOn(31, 41, "udir", UserDir)
    BY DEF Knows, KnowsOn
  <2>3. (\A p : Tried(32, p) => Tried(31, p)) /\ TriedOn(31, 41, UserDir)
    BY WhatIsBelow DEF Tried, TriedOn
  <2>4. UserDir = Then(HomeDir, "user") /\ k + 1 = 32
    BY <1>21 DEF UserDir
  <2>5. Steps(k, call, HomeDir, UserDir)
    BY <1>21, <2>1, <2>2, <2>3, <2>4 DEF Steps, Words
  <2>6. QED
    BY <2>5, Paths
<1>22. CASE k = 33
  <2>1. call.in = "dir" /\ call.name = "user" /\ call.var = "udir" /\ call.absent = 34
    BY <1>1, <1>22, DelFsText, CallFields
  <2>2. /\ Knows(33, "dir", HomeDir) /\ KnowsOn(33, 34, "udir", UserDir)
        /\ KnowsOn(33, 34, "udir", UserDir)
    BY DEF Knows, KnowsOn
  <2>3. (\A p : Tried(34, p) => Tried(33, p)) /\ TriedOn(33, 34, UserDir)
    BY WhatIsBelow DEF Tried, TriedOn
  <2>4. UserDir = Then(HomeDir, "user") /\ k + 1 = 34
    BY <1>22 DEF UserDir
  <2>5. Steps(k, call, HomeDir, UserDir)
    BY <1>22, <2>1, <2>2, <2>3, <2>4 DEF Steps, Words
  <2>6. QED
    BY <2>5, Paths
<1>23. CASE k = 34
  <2>1. call.in = "udir" /\ call.name = "Download" /\ call.var = "dl" /\ call.absent = 41
    BY <1>1, <1>23, DelFsText, CallFields
  <2>2. /\ Knows(34, "udir", UserDir) /\ KnowsOn(34, 35, "dl", DownloadDir)
        /\ KnowsOn(34, 41, "dl", DownloadDir)
    BY DEF Knows, KnowsOn
  <2>3. (\A p : Tried(35, p) => Tried(34, p)) /\ TriedOn(34, 41, DownloadDir)
    BY WhatIsBelow DEF Tried, TriedOn
  <2>4. DownloadDir = Then(UserDir, "Download") /\ k + 1 = 35
    BY <1>23 DEF DownloadDir
  <2>5. Steps(k, call, UserDir, DownloadDir)
    BY <1>23, <2>1, <2>2, <2>3, <2>4 DEF Steps, Words
  <2>6. QED
    BY <2>5, Paths
<1>24. CASE k = 36
  <2>1. call.in = "udir" /\ call.name = "Download" /\ call.var = "dl" /\ call.absent = 41
    BY <1>1, <1>24, DelFsText, CallFields
  <2>2. /\ Knows(36, "udir", UserDir) /\ KnowsOn(36, 37, "dl", DownloadDir)
        /\ KnowsOn(36, 41, "dl", DownloadDir)
    BY DEF Knows, KnowsOn
  <2>3. (\A p : Tried(37, p) => Tried(36, p)) /\ TriedOn(36, 41, DownloadDir)
    BY WhatIsBelow DEF Tried, TriedOn
  <2>4. DownloadDir = Then(UserDir, "Download") /\ k + 1 = 37
    BY <1>24 DEF DownloadDir
  <2>5. Steps(k, call, UserDir, DownloadDir)
    BY <1>24, <2>1, <2>2, <2>3, <2>4 DEF Steps, Words
  <2>6. QED
    BY <2>5, Paths
<1>25. CASE k = 37
  <2>1. call.in = "dl" /\ call.name = "oblig2" /\ call.var = "node" /\ call.absent = 41
    BY <1>1, <1>25, DelFsText, CallFields
  <2>2. /\ Knows(37, "dl", DownloadDir) /\ KnowsOn(37, 38, "node", Oblig2File)
        /\ KnowsOn(37, 41, "node", Oblig2File)
    BY DEF Knows, KnowsOn
  <2>3. (\A p : Tried(38, p) => Tried(37, p)) /\ TriedOn(37, 41, Oblig2File)
    BY WhatIsBelow DEF Tried, TriedOn
  <2>4. Oblig2File = Then(DownloadDir, "oblig2") /\ k + 1 = 38
    BY <1>25 DEF Oblig2File
  <2>5. Steps(k, call, DownloadDir, Oblig2File)
    BY <1>25, <2>1, <2>2, <2>3, <2>4 DEF Steps, Words
  <2>6. QED
    BY <2>5, Paths
<1>26. CASE k \in FileCalls
  BY <1>1, <1>2, <1>26, DelFsOps
<1>27. CASE k \in DirCalls
  BY <1>1, <1>2, <1>27, DelFsOps
<1>28. CASE k = 41
  BY <1>1, <1>2, <1>28, DelFsOps
<1>29. QED
  BY <1>3, <1>4, <1>5, <1>6, <1>7, <1>8, <1>9, <1>10, <1>11, <1>12, <1>13, <1>14, <1>15,
     <1>16, <1>17, <1>18, <1>19, <1>20, <1>21, <1>22, <1>23, <1>24, <1>25, <1>26, <1>27,
     <1>28 DEF FileCalls, DirCalls, Searches

\* Every call of del_fs to delete_file is for one of the files at the paths.
LEMMA DelFsRemoves ==
    ASSUME NEW k \in 1 .. 41, DelFs[k].op = "delete_file"
    PROVE  \E in, path \in Seq(Words) : Removes(k, DelFs[k], in, path)
<1>1. PICK call : call = DelFs[k]
  OBVIOUS
<1> SUFFICES \E in, path \in Seq(Words) : Removes(k, call, in, path)
    BY <1>1
<1>2. call.op = "delete_file"
  BY <1>1
<1>3. CASE k = 2
  <2>1. call.in = "root" /\ call.var = "node"
    BY <1>1, <1>3, DelFsText, CallFields
  <2>2. /\ Knows(2, "root", Top) /\ Knows(2, "node", KernelFile)
        /\ \A v, p : Knows(3, v, p) => Knows(2, v, p)
    BY DEF Knows
  <2>3. (\A p : Tried(3, p) => Tried(2, p) \/ p = KernelFile) /\ Tried(41, KernelFile)
    BY DEF Tried
  <2>4. KernelFile = Then(Top, "kernel") /\ k + 1 = 3
    BY <1>3 DEF KernelFile
  <2>5. Removes(k, call, Top, KernelFile)
    BY <1>3, <2>1, <2>2, <2>3, <2>4 DEF Removes, Words
  <2>6. QED
    BY <2>5, Paths
<1>4. CASE k = 7
  <2>1. call.in = "log" /\ call.var = "node"
    BY <1>1, <1>4, DelFsText, CallFields
  <2>2. /\ Knows(7, "log", LogDir) /\ Knows(7, "node", MessageFile)
        /\ \A v, p : Knows(8, v, p) => Knows(7, v, p)
    BY DEF Knows
  <2>3. (\A p : Tried(8, p) => Tried(7, p) \/ p = MessageFile) /\ Tried(41, MessageFile)
    BY DEF Tried
  <2>4. MessageFile = Then(LogDir, "message") /\ k + 1 = 8
    BY <1>4 DEF MessageFile
  <2>5. Removes(k, call, LogDir, MessageFile)
    BY <1>4, <2>1, <2>2, <2>3, <2>4 DEF Removes, Words
  <2>6. QED
    BY <2>5, Paths
<1>5. CASE k = 9
  <2>1. call.in = "log" /\ call.var = "node"
    BY <1>1, <1>5, DelFsText, CallFields
  <2>2. /\ Knows(9, "log", LogDir) /\ Knows(9, "node", WarnFile)
        /\ \A v, p : Knows(10, v, p) => Knows(9, v, p)
    BY DEF Knows
  <2>3. (\A p : Tried(10, p) => Tried(9, p) \/ p = WarnFile) /\ Tried(41, WarnFile)
    BY DEF Tried
  <2>4. WarnFile = Then(LogDir, "warn") /\ k + 1 = 10
    BY <1>5 DEF WarnFile
  <2>5. Removes(k, call, LogDir, WarnFile)
    BY <1>5, <2>1, <2>2, <2>3, <2>4 DEF Removes, Words
  <2>6. QED
    BY <2>5, Paths
<1>6. CASE k = 11
  <2>1. call.in = "log" /\ call.var = "node"
    BY <1>1, <1>6, DelFsText, CallFields
  <2>2. /\ Knows(11, "log", LogDir) /\ Knows(11, "node", FailFile)
        /\ \A v, p : Knows(12, v, p) => Knows(11, v, p)
    BY DEF Knows
  <2>3. (\A p : Tried(12, p) => Tried(11, p) \/ p = FailFile) /\ Tried(41, FailFile)
    BY DEF Tried
  <2>4. FailFile = Then(LogDir, "fail") /\ k + 1 = 12
    BY <1>6 DEF FailFile
  <2>5. Removes(k, call, LogDir, FailFile)
    BY <1>6, <2>1, <2>2, <2>3, <2>4 DEF Removes, Words
  <2>6. QED
    BY <2>5, Paths
<1>7. CASE k = 16
  <2>1. call.in = "dir" /\ call.var = "node"
    BY <1>1, <1>7, DelFsText, CallFields
  <2>2. /\ Knows(16, "dir", ManDir) /\ Knows(16, "node", ReadFile)
        /\ \A v, p : Knows(17, v, p) => Knows(16, v, p)
    BY DEF Knows
  <2>3. (\A p : Tried(17, p) => Tried(16, p) \/ p = ReadFile) /\ Tried(41, ReadFile)
    BY DEF Tried
  <2>4. ReadFile = Then(ManDir, "read.2") /\ k + 1 = 17
    BY <1>7 DEF ReadFile
  <2>5. Removes(k, call, ManDir, ReadFile)
    BY <1>7, <2>1, <2>2, <2>3, <2>4 DEF Removes, Words
  <2>6. QED
    BY <2>5, Paths
<1>8. CASE k = 19
  <2>1. call.in = "dir" /\ call.var = "node"
    BY <1>1, <1>8, DelFsText, CallFields
  <2>2. /\ Knows(19, "dir", EtcDir) /\ Knows(19, "node", HostsFile)
        /\ \A v, p : Knows(20, v, p) => Knows(19, v, p)
    BY DEF Knows
  <2>3. (\A p : Tried(20, p) => Tried(19, p) \/ p = HostsFile) /\ Tried(41, HostsFile)
    BY DEF Tried
  <2>4. HostsFile = Then(EtcDir, "hosts") /\ k + 1 = 20
    BY <1>8 DEF HostsFile
  <2>5. Removes(k, call, EtcDir, HostsFile)
    BY <1>8, <2>1, <2>2, <2>3, <2>4 DEF Removes, Words
  <2>6. QED
    BY <2>5, Paths
<1>9. CASE k = 22
  <2>1. call.in = "dir" /\ call.var = "node"
    BY <1>1, <1>9, DelFsText, CallFields
  <2>2. /\ Knows(22, "dir", EtcDir) /\ Knows(22, "node", HostConfFile)
        /\ \A v, p : Knows(23, v, p) => Knows(22, v, p)
    BY DEF Knows
  <2>3. (\A p : Tried(23, p) => Tried(22, p) \/ p = HostConfFile) /\ Tried(41, HostConfFile)
    BY DEF Tried
  <2>4. HostConfFile = Then(EtcDir, "host.conf") /\ k + 1 = 23
    BY <1>9 DEF HostConfFile
  <2>5. Removes(k, call, EtcDir, HostConfFile)
    BY <1>9, <2>1, <2>2, <2>3, <2>4 DEF Removes, Words
  <2>6. QED
    BY <2>5, Paths
<1>10. CASE k = 28
  <2>1. call.in = "http" /\ call.var = "node"
    BY <1>1, <1>10, DelFsText, CallFields
  <2>2. /\ Knows(28, "http", HttpdDir) /\ Knows(28, "node", ConfFile)
        /\ \A v, p : Knows(29, v, p) => Knows(28, v, p)
    BY DEF Knows
  <2>3. (\A p : Tried(29, p) => Tried(28, p) \/ p = ConfFile) /\ Tried(41, ConfFile)
    BY DEF Tried
  <2>4. ConfFile = Then(HttpdDir, "conf") /\ k + 1 = 29
    BY <1>10 DEF ConfFile
  <2>5. Removes(k, call, HttpdDir, ConfFile)
    BY <1>10, <2>1, <2>2, <2>3, <2>4 DEF Removes, Words
  <2>6. QED
    BY <2>5, Paths
<1>11. CASE k = 38
  <2>1. call.in = "dl" /\ call.var = "node"
    BY <1>1, <1>11, DelFsText, CallFields
  <2>2. /\ Knows(38, "dl", DownloadDir) /\ Knows(38, "node", Oblig2File)
        /\ \A v, p : Knows(39, v, p) => Knows(38, v, p)
    BY DEF Knows
  <2>3. (\A p : Tried(39, p) => Tried(38, p) \/ p = Oblig2File) /\ Tried(41, Oblig2File)
    BY DEF Tried
  <2>4. Oblig2File = Then(DownloadDir, "oblig2") /\ k + 1 = 39
    BY <1>11 DEF Oblig2File
  <2>5. Removes(k, call, DownloadDir, Oblig2File)
    BY <1>11, <2>1, <2>2, <2>3, <2>4 DEF Removes, Words
  <2>6. QED
    BY <2>5, Paths
<1>12. CASE k \in Searches
  BY <1>1, <1>2, <1>12, DelFsOps
<1>13. CASE k \in DirCalls
  BY <1>1, <1>2, <1>13, DelFsOps
<1>14. CASE k = 41
  BY <1>1, <1>2, <1>14, DelFsOps
<1>15. QED
  BY <1>3, <1>4, <1>5, <1>6, <1>7, <1>8, <1>9, <1>10, <1>11, <1>12, <1>13, <1>14
     DEF FileCalls, DirCalls, Searches

\* No call of del_fs to delete_dir tries a file.
LEMMA DelFsPasses ==
    ASSUME NEW k \in 1 .. 41, DelFs[k].op = "delete_dir"
    PROVE  Passes(k)
<1>1. k \in DirCalls
  <2>1. CASE k \in FileCalls
    BY <2>1, DelFsOps
  <2>2. CASE k \in Searches
    BY <2>2, DelFsOps
  <2>3. CASE k = 41
    BY <2>3, DelFsOps
  <2>4. QED
    BY <2>1, <2>2, <2>3 DEF FileCalls, DirCalls, Searches
<1>2. CASE k = 5
  BY <1>2 DEF Passes, Knows, Tried
<1>3. CASE k = 12
  BY <1>3 DEF Passes, Knows, Tried
<1>4. CASE k = 25
  BY <1>4 DEF Passes, Knows, Tried
<1>5. CASE k = 29
  BY <1>5 DEF Passes, Knows, Tried
<1>6. CASE k = 32
  BY <1>6 DEF Passes, Knows, Tried
<1>7. CASE k = 35
  BY <1>7 DEF Passes, Knows, Tried
<1>8. CASE k = 39
  BY <1>8 DEF Passes, Knows, Tried
<1>9. CASE k = 40
  BY <1>9 DEF Passes, Knows, Tried
<1>10. QED
  BY <1>1, <1>2, <1>3, <1>4, <1>5, <1>6, <1>7, <1>8, <1>9 DEF DirCalls

-------------------------------------------------------------------------------
(* The rerun: which blocks may still disagree *)

\* The blocks of the inode p on the heap h.
BlocksIn(h, p) == {h[p].blocks[i] : i \in DOMAIN h[p].blocks}

\* A directory has none.
FilesHold(h) == \A p \in DOMAIN h : h[p].is_directory => BlocksIn(h, p) = {}

\* q is at the path of a file that del_fs tries to delete.
Listed(h, r, q) == \E path : Tried(41, path) /\ Leads(h, r, path, q)

\* Nobody but such files has b.
OnlyListed(h, r, b) == \A p \in DOMAIN h : b \in BlocksIn(h, p) => Listed(h, r, p)

\* Nobody has b.
Unheld(h, b) == \A p \in DOMAIN h : b \notin BlocksIn(h, p)

\* p is what is at the path.
AtPath(path, p) == \A q \in DOMAIN inode : Leads(inode, root, path, q) <=> q = p

\* What del_fs knows of its variables.
Knowing ==
    \A v, path : Knows(at, v, path) => v \in DOMAIN local /\ AtPath(path, local[v])

\* No file is at the path, but for the one that is being deleted.
NoFileAt(path) ==
    \A q \in DOMAIN inode :
       Leads(inode, root, path, q) /\ ~inode[q].is_directory => pc = "freeing" /\ child = q

\* The files that del_fs has tried to delete are gone.
Clearing == \A path : Tried(at, path) => NoFileAt(path)

\* Every inode has the blocks of an inode on disk, and if it is one that del_fs
\* tries to delete, so is that on disk.
Partial ==
    \A q \in DOMAIN inode : \E s \in DOMAIN saved.inode :
       /\ inode[q].blocks = saved.inode[s].blocks
       /\ Listed(inode, root, q) => Listed(saved.inode, saved.root, s)

\* The blocks on which the two files might differ are unmarked, and nobody has
\* them.
Repaired == \A b \in unsaved : bat[b] = 0 /\ Unheld(saved.inode, b)

\* Directories have no blocks, in memory and on disk.
FilesInv ==
    /\ InMemory => FilesHold(inode)
    /\ mft # <<>> => FilesHold(saved.inode)

\* On a disk that was made by a program that ended, the table is behind the
\* tree at most on blocks that have been freed, of files that del_fs tries to
\* delete, if there is a table at all.
MadeInv ==
    made # {} /\ phase # "saving" =>
       /\ mft # <<>> /\ saved.inode[saved.root].is_directory
       /\ bat = EmptyFile
             \/ \A b \in unsaved : bat[b] = 0 /\ OnlyListed(saved.inode, saved.root, b)

\* A program that makes a disk leaves nothing to repair.
CreatedInv ==
    prog \in Creators =>
       /\ made = {} /\ (InMemory => suspect = {})
       /\ phase = "running" /\ ~dirty =>
             mft # <<>> /\ unsaved = {} /\ saved.inode[saved.root].is_directory

\* What del_fs does for such a disk.
Rerun ==
    /\ root # NULL /\ inode[root].is_directory
    /\ \A b \in suspect : bat[b] = 0 /\ OnlyListed(inode, root, b)
    /\ Knowing /\ Clearing
    /\ pc = "freeing" /\ ~inode[child].is_directory => Listed(inode, root, child)
    /\ phase = "running" => IF at <= 41 THEN Partial ELSE Repaired

RerunInv == made # {} /\ prog = "del_fs" /\ InMemory /\ bat # EmptyFile => Rerun

\* And what it leaves.
RepairedInv == made # {} /\ ended = "del_fs" /\ prog = "none" => Repaired

RepairInv == FilesInv /\ MadeInv /\ CreatedInv /\ RerunInv /\ RepairedInv

\* Nothing is below a path that leads to nothing.
LEMMA NothingBelow ==
    ASSUME NEW h, NEW r, NEW path \in Seq(Words), \A q \in DOMAIN h : ~Leads(h, r, path, q),
           NEW p, AtOrBelow(p, path)
    PROVE  \A q \in DOMAIN h : ~Leads(h, r, p, q)
<1>1. ASSUME NEW top \in Seq(Words), \A q \in DOMAIN h : ~Leads(h, r, top, q),
             NEW low, Below1(low, top)
      PROVE  low \in Seq(Words) /\ \A q \in DOMAIN h : ~Leads(h, r, low, q)
  <2>1. PICK x \in Words : low = Then(top, x)
    BY <1>1 DEF Below1
  <2>2. low \in Seq(Words)
    BY <2>1, LongerPath
  <2>3. \A q \in DOMAIN h : ~Leads(h, r, Then(top, x), q)
    BY <1>1, LeadsOn
  <2>4. QED
    BY <2>1, <2>2, <2>3
<1>2. ASSUME NEW low, Below2(low, path)
      PROVE  low \in Seq(Words) /\ \A q \in DOMAIN h : ~Leads(h, r, low, q)
  <2>1. PICK t \in Seq(Words) : Below1(t, path) /\ Below1(low, t)
    BY <1>2 DEF Below2
  <2>2. \A q \in DOMAIN h : ~Leads(h, r, t, q)
    BY <1>1, <2>1
  <2>3. QED
    BY <1>1, <2>1, <2>2
<1>3. CASE Below3(p, path)
  <2>1. PICK t \in Seq(Words) : Below2(t, path) /\ Below1(p, t)
    BY <1>3 DEF Below3
  <2>2. \A q \in DOMAIN h : ~Leads(h, r, t, q)
    BY <1>2, <2>1
  <2>3. QED
    BY <1>1, <2>1, <2>2
<1>4. CASE Below1(p, path)
  BY <1>1, <1>4
<1>5. CASE Below2(p, path)
  BY <1>2, <1>5
<1>6. QED
  BY <1>3, <1>4, <1>5 DEF AtOrBelow

\* A copy has the blocks of what it is a copy of.
LEMMA CopyHolds ==
    ASSUME NEW h, NEW g, NEW m, CopiedTo(h, g, m), FilesHold(h)
    PROVE  FilesHold(g)
<1> SUFFICES ASSUME NEW t \in DOMAIN g, g[t].is_directory PROVE BlocksIn(g, t) = {}
    BY DEF FilesHold
<1>1. PICK p \in DOMAIN h : m[p] = t
  BY DEF CopiedTo
<1>2. h[p].is_directory /\ BlocksIn(g, t) = BlocksIn(h, p)
  BY <1>1 DEF CopiedTo, BlocksIn
<1>3. QED
  BY <1>2 DEF FilesHold

\* And the same files at the paths.
LEMMA CopyListed ==
    ASSUME NEW h, NEW r \in DOMAIN h, NEW g, NEW m, CopiedTo(h, g, m), NEW q \in DOMAIN h
    PROVE  Listed(g, m[r], m[q]) <=> Listed(h, r, q)
<1>1. ASSUME NEW path, Tried(41, path)
      PROVE  Leads(g, m[r], path, m[q]) <=> Leads(h, r, path, q)
  <2>1. path \in Seq(Words)
    BY <1>1, ArePaths
  <2>2. QED
    BY <2>1, LeadsToCopy
<1>2. QED
  BY <1>1 DEF Listed

\* The tree that has been loaded is a copy of the saved one.
LEMMA LoadCopies ==
    ASSUME ProgramsInv, LoadClose, DiskInv'
    PROVE  /\ mft # <<>> /\ saved.root \in DOMAIN saved.inode
           /\ root' \in DOMAIN inode' /\ root' # NULL
           /\ \E m : CopiedTo(saved.inode, inode', m) /\ m[saved.root] = root'
<1>1. /\ phase = "loading" /\ phase' = "running" /\ UNCHANGED <<mft, saved, dirty>> /\ ~dirty
  BY DEF LoadClose, disk, ProgramsInv, DiskInv, LoadInv, AtRest
<1>2. PICK T : Complete(saved.inode, saved.root, T, mft)
  BY <1>1 DEF ProgramsInv, DiskInv, LoadInv
<1>3. PICK h, r : h = saved.inode /\ r = saved.root
  OBVIOUS
<1>4. r \in DOMAIN h /\ mft # <<>>
  BY <1>2, <1>3, FirstRecord DEF Complete
<1>5. PICK m \in Bijections(DOMAIN h, DOMAIN inode') : IsCopy(m)'
  BY <1>1, <1>3, <1>4 DEF DiskInv, LoadRestoresTree
<1>6. /\ m \in [DOMAIN h -> DOMAIN inode'] /\ \A t \in DOMAIN inode' : \E s \in DOMAIN h : m[s] = t
      /\ \A p, q \in DOMAIN h : m[p] = m[q] => p = q
  BY <1>5 DEF Bijections
<1>7. m[r] = root'
  BY <1>1, <1>3, <1>5 DEF IsCopy
<1>8. GoodTree(h, r)
  BY <1>2, <1>3 DEF Complete, Written
<1>9. ASSUME NEW s \in DOMAIN h
      PROVE  /\ Kids(h, s) \subseteq DOMAIN h
             /\ inode'[m[s]].name = h[s].name /\ inode'[m[s]].blocks = h[s].blocks
             /\ inode'[m[s]].is_directory = h[s].is_directory
             /\ Kids(inode', m[s]) = {m[q] : q \in Kids(h, s)}
  <2>1. /\ inode'[m[s]].name = h[s].name /\ inode'[m[s]].blocks = h[s].blocks
        /\ inode'[m[s]].is_directory = h[s].is_directory
        /\ inode'[m[s]].children = [i \in DOMAIN h[s].children |-> m[h[s].children[i]]]
    BY <1>1, <1>3, <1>5 DEF IsCopy
  <2>2. Kids(h, s) \subseteq DOMAIN h
    BY <1>8, GoodRecord
  <2>3. Kids(inode', m[s]) = {m[q] : q \in Kids(h, s)}
    BY <2>1 DEF Kids
  <2>4. QED
    BY <2>1, <2>2, <2>3
<1>10. CopiedTo(h, inode', m)
  BY <1>6, <1>9 DEF CopiedTo
<1>11. root' \in DOMAIN inode'
  BY <1>4, <1>6, <1>7
<1>12. root' # NULL
  BY <1>1, <1>11, DirectoryIsNotNull, InodeAssumption DEF DiskInv, RunInv, IInv, TypeOK
<1>13. QED
  BY <1>3, <1>4, <1>7, <1>10, <1>11, <1>12

\* An inode that is new has no blocks; one that was there keeps what it has.
Holding(h, q) ==
    /\ q \in DOMAIN h
    /\ inode'[q].is_directory = h[q].is_directory /\ inode'[q].blocks = h[q].blocks

\* A step keeps the directories free of blocks if it keeps or adds them so.
LEMMA StillHolds ==
    ASSUME FilesHold(inode),
           \A q \in DOMAIN inode' :
              inode'[q].is_directory => inode'[q].blocks = <<>> \/ Holding(inode, q)
    PROVE  FilesHold(inode')
<1> SUFFICES ASSUME NEW q \in DOMAIN inode', inode'[q].is_directory
             PROVE  BlocksIn(inode', q) = {}
    BY DEF FilesHold
<1>1. CASE inode'[q].blocks = <<>>
  BY <1>1 DEF BlocksIn
<1>2. CASE Holding(inode, q)
  BY <1>2 DEF Holding, FilesHold, BlocksIn
<1>3. QED
  BY <1>1, <1>2

\* No call gives a block to a directory.
LEMMA NextHolds ==
    ASSUME IInv, RunTree, FilesHold(inode), Next
    PROVE  FilesHold(inode')
<1>0. num_inode_ids \in Nat /\ RootName \in Names
  BY InodeAssumption DEF IInv, TypeOK
<1>1. CASE CreateRoot
  <2>1. PICK new \in Ptr \ DOMAIN inode :
              inode' = With(new, NewDirectory(num_inode_ids, RootName))
    BY <1>1 DEF CreateRoot
  <2>2. PICK record : record = NewDirectory(num_inode_ids, RootName)
    OBVIOUS
  <2>3. record \in InodeRecord /\ record.children = <<>> /\ record.blocks = <<>>
    BY <1>0, <2>2, NewFields
  <2>4. /\ DOMAIN inode' = DOMAIN inode \cup {new} /\ inode'[new] = record
        /\ \A q \in DOMAIN inode : Same(q)
    BY <2>1, <2>2, <2>3, LeafEffect
  <2>5. QED
    BY <2>3, <2>4, StillHolds DEF Same, Kept, Holding
<1>2. ASSUME NEW p \in Directories, NEW name \in Names, CreateDir(p, name)
      PROVE  FilesHold(inode')
  <2>1. PICK new \in Ptr \ DOMAIN inode :
              AddInodeToParent(p, new, NewDirectory(num_inode_ids, name))
    BY <1>2 DEF CreateDir
  <2>2. PICK record : record = NewDirectory(num_inode_ids, name)
    OBVIOUS
  <2>3. record \in InodeRecord /\ record.children = <<>> /\ record.blocks = <<>>
    BY <1>0, <2>2, NewFields
  <2>4. p \in DOMAIN inode /\ new # p
    BY DEF Directories
  <2>5. /\ DOMAIN inode' = DOMAIN inode \cup {new} /\ inode'[new] = record /\ Kept(p)
        /\ \A q \in DOMAIN inode \ {p, new} : Same(q)
    BY <2>1, <2>2, <2>3, <2>4, ChildEffect
  <2>6. QED
    BY <2>3, <2>5, StillHolds DEF Same, Kept, Holding
<1>3. ASSUME NEW p \in Directories, NEW name \in Names, NEW size \in Sizes,
             CreateFile(p, name, size)
      PROVE  FilesHold(inode')
  <2>1. PICK new \in Ptr \ DOMAIN inode : inode' = With(new, NewFile(num_inode_ids, name, size))
    BY <1>3 DEF CreateFile
  <2>2. PICK record : record = NewFile(num_inode_ids, name, size)
    OBVIOUS
  <2>3. record \in InodeRecord /\ record.children = <<>> /\ record.blocks = <<>>
    BY <1>0, <2>2, NewFields
  <2>4. /\ DOMAIN inode' = DOMAIN inode \cup {new} /\ inode'[new] = record
        /\ \A q \in DOMAIN inode : Same(q)
    BY <2>1, <2>2, <2>3, LeafEffect
  <2>5. QED
    BY <2>3, <2>4, StillHolds DEF Same, Kept, Holding
<1>4. CASE Delete \/ AllocateFails \/ FreeBlock
  <2>1. inode' = inode
    BY <1>4 DEF Delete, DeleteFile, DeleteDir, PickToDelete, AllocateFails, FreeBlock
  <2>2. QED
    BY <2>1
<1>5. CASE AllocateBlock
  <2>1. PICK c : c = child
    OBVIOUS
  <2>2. PICK b \in Blocks : inode' = [inode EXCEPT ![c].blocks = Append(@, b)]
    BY <1>5, <2>1 DEF AllocateBlock
  <2>3. c \in DOMAIN inode /\ ~inode[c].is_directory
    BY <1>5, <2>1 DEF AllocateBlock, RunTree, CreatedFile, IInv, TypeOK
  <2>4. /\ DOMAIN inode' = DOMAIN inode /\ inode'[c].is_directory = inode[c].is_directory
        /\ \A q \in DOMAIN inode \ {c} : Same(q)
    BY <2>2, <2>3, BlockEffect
  <2>5. QED
    BY <2>3, <2>4, StillHolds DEF Same, Kept, Holding
<1>6. CASE RollBackDone \/ LinkFails
  <2>1. inode' = Without(child)
    BY <1>6 DEF RollBackDone, LinkFails
  <2>2. DOMAIN inode' = DOMAIN inode \ {child} /\ \A q \in DOMAIN inode' : Same(q)
    BY <2>1, DropEffect
  <2>3. QED
    BY <2>2, StillHolds DEF Same, Kept, Holding
<1>7. CASE LinkFile
  <2>1. PICK c, p : c = child /\ p = parent
    OBVIOUS
  <2>2. AddInodeToParent(p, c, inode[c])
    BY <1>7, <2>1 DEF LinkFile
  <2>3. /\ c \in DOMAIN inode /\ p \in DOMAIN inode /\ c # p /\ inode[c].children = <<>>
    BY <1>7, <2>1, CallHasTree DEF LinkFile, RunTree, CreatedFile
  <2>4. c \in Ptr \ {p} /\ inode[c] \in InodeRecord
    BY <2>3, RecordFields
  <2>5. /\ DOMAIN inode' = DOMAIN inode \cup {c} /\ inode'[c] = inode[c] /\ Kept(p)
        /\ \A q \in DOMAIN inode \ {p, c} : Same(q)
    BY <2>2, <2>3, <2>4, ChildEffect
  <2>6. QED
    BY <2>3, <2>5, StillHolds DEF Same, Kept, Holding
<1>8. CASE Unlink
  <2>1. /\ DOMAIN inode' = DOMAIN inode \ {child}
        /\ \A q \in DOMAIN inode' : Kept(q)
    BY <1>8, UnlinkEffect
  <2>2. QED
    BY <2>1, StillHolds DEF Kept, Holding
<1>9. QED
  BY <1>1, <1>2, <1>3, <1>4, <1>5, <1>6, <1>7, <1>8 DEF Next, Create, Internal

\* What the calls of the programs leave alone, when realloc does not fail.
LEMMA CallKeeps ==
    ASSUME ProgramsInv, FilesInv, Call
    PROVE  /\ UNCHANGED <<suspect, mft, phase, saved>> /\ dirty' = TRUE /\ phase = "running"
           /\ FilesInv'
<1>1. /\ phase = "running" /\ UNCHANGED <<mft, phase, saved>> /\ dirty' = TRUE /\ Next
  BY DEF Call, Perform
<1>2. IInv /\ RunTree /\ InMemory
  BY <1>1, RunningTree DEF ProgramsInv, InMemory
<1>3. FilesHold(inode')
  BY <1>1, <1>2, NextHolds DEF FilesInv
<1>4. suspect' = suspect
  BY <1>1, ProgramsAssumption DEF Next, Create, CreateRoot, CreateDir, CreateFile, Delete,
     DeleteFile, DeleteDir, PickToDelete, Internal, AllocateBlock, AllocateFails, FreeBlock,
     RollBackDone, LinkFile, LinkFails, Unlink
<1>5. QED
  BY <1>1, <1>3, <1>4 DEF FilesInv

\* A call of a program that makes a disk.
LEMMA CreatorRepair ==
    ASSUME ProgramsInv, RepairInv, prog \in Creators, Call, UNCHANGED <<prog, made>>
    PROVE  RepairInv'
<1>1. UNCHANGED <<suspect, phase>> /\ dirty' /\ FilesInv' /\ phase = "running"
  BY CallKeeps DEF RepairInv
<1>2. made = {} /\ made' = {} /\ suspect = {}
  BY <1>1 DEF RepairInv, CreatedInv, InMemory
<1>3. QED
  BY <1>1, <1>2 DEF RepairInv, MadeInv, CreatedInv, RerunInv, RepairedInv

-------------------------------------------------------------------------------
(* The rerun: programs begin, load, save and end *)

\* There is no disk at first.
LEMMA InitRepair == ProgramsInit => RepairInv
<1> SUFFICES ASSUME ProgramsInit PROVE RepairInv
    OBVIOUS
<1>1. made = {} /\ mft = <<>> /\ phase = "down" /\ prog = "none"
  BY DEF ProgramsInit, DiskInit, NoProcess
<1>2. prog \notin Creators
  BY <1>1 DEF Creators
<1>3. QED
  BY <1>1, <1>2 DEF RepairInv, FilesInv, MadeInv, CreatedInv, RerunInv, RepairedInv, InMemory

\* A step that changes none of what the invariant speaks of.
LEMMA SameRepair ==
    ASSUME RepairInv, UNCHANGED programVars
    PROVE  RepairInv'
<1>1. UNCHANGED <<bat, inode, root, pc, child, suspect, mft, phase, dirty, unsaved, saved>>
  BY DEF programVars, allVars, vars
<1>2. UNCHANGED <<prog, at, local, made, ended>>
  BY DEF programVars, progVars
<1>3. Knowing => Knowing'
  BY <1>1, <1>2 DEF Knowing, AtPath
<1>4. Clearing => Clearing'
  BY <1>1, <1>2 DEF Clearing, NoFileAt
<1>5. Rerun => Rerun'
  BY <1>1, <1>2, <1>3, <1>4 DEF Rerun, Partial, Repaired
<1>6. QED
  BY <1>1, <1>2, <1>5 DEF RepairInv, FilesInv, MadeInv, CreatedInv, RerunInv, RepairedInv,
                          InMemory, Repaired

\* A step that leaves the disk alone, of a program that has not got its tree.
LEMMA NothingInMemory ==
    ASSUME RepairInv, UNCHANGED <<bat, mft, unsaved, saved, made>>, phase # "saving",
           phase' \in {"down", "loading"}, prog' \notin Creators,
           made # {} /\ ended' = "del_fs" /\ prog' = "none" => Repaired
    PROVE  RepairInv'
<1>1. ~InMemory' /\ phase' # "saving"
  BY DEF InMemory
<1>2. Repaired => Repaired'
  BY DEF Repaired
<1>3. QED
  BY <1>1, <1>2 DEF RepairInv, FilesInv, MadeInv, CreatedInv, RerunInv, RepairedInv

\* A program begins.
LEMMA StartRepair ==
    ASSUME ProgramsInv, RepairInv, NEW p \in Creators \cup Loaders, Start(p)
    PROVE  RepairInv'
<1>1. /\ prog' = p /\ p # "none" /\ phase = "down" /\ inode = NoInodes
      /\ made' = IF p \in Creators THEN {} ELSE made
  BY AtStart DEF Start, StartCreate, LoadOpen, LoadEmpty, Creators, Loaders
<1>2. FilesHold(NoInodes)
  BY DEF FilesHold, NoInodes
<1>3. CASE p \in Creators /\ StartCreate
  <2>1. made' = {} /\ UNCHANGED <<mft, saved>> /\ phase' = "formatting"
    BY <1>1, <1>3 DEF StartCreate
  <2>2. QED
    BY <1>1, <2>1
       DEF RepairInv, FilesInv, MadeInv, CreatedInv, RerunInv, RepairedInv, InMemory
<1>4. CASE p \in Loaders /\ LoadOpen
  <2>1. p \notin Creators /\ UNCHANGED <<bat, mft, unsaved, saved, made>> /\ phase' = "loading"
    BY <1>1, <1>4 DEF LoadOpen, disk, Creators, Loaders
  <2>2. QED
    BY <1>1, <2>1, NothingInMemory
<1>5. CASE p \in Loaders /\ LoadEmpty
  <2>1. /\ p \notin Creators /\ mft = <<>> /\ mft' = <<>> /\ made' = made
        /\ \/ inode' = inode
           \/ \E new \in Ptr, name \in Names : inode' = With(new, Unread(name))
    BY <1>1, <1>5 DEF LoadEmpty, disk, Creators, Loaders
  <2>2. made = {}
    BY <1>1, <2>1 DEF RepairInv, MadeInv
  <2>3. FilesHold(inode')
    <3>1. CASE inode' = inode
      BY <1>1, <1>2, <3>1
    <3>2. ASSUME NEW new \in Ptr, NEW name \in Names, inode' = With(new, Unread(name))
          PROVE  FilesHold(inode')
      <4>1. DOMAIN inode' = {new} /\ inode'[new] = Unread(name)
        BY <1>1, <3>2 DEF With, NoInodes
      <4>2. ~Unread(name).is_directory
        BY DEF Unread, NewFile
      <4>3. QED
        BY <4>1, <4>2 DEF FilesHold
    <3>3. QED
      BY <2>1, <3>1, <3>2
  <2>4. QED
    BY <1>1, <2>1, <2>2, <2>3
       DEF RepairInv, FilesInv, MadeInv, CreatedInv, RerunInv, RepairedInv
<1>6. QED
  BY <1>3, <1>4, <1>5 DEF Start

\* A disk is formatted, on which there is nothing to repair.
LEMMA FormatRepair ==
    ASSUME ProgramsInv, RepairInv, FormatDisk
    PROVE  RepairInv'
<1>1. /\ phase = "formatting" /\ phase' = "running" /\ suspect' = {} /\ dirty'
      /\ UNCHANGED <<inode, mft, saved, prog, made>>
  BY DEF FormatDisk, Format, memory, progVars
<1>2. prog \in Creators /\ prog # "none"
  BY <1>1 DEF ProgramsInv, ProgInv, Life, Creators
<1>3. made = {} /\ FilesHold(inode)
  <2>1. inode = NoInodes
    BY <1>1 DEF ProgramsInv, DiskInv, DownInv
  <2>2. QED
    BY <1>2, <2>1 DEF RepairInv, CreatedInv, FilesHold, NoInodes
<1>4. QED
  BY <1>1, <1>2, <1>3 DEF RepairInv, FilesInv, MadeInv, CreatedInv, RerunInv, RepairedInv

\* del_fs has loaded: it knows the root, and nothing has been tried.
LEMMA LoadCloseRerun ==
    ASSUME ProgramsInv, RepairInv, LoadClose, DiskInv', made # {}, bat # EmptyFile,
           UNCHANGED at, local' = Set("root", root)
    PROVE  Rerun'
<1>1. /\ phase = "loading" /\ phase' = "running" /\ suspect' = unsaved /\ pc' = pc
      /\ UNCHANGED <<bat, inode, root, saved>>
  BY DEF LoadClose, memory, disk
<1>2. PICK h, r : h = saved.inode /\ r = saved.root
  OBVIOUS
<1>3. PICK m : CopiedTo(h, inode', m) /\ m[r] = root'
  BY <1>2, LoadCopies
<1>4. mft # <<>> /\ r \in DOMAIN h /\ root' \in DOMAIN inode' /\ root' # NULL
  BY <1>2, LoadCopies
<1>5. h[r].is_directory /\ \A b \in unsaved : bat[b] = 0 /\ OnlyListed(h, r, b)
  BY <1>1, <1>2 DEF RepairInv, MadeInv
<1>6. at = 1 /\ pc' = "idle"
  BY <1>1 DEF ProgramsInv, ProgInv, Life, DiskInv, LoadInv, AtRest
<1>7. inode'[root'].is_directory
  BY <1>3, <1>4, <1>5 DEF CopiedTo
<1>8. \A t \in DOMAIN inode' : \E s \in DOMAIN h :
         m[s] = t /\ inode'[t].blocks = h[s].blocks /\ (Listed(inode', root', t) <=> Listed(h, r, s))
  <2> SUFFICES ASSUME NEW t \in DOMAIN inode'
               PROVE  \E s \in DOMAIN h : /\ m[s] = t /\ inode'[t].blocks = h[s].blocks
                                          /\ Listed(inode', root', t) <=> Listed(h, r, s)
      OBVIOUS
  <2>1. PICK s \in DOMAIN h : m[s] = t
    BY <1>3 DEF CopiedTo
  <2>2. inode'[t].blocks = h[s].blocks
    BY <1>3, <2>1 DEF CopiedTo
  <2>3. Listed(inode', root', t) <=> Listed(h, r, s)
    BY <1>3, <1>4, <2>1, CopyListed
  <2>4. QED
    BY <2>1, <2>2, <2>3
<1>9. ASSUME NEW b, OnlyListed(h, r, b) PROVE OnlyListed(inode', root', b)
  <2> SUFFICES ASSUME NEW t \in DOMAIN inode', b \in BlocksIn(inode', t)
               PROVE  Listed(inode', root', t)
      BY DEF OnlyListed
  <2>1. PICK s \in DOMAIN h :
              inode'[t].blocks = h[s].blocks /\ (Listed(inode', root', t) <=> Listed(h, r, s))
    BY <1>8
  <2>2. b \in BlocksIn(h, s)
    BY <2>1 DEF BlocksIn
  <2>3. QED
    BY <1>9, <2>1, <2>2 DEF OnlyListed
<1>10. Knowing'
  <2> SUFFICES ASSUME NEW v, NEW path, Knows(at, v, path)
               PROVE  /\ v \in DOMAIN local'
                      /\ \A q \in DOMAIN inode' : Leads(inode', root', path, q) <=> q = local'[v]
      BY DEF Knowing, AtPath
  <2>1. v = "root" /\ path = Top
    BY <1>6 DEF Knows
  <2>2. v \in DOMAIN local' /\ local'[v] = root'
    BY <1>1, <2>1, SetEffect
  <2>3. \A q : Leads(inode', root', path, q) <=> q = root'
    BY <1>4, <2>1, LeadsToRoot DEF Top
  <2>4. QED
    BY <2>2, <2>3
<1>11. Clearing'
  BY <1>6 DEF Clearing, Tried
<1>12. Partial'
  <2> SUFFICES ASSUME NEW q \in DOMAIN inode'
               PROVE  \E s \in DOMAIN h : /\ inode'[q].blocks = h[s].blocks
                                          /\ Listed(inode', root', q) => Listed(h, r, s)
      BY <1>1, <1>2 DEF Partial
  <2>1. QED
    BY <1>8
<1>13. \A b \in suspect' : bat'[b] = 0 /\ OnlyListed(inode', root', b)
  BY <1>1, <1>5, <1>9
<1>14. QED
  BY <1>4, <1>6, <1>7, <1>10, <1>11, <1>12, <1>13 DEF Rerun

\* A program loads.
LEMMA LoadRepair ==
    ASSUME ProgramsInv, RepairInv, Load, DiskInv'
    PROVE  RepairInv'
<1>1. /\ phase = "loading" /\ prog \in Loaders /\ prog \notin Creators /\ prog # "none"
      /\ UNCHANGED <<bat, mft, unsaved, saved, prog, at, made>>
  BY DEF ProgramsInv, ProgInv, Life, Load, LoadInode, LoadClose, disk, progVars, Creators, Loaders
<1>2. CASE LoadInode
  <2>1. phase' = "loading"
    BY <1>1, <1>2 DEF LoadInode
  <2>2. QED
    BY <1>1, <2>1, NothingInMemory
<1>3. CASE LoadClose /\ local' = Set("root", root)
  <2>1. made # {} /\ bat # EmptyFile => Rerun'
    BY <1>1, <1>3, LoadCloseRerun
  <2>2. FilesHold(inode')
    <3>1. PICK m : CopiedTo(saved.inode, inode', m)
      BY <1>3, LoadCopies
    <3>2. FilesHold(saved.inode)
      BY <1>3, LoadCopies DEF RepairInv, FilesInv
    <3>3. QED
      BY <3>1, <3>2, CopyHolds
  <2>3. QED
    BY <1>1, <2>1, <2>2 DEF RepairInv, FilesInv, MadeInv, CreatedInv, RerunInv, RepairedInv
<1>4. QED
  BY <1>2, <1>3 DEF Load

\* del_fs begins to save.
LEMMA SaveOpenRerun ==
    ASSUME Rerun, at = 41, at' = 42, phase' = "saving", pc = "idle",
           UNCHANGED <<bat, inode, root, pc, child, suspect, local>>
    PROVE  Rerun'
<1>1. \A v, path : Knows(42, v, path) => Knows(41, v, path)
  BY DEF Knows
<1>2. Knowing'
  BY <1>1 DEF Rerun, Knowing, AtPath
<1>3. \A path : Tried(42, path) => Tried(41, path)
  BY DEF Tried
<1>4. Clearing'
  BY <1>3 DEF Rerun, Clearing, NoFileAt
<1>5. QED
  BY <1>2, <1>4 DEF Rerun

\* When del_fs has tried all files, nobody has a block that is suspect.
LEMMA NobodyHolds ==
    ASSUME Rerun, FilesHold(inode), at = 42, pc = "idle", NEW b \in suspect
    PROVE  bat[b] = 0 /\ Unheld(inode, b) /\ OnlyListed(inode, root, b)
<1>1. bat[b] = 0 /\ OnlyListed(inode, root, b)
  BY DEF Rerun
<1>2. ASSUME NEW p \in DOMAIN inode, b \in BlocksIn(inode, p) PROVE FALSE
  <2>1. PICK path : Tried(41, path) /\ Leads(inode, root, path, p)
    BY <1>1, <1>2 DEF OnlyListed, Listed
  <2>2. Tried(at, path)
    BY <2>1 DEF Tried
  <2>3. ~inode[p].is_directory
    BY <1>2 DEF FilesHold
  <2>4. QED
    BY <2>1, <2>2, <2>3 DEF Rerun, Clearing, NoFileAt
<1>3. QED
  BY <1>1, <1>2 DEF Unheld

\* The end of a save.
LEMMA SaveCloseRepair ==
    ASSUME ProgramsInv, TableInv, RepairInv, SaveClose, UNCHANGED progVars
    PROVE  RepairInv'
<1>1. /\ phase = "saving" /\ phase' = "running" /\ mft' = stream /\ unsaved' = suspect
      /\ saved' = [inode |-> inode, root |-> root] /\ todo = <<>>
      /\ UNCHANGED <<bat, inode, root, pc, child, suspect>>
      /\ UNCHANGED <<prog, at, local, made>>
  BY DEF SaveClose, memory, progVars
<1>2. saved'.inode = inode /\ saved'.root = root
  BY <1>1
<1>3. InMemory /\ InMemory' /\ FilesHold(inode)
  BY <1>1 DEF InMemory, RepairInv, FilesInv
<1>4. /\ prog \in Creators \cup {"del_fs"} /\ prog # "none" /\ at = Len(Text(prog)) + 1
  BY <1>1 DEF ProgramsInv, ProgInv, Life, Creators, Loaders
<1>5. pc = "idle" /\ root # NULL /\ stream # <<>>
  <2>1. PICK T : Written(inode, root, T, stream) /\ T[Len(stream)] = todo
    BY <1>1 DEF ProgramsInv, DiskInv, SaveInv
  <2>2. stream # <<>>
    BY <1>1, <2>1, FirstRecord
  <2>3. QED
    BY <1>1, <2>2 DEF ProgramsInv, DiskInv, SaveInv
<1>6. FilesInv'
  BY <1>1, <1>2, <1>3 DEF FilesInv
<1>7. CASE prog \in Creators
  <2>1. made = {} /\ suspect = {}
    BY <1>3, <1>7 DEF RepairInv, CreatedInv
  <2>2. inode[root].is_directory
    <3>1. Len(Text(prog)) \in 13 .. 15
      BY <1>7, Texts
    <3>2. PICK n \in 13 .. 15 : n = Len(Text(prog))
      BY <3>1
    <3>3. 1 \in 1 .. n /\ at = n + 1
      BY <1>4, <3>2
    <3>4. PICK t : t = Text(prog)
      OBVIOUS
    <3>5. 1 \in 1 .. Len(t)
      BY <3>2, <3>3, <3>4
    <3>6. WellMade(prog, t, 1)
      BY <1>7, <3>4, <3>5, Texts
    <3>7. t[1].op = "create_dir"
      BY <3>6 DEF WellMade
    <3>8. 1 \in 1 .. at - 1
      BY <3>2, <3>3
    <3>9. local[t[1].var] \in Directories
      BY <1>7, <3>4, <3>7, <3>8 DEF ProgramsInv, ProgInv, CreatorInv, PlacesMade
    <3>10. GoodTree(inode, root)
      BY <1>3, <1>5, RunningTree DEF ProgramsInv
    <3>11. QED
      BY <3>9, <3>10, LoneFile DEF Directories
  <2>3. QED
    BY <1>1, <1>2, <1>4, <1>5, <1>6, <1>7, <2>1, <2>2
       DEF RepairInv, MadeInv, CreatedInv, RerunInv, RepairedInv
<1>8. CASE prog = "del_fs"
  <2>1. at = 42
    <3>1. Len(Text(prog)) = 41
      BY <1>8, Texts
    <3>2. QED
      BY <1>4, <3>1
  <2>2. ASSUME made # {}
        PROVE  /\ Rerun /\ Repaired' /\ inode[root].is_directory
               /\ \A b \in suspect : bat[b] = 0 /\ OnlyListed(inode, root, b)
    <3>1. Rerun
      BY <1>3, <1>8, <2>1, <2>2 DEF RepairInv, RerunInv, TableInv
    <3>2. \A b \in suspect : bat[b] = 0 /\ Unheld(inode, b)
      BY <1>3, <1>5, <2>1, <3>1, NobodyHolds
    <3>3. QED
      BY <1>1, <1>2, <3>1, <3>2 DEF Rerun, Repaired
  <2>3. Knowing => Knowing'
    BY <1>1 DEF Knowing, AtPath
  <2>4. Clearing => Clearing'
    BY <1>1 DEF Clearing, NoFileAt
  <2>5. made # {} => Rerun'
    BY <1>1, <2>1, <2>2, <2>3, <2>4 DEF Rerun
  <2>6. prog \notin Creators
    BY <1>8 DEF Creators
  <2>7. QED
    BY <1>1, <1>2, <1>4, <1>5, <1>6, <2>2, <2>5, <2>6
       DEF RepairInv, MadeInv, CreatedInv, RerunInv, RepairedInv
<1>9. QED
  BY <1>4, <1>7, <1>8

\* A program saves.
LEMMA SaveRepair ==
    ASSUME ProgramsInv, TableInv, RepairInv, SaveCall
    PROVE  RepairInv'
<1>1. CASE Before("save") /\ SaveOpen /\ Advance /\ UNCHANGED local
  <2>1. /\ phase = "running" /\ pc = "idle" /\ phase' = "saving" /\ mft' = <<>>
        /\ UNCHANGED <<bat, inode, root, pc, child, suspect, saved, prog, local, made>>
        /\ at' = at + 1
    BY <1>1 DEF SaveOpen, Advance, memory
  <2>2. prog \in Creators \cup {"del_fs"} /\ (prog = "del_fs" => at = 41) /\ prog # "none"
    BY <1>1, SaverAt DEF Creators
  <2>3. InMemory /\ InMemory'
    BY <2>1 DEF InMemory
  <2>4. FilesInv' /\ MadeInv' /\ RepairedInv'
    BY <2>1, <2>2, <2>3 DEF RepairInv, FilesInv, MadeInv, RepairedInv
  <2>5. CreatedInv'
    BY <2>1, <2>3 DEF RepairInv, CreatedInv
  <2>6. RerunInv'
    <3> SUFFICES ASSUME made # {}, prog = "del_fs" PROVE Rerun'
        BY <2>1 DEF RerunInv
    <3>1. Rerun
      BY <1>1, <2>3 DEF RepairInv, RerunInv, Before
    <3>2. at = 41 /\ at' = 42
      BY <2>1, <2>2
    <3>3. QED
      BY <2>1, <3>1, <3>2, SaveOpenRerun
  <2>7. QED
    BY <2>4, <2>5, <2>6 DEF RepairInv
<1>2. CASE Before("save") /\ root = NULL /\ UNCHANGED <<allVars, local>> /\ Advance
  <2>1. /\ phase = "running" /\ prog = "del_fs" /\ prog \notin Creators /\ prog # "none"
    BY <1>2, SaverAt DEF Before, Creators
  <2>2. UNCHANGED <<inode, mft, saved, phase, prog, made>>
    BY <1>2 DEF allVars, vars, Advance
  <2>3. made = {}
    BY <1>2, <2>1 DEF RepairInv, RerunInv, Rerun, InMemory, Before
  <2>4. QED
    BY <2>1, <2>2, <2>3
       DEF RepairInv, FilesInv, MadeInv, CreatedInv, RerunInv, RepairedInv, InMemory
<1>3. CASE SaveInode /\ UNCHANGED progVars
  <2>1. /\ phase = "saving"
        /\ UNCHANGED <<bat, inode, root, pc, child, suspect, mft, phase, dirty, unsaved, saved>>
        /\ UNCHANGED <<prog, at, local, made, ended>>
    BY <1>3 DEF SaveInode, memory, disk, progVars
  <2>2. Knowing => Knowing'
    BY <2>1 DEF Knowing, AtPath
  <2>3. Clearing => Clearing'
    BY <2>1 DEF Clearing, NoFileAt
  <2>4. Rerun => Rerun'
    BY <2>1, <2>2, <2>3 DEF Rerun
  <2>5. QED
    BY <2>1, <2>4 DEF RepairInv, FilesInv, MadeInv, CreatedInv, RerunInv, RepairedInv,
                      InMemory, Repaired
<1>4. CASE SaveClose /\ UNCHANGED progVars
  BY <1>4, SaveCloseRepair
<1>5. QED
  BY <1>1, <1>2, <1>3, <1>4 DEF SaveCall

\* A program ends.  If it has made the disk there is nothing to repair, and if
\* it was del_fs nothing is left to repair.
LEMMA EndRepair ==
    ASSUME ProgramsInv, TableInv, RepairInv, End
    PROVE  RepairInv'
<1>1. /\ phase = "running" /\ phase' = "down" /\ prog # "none" /\ prog' = "none"
      /\ UNCHANGED <<bat, mft, unsaved, saved>> /\ at > Len(Text(prog)) /\ ended' = prog
      /\ made' = IF prog \in Creators THEN SavedPaths ELSE made
  BY DEF End, Quit, Exit, Gone, disk
<1>2. prog \in Creators \cup Loaders /\ ~InMemory' /\ InMemory
  BY <1>1 DEF ProgramsInv, ProgInv, Life, InMemory
<1>3. ~dirty
  <2>1. Len(Text(prog)) \in Nat
    BY <1>2, Texts DEF Loaders
  <2>2. QED
    BY <1>1, <2>1 DEF ProgramsInv, ProgInv, Life
<1>4. FilesInv'
  BY <1>1, <1>2 DEF RepairInv, FilesInv
<1>5. prog' \notin Creators
  BY <1>1 DEF Creators
<1>6. CASE prog \in Creators
  <2>1. mft # <<>> /\ unsaved = {} /\ saved.inode[saved.root].is_directory /\ prog # "del_fs"
    BY <1>1, <1>3, <1>6 DEF RepairInv, CreatedInv, Creators
  <2>2. QED
    BY <1>1, <1>2, <1>4, <1>5, <2>1
       DEF RepairInv, MadeInv, CreatedInv, RerunInv, RepairedInv
<1>7. CASE prog \notin Creators
  <2>1. made' = made
    BY <1>1, <1>7
  <2>2. made # {} /\ prog = "del_fs" => Repaired
    <3> SUFFICES ASSUME made # {}, prog = "del_fs" PROVE Repaired
        OBVIOUS
    <3>1. PICK n : n = Len(Text(prog))
      OBVIOUS
    <3>2. n = 41 /\ at > n
      BY <1>1, <3>1, Texts
    <3>3. at \in 1 .. n + 1
      BY <1>1, <3>1 DEF ProgramsInv, ProgInv, Life
    <3>4. at \in 1 .. 42 /\ at > 41
      BY <3>2, <3>3
    <3>5. ~(at <= 41) /\ at # 1
      BY <3>4
    <3>6. Rerun
      BY <1>2, <3>5 DEF RepairInv, RerunInv, TableInv
    <3>7. QED
      BY <1>1, <3>5, <3>6 DEF Rerun
  <2>3. Repaired => Repaired'
    BY <1>1 DEF Repaired
  <2>4. QED
    BY <1>1, <1>2, <1>4, <1>5, <2>1, <2>2, <2>3
       DEF RepairInv, MadeInv, CreatedInv, RerunInv, RepairedInv
<1>8. QED
  BY <1>6, <1>7

\* A program is killed.
LEMMA KilledRepair ==
    ASSUME RepairInv, Killed
    PROVE  RepairInv'
<1>1. /\ phase' = "down" /\ prog' = "none" /\ ended' = "killed"
      /\ UNCHANGED <<mft, saved>> /\ (UNCHANGED <<bat, unsaved>> \/ bat' = EmptyFile)
      /\ made' = IF phase = "saving" THEN {} ELSE made
  BY DEF Killed, Kill, KillInWrite, Exit, Gone, disk
<1>2. ~InMemory' /\ prog' \notin Creators
  BY <1>1 DEF InMemory, Creators
<1>3. QED
  BY <1>1, <1>2 DEF RepairInv, FilesInv, MadeInv, CreatedInv, RerunInv, RepairedInv

-------------------------------------------------------------------------------
(* The rerun: del_fs looks *)

\* A search finds what is at the longer path.
LEMMA SearchLeads ==
    ASSUME GoodTree(inode, root), NEW in \in Seq(Words), NEW name \in Words,
           NEW p \in DOMAIN inode, AtPath(in, p),
           NEW found \in ChildrenOf(p), inode[found].name = name
    PROVE  AtPath(Then(in, name), found)
<1>1. found \in Kids(inode, p) /\ found \in DOMAIN inode
  BY KidsAreChildren, GoodRecord
<1>2. ASSUME NEW q \in DOMAIN inode
      PROVE  Leads(inode, root, Then(in, name), q) <=> q = found
  <2>1. Leads(inode, root, Then(in, name), q) <=>
           \E s \in DOMAIN inode : /\ Leads(inode, root, in, s)
                                   /\ q \in Kids(inode, s) /\ inode[q].name = name
    BY LeadsOn
  <2>2. \A s \in DOMAIN inode : Leads(inode, root, in, s) <=> s = p
    BY DEF AtPath
  <2>3. q \in Kids(inode, p) /\ inode[q].name = name => q = found
    BY <1>1 DEF GoodTree, TreeNames
  <2>4. QED
    BY <1>1, <2>1, <2>2, <2>3
<1>3. QED
  BY <1>2 DEF AtPath

\* If it finds nothing then nothing is there.
LEMMA SearchMisses ==
    ASSUME GoodTree(inode, root), NULL \notin DOMAIN inode,
           NEW in \in Seq(Words), NEW name \in Words,
           NEW p, AtPath(in, p), p # NULL => FindInodeByName(p, name, NULL),
           NEW q \in DOMAIN inode
    PROVE  ~Leads(inode, root, Then(in, name), q)
<1> SUFFICES ASSUME Leads(inode, root, Then(in, name), q) PROVE FALSE
    OBVIOUS
<1>1. PICK s \in DOMAIN inode : /\ Leads(inode, root, in, s)
                                /\ q \in Kids(inode, s) /\ inode[q].name = name
  BY LeadsOn
<1>2. s = p
  BY <1>1 DEF AtPath
<1>3. p \in DOMAIN inode /\ q \in ChildrenOf(p) /\ inode[q].name = name
  BY <1>1, <1>2, KidsAreChildren
<1>4. p # NULL /\ FindInodeByName(p, name, NULL)
  BY <1>3
<1>5. ~FirstNamed(p, name, NULL)
  BY <1>3 DEF FirstNamed, GoodTree, TreeLinks
<1>6. inode[p].is_directory
  BY <1>3 DEF ChildrenOf, GoodTree, TreeLinks
<1>7. QED
  BY <1>3, <1>4, <1>5, <1>6 DEF FindInodeByName

\* The variable that is assigned has what is at the path.
LEMMA KnowingOn ==
    ASSUME Knowing, UNCHANGED <<inode, root>>, NEW var, NEW x, local' = Set(var, x),
           NEW path, AtPath(path, x), KnowsOn(at, at', var, path)
    PROVE  Knowing'
<1> SUFFICES ASSUME NEW v, NEW p, Knows(at', v, p)
             PROVE  /\ v \in DOMAIN local'
                    /\ \A q \in DOMAIN inode : Leads(inode, root, p, q) <=> q = local'[v]
    BY DEF Knowing, AtPath
<1>1. CASE v = var /\ p = path
  <2>1. v \in DOMAIN local' /\ local'[v] = x
    BY <1>1, SetEffect
  <2>2. QED
    BY <1>1, <2>1 DEF AtPath
<1>2. CASE v # var /\ Knows(at, v, p)
  <2>1. v \in DOMAIN local /\ AtPath(p, local[v])
    BY <1>2 DEF Knowing
  <2>2. v \in DOMAIN local' /\ local'[v] = local[v]
    BY <1>2, <2>1, SetEffect
  <2>3. QED
    BY <2>1, <2>2 DEF AtPath
<1>3. QED
  BY <1>1, <1>2 DEF KnowsOn

\* A search of del_fs.
LEMMA FindRerun ==
    ASSUME ProgramsInv, Rerun, FindCall, prog = "del_fs"
    PROVE  Rerun'
<1>1. /\ phase = "running" /\ pc = "idle" /\ at \in 1 .. Len(Text(prog))
      /\ Instr = Text(prog)[at] /\ Instr.op = "find" /\ InMemory
  BY SearcherAt DEF FindCall, InMemory
<1>2. PICK call : call = Instr
  OBVIOUS
<1>3. at \in 1 .. 41 /\ call = DelFs[at] /\ call.op = "find"
  BY <1>1, <1>2, Texts
<1>4. UNCHANGED <<bat, inode, root, pc, child, suspect, saved, phase>>
  BY DEF FindCall, allVars, vars
<1>5. /\ root # NULL /\ inode[root].is_directory /\ GoodTree(inode, root)
      /\ NULL \notin DOMAIN inode
  BY <1>1, RunningTree, DirectoryIsNotNull DEF Rerun, ProgramsInv
<1>6. Searched(call)
  BY <1>1, <1>3, KnownToSearch DEF ProgramsInv, ProgInv, LoaderInv, Loaders
<1>7. PICK found \in DOMAIN inode \cup {NULL} :
         /\ IF local[call.in] = NULL THEN found = NULL
            ELSE FindInodeByName(local[call.in], call.name, found)
         /\ local' = Set(call.var, found)
         /\ at' = IF found = NULL THEN call.absent ELSE at + 1
  BY <1>2 DEF FindCall
<1>8. PICK in, path \in Seq(Words) : Steps(at, call, in, path)
  BY <1>3, DelFsSteps
<1>9. PICK name, var, absent, p :
         name = call.name /\ var = call.var /\ absent = call.absent /\ p = local[call.in]
  OBVIOUS
<1>10. /\ path = Then(in, name) /\ name \in Words /\ absent \in 1 .. 41
       /\ KnowsOn(at, at + 1, var, path) /\ KnowsOn(at, absent, var, path)
       /\ (\A t : Tried(at + 1, t) => Tried(at, t)) /\ TriedOn(at, absent, path)
  BY <1>8, <1>9 DEF Steps
<1>11. AtPath(in, p) /\ call.in \in DOMAIN local
  BY <1>8, <1>9 DEF Steps, Rerun, Knowing
<1>12. at + 1 \in 1 .. 41
  <2>1. at # 41 /\ at \in 1 .. 41
    BY <1>3, DelFsOps
  <2>2. QED
    BY <2>1
<1>13. CASE found # NULL
  <2>1. local[call.in] # NULL /\ FindInodeByName(local[call.in], call.name, found)
    BY <1>7, <1>13
  <2>2. Has(call.in) /\ inode[found].name = call.name /\ found \in ChildrenOf(local[call.in])
    BY <1>1, <1>5, <1>6, <1>13, <2>1, FoundIs
  <2>3. p \in DOMAIN inode /\ inode[found].name = name /\ found \in ChildrenOf(p)
    BY <1>9, <2>2 DEF Has
  <2>4. AtPath(path, found)
    BY <1>5, <1>10, <1>11, <2>3, SearchLeads
  <2>5. at' = at + 1 /\ local' = Set(var, found)
    BY <1>7, <1>9, <1>13
  <2>6. Knowing'
    BY <1>4, <1>10, <2>4, <2>5, KnowingOn DEF Rerun
  <2>7. Clearing'
    BY <1>4, <1>10, <2>5 DEF Rerun, Clearing, NoFileAt
  <2>8. Partial' /\ at' <= 41
    <3>1. at <= 41 /\ at' <= 41
      BY <1>3, <1>12, <2>5
    <3>2. QED
      BY <1>1, <1>4, <3>1 DEF Rerun, Partial
  <2>9. QED
    BY <1>1, <1>4, <1>5, <2>6, <2>7, <2>8 DEF Rerun
<1>14. CASE found = NULL
  <2>1. \A q \in DOMAIN inode : ~Leads(inode, root, path, q)
    <3>1. p # NULL => FindInodeByName(p, name, NULL)
      BY <1>7, <1>9, <1>14
    <3>2. QED
      BY <1>5, <1>10, <1>11, <3>1, SearchMisses
  <2>2. AtPath(path, NULL)
    BY <1>5, <2>1 DEF AtPath
  <2>3. at' = absent /\ local' = Set(var, NULL)
    BY <1>7, <1>9, <1>14
  <2>4. Knowing'
    BY <1>4, <1>10, <2>2, <2>3, KnowingOn DEF Rerun
  <2>5. Clearing'
    <3> SUFFICES ASSUME NEW t, Tried(at', t) PROVE NoFileAt(t)'
        BY DEF Clearing
    <3>1. Tried(at, t) \/ AtOrBelow(t, path)
      BY <1>10, <2>3 DEF TriedOn
    <3>2. CASE Tried(at, t)
      BY <1>4, <3>2 DEF Rerun, Clearing, NoFileAt
    <3>3. CASE AtOrBelow(t, path)
      <4>1. \A q \in DOMAIN inode : ~Leads(inode, root, t, q)
        BY <2>1, <3>3, NothingBelow
      <4>2. QED
        BY <1>4, <4>1 DEF NoFileAt
    <3>4. QED
      BY <3>1, <3>2, <3>3
  <2>6. Partial' /\ at' <= 41
    <3>1. at \in 1 .. 41 /\ at' \in 1 .. 41
      BY <1>3, <1>10, <2>3
    <3>2. at <= 41 /\ at' <= 41
      BY <3>1
    <3>3. QED
      BY <1>1, <1>4, <3>2 DEF Rerun, Partial
  <2>7. QED
    BY <1>1, <1>4, <1>5, <2>4, <2>5, <2>6 DEF Rerun
<1>15. QED
  BY <1>13, <1>14

\* A program looks.
LEMMA FindRepair ==
    ASSUME ProgramsInv, RepairInv, FindCall
    PROVE  RepairInv'
<1>1. prog \in Loaders /\ phase = "running"
  BY SearcherAt DEF FindCall
<1>2. prog \notin Creators /\ prog # "none"
  BY <1>1 DEF Creators, Loaders
<1>3. UNCHANGED <<bat, inode, mft, saved, phase, unsaved, prog, made>>
  BY DEF FindCall, allVars, vars
<1>4. made # {} /\ prog = "del_fs" => Rerun'
  BY <1>1, FindRerun DEF RepairInv, RerunInv, InMemory, FindCall, Before
<1>5. QED
  BY <1>1, <1>2, <1>3, <1>4 DEF RepairInv, FilesInv, MadeInv, CreatedInv, RerunInv,
                                RepairedInv, InMemory

-------------------------------------------------------------------------------
(* The rerun: del_fs deletes *)

\* A file that del_fs has found is not refused.
LEMMA FileIsAccepted ==
    ASSUME GoodTree(inode, root), NEW in \in Seq(Words), NEW name \in Words,
           NEW p, AtPath(in, p), NEW n, Leads(inode, root, Then(in, name), n),
           n \in DOMAIN inode, ~inode[n].is_directory, Instr.op = "delete_file"
    PROVE  ~Refused(p, n)
<1>1. PICK s \in DOMAIN inode : Leads(inode, root, in, s) /\ n \in Kids(inode, s)
  BY LeadsOn
<1>2. s = p
  BY <1>1 DEF AtPath
<1>3. n \in ChildrenOf(p)
  BY <1>1, <1>2, KidsAreChildren
<1>4. inode[n].children = <<>>
  BY FileIsLeaf
<1>5. inode[n].is_directory = FALSE
  <2>1. inode[n].is_directory \in BOOLEAN
    BY GoodRecord
  <2>2. QED
    BY <2>1
<1>6. (Instr.op = "delete_dir") = FALSE
  OBVIOUS
<1>7. QED
  BY <1>3, <1>4, <1>5, <1>6 DEF Refused

\* What a call of del_fs to delete something leaves alone.
LEMMA DeleteChanges ==
    ASSUME ProgramsInv, RepairInv, DeleteCall
    PROVE  /\ UNCHANGED <<bat, inode, root, mft, phase, saved, suspect, local, prog, made>>
           /\ at' = at + 1 /\ FilesInv' /\ UNCHANGED unsaved
           /\ \/ Refused(local[Instr.in], local[Instr.var]) /\ UNCHANGED <<pc, child>>
              \/ /\ pc' = "freeing" /\ child' = local[Instr.var]
                 /\ inode[local[Instr.var]].is_directory <=> Instr.op = "delete_dir"
<1>1. PICK name : In(Instr.in, Instr.var, name)
  BY DeleterAt DEF Known
<1>2. at' = at + 1 /\ UNCHANGED <<local, prog, made>>
  BY DEF DeleteCall, Advance
<1>3. CASE Refused(local[Instr.in], local[Instr.var]) /\ UNCHANGED allVars
  <2>1. UNCHANGED <<bat, inode, root, mft, phase, saved, suspect, pc, child, unsaved>>
    BY <1>3 DEF allVars, vars
  <2>2. FilesInv'
    BY <2>1 DEF RepairInv, FilesInv, InMemory
  <2>3. QED
    BY <1>2, <1>3, <2>1, <2>2
<1>4. CASE /\ Call /\ UNCHANGED <<bat, inode, root, mft, phase, saved>>
           /\ inode[local[Instr.var]].is_directory <=> Instr.op = "delete_dir"
           /\ child' = local[Instr.var] /\ pc' = "freeing"
  <2>1. UNCHANGED suspect /\ FilesInv'
    BY <1>4, CallKeeps DEF RepairInv
  <2>2. UNCHANGED unsaved
    BY <1>4 DEF Call, Perform
  <2>3. QED
    BY <1>2, <1>4, <2>1, <2>2
<1>5. QED
  BY <1>1, <1>3, <1>4, DeleteIs

\* A call of del_fs to delete_file or delete_dir.
LEMMA DeleteRerun ==
    ASSUME ProgramsInv, RepairInv, DeleteCall, Rerun
    PROVE  Rerun'
<1>1. /\ phase = "running" /\ pc = "idle" /\ at \in 1 .. 40 /\ prog = "del_fs"
      /\ Instr = DelFs[at] /\ Instr.op \in {"delete_file", "delete_dir"} /\ InMemory
  BY DeleterAt DEF InMemory
<1>2. PICK call, in, var, p, n :
         call = Instr /\ in = call.in /\ var = call.var /\ p = local[in] /\ n = local[var]
  OBVIOUS
<1>3. /\ UNCHANGED <<bat, inode, root, phase, saved, suspect, local>> /\ at' = at + 1
      /\ \/ Refused(p, n) /\ pc' = "idle"
         \/ pc' = "freeing" /\ child' = n /\ (inode[n].is_directory <=> call.op = "delete_dir")
  BY <1>1, <1>2, DeleteChanges
<1>4. root # NULL /\ inode[root].is_directory /\ GoodTree(inode, root)
  BY <1>1, RunningTree DEF Rerun, ProgramsInv
<1>5. Partial' /\ at' <= 41
  <2>1. at <= 41 /\ at' <= 41
    BY <1>1, <1>3
  <2>2. QED
    BY <1>1, <1>3, <2>1 DEF Rerun, Partial
<1>6. ASSUME \A v, path : Knows(at + 1, v, path) => Knows(at, v, path)
      PROVE  Knowing'
  <2> SUFFICES ASSUME NEW v, NEW path, Knows(at', v, path)
               PROVE  /\ v \in DOMAIN local'
                      /\ \A q \in DOMAIN inode' : Leads(inode', root', path, q) <=> q = local'[v]
      BY DEF Knowing, AtPath
  <2>1. Knows(at, v, path)
    BY <1>3, <1>6
  <2>2. QED
    BY <1>3, <2>1 DEF Rerun, Knowing, AtPath
<1>7. ASSUME NEW path, Tried(at, path), NEW q \in DOMAIN inode,
             Leads(inode, root, path, q), ~inode[q].is_directory
      PROVE  FALSE
  BY <1>1, <1>7 DEF Rerun, Clearing, NoFileAt
<1>8. CASE call.op = "delete_file"
  <2>1. PICK top, path \in Seq(Words) : Removes(at, call, top, path)
    <3>1. at \in 1 .. 41 /\ call = DelFs[at] /\ DelFs[at].op = "delete_file"
      BY <1>1, <1>2, <1>8
    <3>2. QED
      BY <3>1, DelFsRemoves
  <2>2. /\ Knows(at, in, top) /\ Knows(at, var, path) /\ Tried(41, path)
        /\ \A v, t : Knows(at + 1, v, t) => Knows(at, v, t)
        /\ \A t : Tried(at + 1, t) => Tried(at, t) \/ t = path
    BY <1>2, <2>1 DEF Removes
  <2>3. PICK name \in Words : path = Then(top, name)
    BY <2>1 DEF Removes
  <2>4. AtPath(top, p) /\ AtPath(path, n)
    BY <1>2, <2>2 DEF Rerun, Knowing
  <2>5. ASSUME NEW q \in DOMAIN inode, Leads(inode, root, path, q), ~inode[q].is_directory
        PROVE  pc' = "freeing" /\ child' = q
    <3>1. q = n
      BY <2>4, <2>5 DEF AtPath
    <3>2. ~Refused(p, n)
      BY <1>2, <1>4, <1>8, <2>3, <2>4, <2>5, <3>1, FileIsAccepted
    <3>3. QED
      BY <1>3, <3>1, <3>2
  <2>6. Clearing'
    <3> SUFFICES ASSUME NEW t, Tried(at', t), NEW q \in DOMAIN inode,
                        Leads(inode, root, t, q), ~inode[q].is_directory
                 PROVE  pc' = "freeing" /\ child' = q
        BY <1>3 DEF Clearing, NoFileAt
    <3>1. Tried(at, t) \/ t = path
      BY <1>3, <2>2
    <3>2. QED
      BY <1>7, <2>5, <3>1
  <2>7. ASSUME pc' = "freeing" PROVE Listed(inode, root, child')
    <3>1. child' = n
      BY <1>3, <2>7
    <3>2. n \in DOMAIN inode
      <4>1. PICK name2 : In(Instr.in, Instr.var, name2)
        BY DeleterAt DEF Known
      <4>2. QED
        BY <1>2, <4>1 DEF In, Is, Has
    <3>3. Leads(inode, root, path, n)
      BY <2>4, <3>2 DEF AtPath
    <3>4. QED
      BY <2>2, <3>1, <3>3 DEF Listed
  <2>8. Knowing'
    BY <1>6, <2>2
  <2>9. QED
    BY <1>1, <1>3, <1>4, <1>5, <2>6, <2>7, <2>8 DEF Rerun
<1>9. CASE call.op = "delete_dir"
  <2>1. Passes(at)
    <3>1. at \in 1 .. 41 /\ DelFs[at].op = "delete_dir"
      BY <1>1, <1>2, <1>9
    <3>2. QED
      BY <3>1, DelFsPasses
  <2>2. Clearing'
    <3> SUFFICES ASSUME NEW t, Tried(at', t), NEW q \in DOMAIN inode,
                        Leads(inode, root, t, q), ~inode[q].is_directory
                 PROVE  FALSE
        BY <1>3 DEF Clearing, NoFileAt
    <3>1. Tried(at, t)
      BY <1>3, <2>1 DEF Passes
    <3>2. QED
      BY <1>7, <3>1
  <2>3. pc' = "freeing" => inode[child'].is_directory
    BY <1>3, <1>9
  <2>4. Knowing'
    BY <1>6, <2>1 DEF Passes
  <2>5. QED
    BY <1>1, <1>3, <1>4, <1>5, <2>2, <2>3, <2>4 DEF Rerun
<1>10. QED
  BY <1>1, <1>2, <1>8, <1>9

\* A program deletes.
LEMMA DeleteRepair ==
    ASSUME ProgramsInv, RepairInv, DeleteCall
    PROVE  RepairInv'
<1>1. prog = "del_fs" /\ phase = "running" /\ prog \notin Creators /\ prog # "none"
  BY DeleterAt DEF Creators
<1>2. UNCHANGED <<bat, inode, mft, saved, phase, unsaved, prog, made>> /\ FilesInv'
  BY DeleteChanges
<1>3. made # {} => Rerun'
  BY <1>1, DeleteRerun DEF RepairInv, RerunInv, InMemory, DeleteCall, Before
<1>4. QED
  BY <1>1, <1>2, <1>3 DEF RepairInv, MadeInv, CreatedInv, RerunInv, RepairedInv

-------------------------------------------------------------------------------
(* The rerun: del_fs inside a call *)

\* An inode on disk that has a block of which the file has one entry is alone.
LEMMA SoleHolder ==
    ASSUME NEW h, NEW file, NEW w, Places(h, file, w), NEW b, OneEntry(file, b),
           NEW s \in DOMAIN h, b \in BlocksIn(h, s),
           NEW t \in DOMAIN h, b \in BlocksIn(h, t)
    PROVE  s = t
<1>1. PICK k \in DOMAIN file : \A l \in DOMAIN file : \A j \in DOMAIN file[l].blocks :
            file[l].blocks[j] = b => l = k
  BY DEF OneEntry
<1>2. ASSUME NEW q \in DOMAIN h, b \in BlocksIn(h, q) PROVE w[k] = q
  <2>1. PICK l \in DOMAIN file : w[l] = q
    BY <1>2 DEF Places
  <2>2. file[l].blocks = h[q].blocks
    BY <2>1 DEF Places
  <2>3. PICK j \in DOMAIN file[l].blocks : file[l].blocks[j] = b
    BY <1>2, <2>2 DEF BlocksIn
  <2>4. QED
    BY <1>1, <2>1, <2>3
<1>3. QED
  BY <1>2

\* A block that is freed is one of a file that del_fs deletes, in memory and on
\* disk, and nobody else on disk has it.
LEMMA FreedIsListed ==
    ASSUME ProgramsInv, RepairInv, Rerun, MadeInv, made # {}, prog = "del_fs",
           phase = "running", pc = "freeing",
           NEW i \in DOMAIN inode[child].blocks, NEW b \in Blocks, b = inode[child].blocks[i],
           bat[b] = 1
    PROVE  OnlyListed(saved.inode, saved.root, b)
<1>1. InMemory /\ FilesHold(inode) /\ dirty
  BY DEF RepairInv, FilesInv, InMemory, ProgramsInv, ProgInv, Life
<1>2. PICK c \in DOMAIN inode : c = child
  BY <1>1, RunningTree, CallHasTree DEF ProgramsInv
<1>3. b \in BlocksIn(inode, c) /\ ~inode[c].is_directory
  BY <1>1, <1>2 DEF BlocksIn, FilesHold
<1>4. Listed(inode, root, c)
  BY <1>2, <1>3 DEF Rerun
<1>5. at <= 41
  <2>1. PICK n : n = Len(Text(prog))
    OBVIOUS
  <2>2. at <= n
    BY <1>1, <2>1 DEF ProgramsInv, ProgInv, Life
  <2>3. n = 41
    BY <2>1, Texts
  <2>4. QED
    BY <2>2, <2>3
<1>6. Partial
  BY <1>5 DEF Rerun
<1>7. PICK h, r : h = saved.inode /\ r = saved.root
  OBVIOUS
<1>8. PICK s \in DOMAIN h : inode[c].blocks = h[s].blocks /\ Listed(h, r, s)
  BY <1>4, <1>6, <1>7 DEF Partial
<1>9. b \in BlocksIn(h, s)
  BY <1>3, <1>8 DEF BlocksIn
<1>10. mft # <<>> /\ b \notin unsaved
  BY DEF MadeInv, EmptyFile, NoByte
<1>11. OneEntry(mft, b)
  BY <1>10, AgreesIs DEF ProgramsInv, DiskInv, DiskAgrees
<1>12. PICK T : Complete(h, r, T, mft)
  BY <1>7, <1>10 DEF ProgramsInv, DiskInv, SavedInv
<1>13. PICK w : Places(h, mft, w)
  BY <1>12, FileHasPlaces DEF Complete
<1>14. ASSUME NEW t \in DOMAIN h, b \in BlocksIn(h, t) PROVE Listed(h, r, t)
  BY <1>8, <1>9, <1>11, <1>13, <1>14, SoleHolder
<1>15. QED
  BY <1>7, <1>14 DEF OnlyListed

\* del_fs frees a block.
LEMMA FreeRerun ==
    ASSUME ProgramsInv, RepairInv, made # {}, prog = "del_fs", pc = "freeing", bat # EmptyFile,
           Perform(FreeBlock), UNCHANGED progVars
    PROVE  Rerun' /\ MadeInv'
<1>1. /\ phase = "running" /\ phase' = "running" /\ UNCHANGED <<mft, saved>>
      /\ unsaved' = unsaved \cup {b \in Blocks : bat'[b] # bat[b]}
      /\ UNCHANGED <<inode, root, pc, child, suspect>> /\ UNCHANGED <<prog, at, local, made>>
  BY DEF Perform, FreeBlock, progVars
<1>2. Rerun /\ MadeInv /\ InMemory
  BY <1>1 DEF RepairInv, RerunInv, InMemory
<1>3. /\ IInv /\ bat \in Table /\ freed \in Nat /\ child \in DOMAIN inode
  BY <1>2, RunningTree, CallHasTree DEF ProgramsInv, TypeOK
<1>4. PICK i : i = freed + 1 /\ i \in DOMAIN inode[child].blocks
  <2>1. PICK s \in Seq(Blocks) : s = inode[child].blocks
    BY <1>3, RecordFields
  <2>2. freed < Len(s)
    BY <2>1 DEF Perform, FreeBlock, BlocksToFree
  <2>3. freed + 1 \in DOMAIN s
    BY <1>3, <2>2
  <2>4. QED
    BY <2>1, <2>3
<1>5. PICK a : a = inode[child].blocks[i]
  OBVIOUS
<1>6. a \in Blocks /\ bat' = Cleared(bat, a)
  <2>1. inode[child].blocks \in Seq(Blocks)
    BY <1>3, RecordFields
  <2>2. a \in Blocks
    BY <1>4, <1>5, <2>1
  <2>3. QED
    BY <1>4, <1>5, <2>2 DEF Perform, FreeBlock
<1>7. \A b \in Blocks : bat'[b] = IF b = a /\ bat[a] = 1 THEN 0 ELSE bat[b]
  BY <1>3, <1>6, ClearedTable
<1>8. /\ \A b \in Blocks : bat[b] = 0 => bat'[b] = 0
      /\ \A b \in Blocks : bat'[b] # bat[b] => b = a /\ bat[b] = 1 /\ bat'[b] = 0
  BY <1>7
<1>9. unsaved \subseteq Blocks /\ suspect \subseteq Blocks
  BY <1>3 DEF ProgramsInv, DiskInv, IInv, TypeOK
<1>10. \A b \in suspect : bat'[b] = 0 /\ OnlyListed(inode, root, b)
  BY <1>2, <1>8, <1>9 DEF Rerun
<1>11. Knowing'
  BY <1>1, <1>2 DEF Rerun, Knowing, AtPath
<1>12. Clearing'
  BY <1>1, <1>2 DEF Rerun, Clearing, NoFileAt
<1>13. at <= 41
  <2>1. PICK n : n = Len(Text(prog))
    OBVIOUS
  <2>2. at <= n
    BY <1>1, <2>1 DEF ProgramsInv, ProgInv, Life
  <2>3. n = 41
    BY <2>1, Texts
  <2>4. QED
    BY <2>2, <2>3
<1>14. Rerun'
  BY <1>1, <1>2, <1>10, <1>11, <1>12, <1>13 DEF Rerun, Partial
<1>15. ASSUME NEW b \in unsaved'
       PROVE  bat'[b] = 0 /\ OnlyListed(saved.inode, saved.root, b)
  <2>1. CASE b \in unsaved
    BY <1>1, <1>2, <1>8, <1>9, <2>1 DEF MadeInv
  <2>2. CASE b \in Blocks /\ bat'[b] # bat[b]
    <3>1. b = inode[child].blocks[i] /\ bat[b] = 1 /\ bat'[b] = 0
      BY <1>5, <1>8, <2>2
    <3>2. OnlyListed(saved.inode, saved.root, b)
      BY <1>1, <1>2, <1>4, <2>2, <3>1, FreedIsListed
    <3>3. QED
      BY <3>1, <3>2
  <2>3. QED
    BY <1>1, <1>15, <2>1, <2>2
<1>16. QED
  BY <1>1, <1>2, <1>14, <1>15 DEF MadeInv

\* del_fs takes the inode out of the tree.
LEMMA UnlinkRerun ==
    ASSUME ProgramsInv, RepairInv, made # {}, prog = "del_fs", pc = "freeing", bat # EmptyFile,
           Perform(Unlink), UNCHANGED progVars
    PROVE  Rerun' /\ MadeInv'
<1>1. /\ phase = "running" /\ phase' = "running" /\ UNCHANGED <<mft, saved>>
      /\ UNCHANGED <<bat, root, suspect>> /\ UNCHANGED <<prog, at, local, made>>
      /\ unsaved' = unsaved /\ pc' = "idle"
  BY DEF Perform, Unlink, Return, progVars
<1>2. Rerun /\ MadeInv /\ InMemory
  BY <1>1 DEF RepairInv, RerunInv, InMemory
<1>3. IInv /\ RunTree
  BY <1>2, RunningTree DEF ProgramsInv
<1>4. PICK c : c = child
  OBVIOUS
<1>5. /\ DOMAIN inode' = DOMAIN inode \ {c}
      /\ \A q \in DOMAIN inode' : Kept(q) /\ ChildrenOf(q)' = ChildrenOf(q) \ {c}
  BY <1>3, <1>4, UnlinkEffect DEF Perform
<1>6. Kids(inode, c) = {}
  BY <1>3, <1>4 DEF RunTree, DeletedLeaf, Kids
<1>7. LeafGone(inode, inode', c)
  BY <1>5, <1>6, KidsAreChildren DEF LeafGone, Kept
<1>8. ASSUME NEW path \in Seq(Words), NEW q \in DOMAIN inode'
      PROVE  Leads(inode', root, path, q) <=> Leads(inode, root, path, q)
  BY <1>7, LeadsWithout
<1>9. ASSUME NEW q \in DOMAIN inode'
      PROVE  Listed(inode', root, q) <=> Listed(inode, root, q)
  BY <1>8, ArePaths DEF Listed
<1>10. root' # NULL /\ inode'[root'].is_directory
  <2>1. root \in DOMAIN inode'
    BY <1>2, <1>3, <1>4, <1>5 DEF Rerun, IInv, TypeOK, LinksOK
  <2>2. QED
    BY <1>1, <1>2, <1>5, <2>1 DEF Rerun, Kept
<1>11. ASSUME NEW b \in suspect PROVE bat'[b] = 0 /\ OnlyListed(inode', root', b)
  <2>1. bat[b] = 0 /\ OnlyListed(inode, root, b)
    BY <1>2 DEF Rerun
  <2>2. ASSUME NEW q \in DOMAIN inode', b \in BlocksIn(inode', q) PROVE Listed(inode', root, q)
    <3>1. q \in DOMAIN inode /\ b \in BlocksIn(inode, q)
      BY <1>5, <2>2 DEF BlocksIn, Kept
    <3>2. QED
      BY <1>9, <2>1, <3>1 DEF OnlyListed
  <2>3. QED
    BY <1>1, <2>1, <2>2 DEF OnlyListed
<1>12. Knowing'
  <2> SUFFICES ASSUME NEW v, NEW path, Knows(at', v, path)
               PROVE  /\ v \in DOMAIN local'
                      /\ \A q \in DOMAIN inode' : Leads(inode', root', path, q) <=> q = local'[v]
      BY DEF Knowing, AtPath
  <2>1. Knows(at, v, path) /\ path \in Seq(Words)
    BY <1>1, ArePaths
  <2>2. v \in DOMAIN local /\ \A q \in DOMAIN inode : Leads(inode, root, path, q) <=> q = local[v]
    BY <1>2, <2>1 DEF Rerun, Knowing, AtPath
  <2>3. QED
    BY <1>1, <1>5, <1>8, <2>1, <2>2
<1>13. Clearing'
  <2> SUFFICES ASSUME NEW path, Tried(at', path), NEW q \in DOMAIN inode',
                      Leads(inode', root', path, q), ~inode'[q].is_directory
               PROVE  FALSE
      BY DEF Clearing, NoFileAt
  <2>1. Tried(at, path) /\ path \in Seq(Words)
    BY <1>1, ArePaths
  <2>2. q \in DOMAIN inode /\ q # c /\ ~inode[q].is_directory /\ Leads(inode, root, path, q)
    BY <1>1, <1>5, <1>8, <2>1 DEF Kept
  <2>3. QED
    BY <1>2, <1>4, <2>1, <2>2 DEF Rerun, Clearing, NoFileAt
<1>14. Partial => Partial'
  <2> SUFFICES ASSUME Partial, NEW q \in DOMAIN inode'
               PROVE  \E s \in DOMAIN saved.inode :
                         /\ inode'[q].blocks = saved.inode[s].blocks
                         /\ Listed(inode', root', q) => Listed(saved.inode, saved.root, s)
      BY <1>1 DEF Partial
  <2>1. q \in DOMAIN inode /\ inode'[q].blocks = inode[q].blocks
    BY <1>5 DEF Kept
  <2>2. Listed(inode', root', q) <=> Listed(inode, root, q)
    BY <1>1, <1>9
  <2>3. QED
    BY <2>1, <2>2 DEF Partial
<1>15. at <= 41
  <2>1. PICK n : n = Len(Text(prog))
    OBVIOUS
  <2>2. at <= n
    BY <1>1, <2>1 DEF ProgramsInv, ProgInv, Life
  <2>3. n = 41
    BY <2>1, Texts
  <2>4. QED
    BY <2>2, <2>3
<1>16. Rerun'
  BY <1>1, <1>2, <1>10, <1>11, <1>12, <1>13, <1>14, <1>15 DEF Rerun
<1>17. MadeInv'
  BY <1>1, <1>2 DEF MadeInv
<1>18. QED
  BY <1>16, <1>17

\* A step inside a call.
LEMMA InCallRepair ==
    ASSUME ProgramsInv, TableInv, RepairInv, InCall
    PROVE  RepairInv'
<1>1. Perform(Internal) /\ UNCHANGED progVars /\ phase = "running" /\ InMemory
  BY DEF InCall, Perform, InMemory
<1>2. Call /\ UNCHANGED <<prog, made>> /\ prog # "none"
  BY <1>1 DEF Call, Perform, Next, progVars, ProgramsInv, ProgInv, Life
<1>3. pc # "idle"
  BY <1>1 DEF Perform, Internal, AllocateBlock, AllocateFails, FreeBlock, RollBackDone,
              LinkFile, LinkFails, Unlink
<1>4. CASE prog \in Creators
  BY <1>2, <1>4, CreatorRepair
<1>5. CASE prog \in Loaders
  <2>1. prog = "del_fs" /\ pc = "freeing" /\ prog \notin Creators
    BY <1>1, <1>3, <1>5 DEF ProgramsInv, ProgInv, LoaderInv, Creators
  <2>2. Perform(FreeBlock) \/ Perform(Unlink)
    BY <1>1, <2>1 DEF Perform, Internal, AllocateBlock, AllocateFails, RollBackDone,
                      LinkFile, LinkFails
  <2>3. made # {} => Rerun' /\ MadeInv'
    BY <1>1, <1>3, <2>1, <2>2, FreeRerun, UnlinkRerun DEF TableInv
  <2>4. FilesInv'
    BY <1>2, CallKeeps DEF RepairInv
  <2>5. MadeInv'
    BY <1>2, <2>3 DEF MadeInv
  <2>6. QED
    BY <1>2, <2>1, <2>3, <2>4, <2>5 DEF RepairInv, CreatedInv, RerunInv, RepairedInv
<1>6. QED
  BY <1>1, <1>2, <1>4, <1>5 DEF ProgramsInv, ProgInv, Life

-------------------------------------------------------------------------------
(* The rerun: the inductive invariant *)

\* Every step keeps it.
LEMMA NextRepair ==
    ASSUME ProgramsInv, TableInv, RepairInv, [ProgramsNext]_programVars
    PROVE  RepairInv'
<1>1. DiskInv'
  BY NextProgramsInv DEF ProgramsInv
<1>2. ASSUME NEW p \in Creators \cup Loaders, Start(p) PROVE RepairInv'
  <2>1. p \in Creators \cup Loaders
    BY <1>2
  <2>2. QED
    BY <1>2, <2>1, StartRepair
<1>3. ASSUME Load PROVE RepairInv'
  BY <1>1, <1>3, LoadRepair
<1>4. ASSUME CreateDirCall PROVE RepairInv'
  <2>1. prog \in Creators /\ Call
    BY <1>4, CreateDirIs, CreatorAt DEF CreateDirCall
  <2>2. UNCHANGED <<prog, made>>
    BY <1>4 DEF CreateDirCall, Advance
  <2>3. QED
    BY <2>1, <2>2, CreatorRepair
<1>5. ASSUME CreateFileCall PROVE RepairInv'
  <2>1. prog \in Creators /\ Call
    BY <1>5, CreateFileIs, CreatorAt DEF CreateFileCall
  <2>2. UNCHANGED <<prog, made>>
    BY <1>5 DEF CreateFileCall, Advance
  <2>3. QED
    BY <2>1, <2>2, CreatorRepair
<1>6. ASSUME FindCall PROVE RepairInv'
  BY <1>6, FindRepair
<1>7. ASSUME DeleteCall PROVE RepairInv'
  BY <1>7, DeleteRepair
<1>8. ASSUME InCall PROVE RepairInv'
  BY <1>8, InCallRepair
<1>9. ASSUME SaveCall PROVE RepairInv'
  BY <1>9, SaveRepair
<1>10. ASSUME End PROVE RepairInv'
  BY <1>10, EndRepair
<1>11. ASSUME Killed PROVE RepairInv'
  BY <1>11, KilledRepair
<1>12. ASSUME UNCHANGED programVars PROVE RepairInv'
  BY <1>12, SameRepair
<1>13. ASSUME FormatDisk PROVE RepairInv'
  BY <1>13, FormatRepair
<1>14. QED
  BY <1>2, <1>3, <1>4, <1>5, <1>6, <1>7, <1>8, <1>9, <1>10, <1>11, <1>12, <1>13
     DEF ProgramsNext, Program, DebugDisk

\* What it says of a disk on which del_fs has ended.
LEMMA Repairs == ProgramsInv /\ RepairInv => RerunRepairs
<1> SUFFICES ASSUME ProgramsInv, RepairInv, made # {}, ended = "del_fs", prog = "none",
                    NEW b \in Blocks
             PROVE  AgreesOn(b)
    BY DEF RerunRepairs
<1>1. phase = "down"
  BY DEF ProgramsInv, ProgInv, Life
<1>2. mft # <<>> /\ Repaired
  BY <1>1 DEF RepairInv, MadeInv, RepairedInv
<1>3. CASE b \notin unsaved
  BY <1>3 DEF ProgramsInv, DiskInv, DiskAgrees
<1>4. CASE b \in unsaved
  <2>1. PICK h, r, T : h = saved.inode /\ Complete(h, r, T, mft)
    BY <1>2 DEF ProgramsInv, DiskInv, SavedInv
  <2>2. PICK w : Places(h, mft, w)
    BY <2>1, FileHasPlaces DEF Complete
  <2>3. bat[b] = 0 /\ Unheld(h, b)
    BY <1>2, <1>4, <2>1 DEF Repaired
  <2>4. NoEntry(mft, b)
    BY <2>2, <2>3 DEF Places, NoEntry, Unheld, BlocksIn
  <2>5. QED
    BY <2>3, <2>4, AgreesIs
<1>5. QED
  BY <1>3, <1>4

\* delete_file frees the blocks in the table on disk at once (inode.c:216), and
\* del_fs writes the inodes only at its end (del_fs.c:177): a del_fs that is
\* killed leaves inodes on disk with blocks that are no longer theirs.  Those
\* are files that del_fs deletes, and nobody is given a block before a disk is
\* made anew.  So the next one finds the same files again, in a tree with the
\* same paths, deletes them, and when it ends the two files agree on every
\* block, however many were killed before it.  If one was killed in the middle
\* of a write of the table (allocation.c:82-97) there is no table, and none
\* ends: each dies when it prints it (allocation.c:187-195).
THEOREM RerunRepairsHolds == ProgramsSpec => []RerunRepairs
<1>1. ProgramsInit => TableInv /\ RepairInv
  BY InitRepair DEF ProgramsInit, DiskInit, NoProcess, TableInv
<1>2. ProgramsInv /\ (TableInv /\ RepairInv) /\ [ProgramsNext]_programVars
         => (TableInv /\ RepairInv)'
  BY NextTable, NextRepair
<1>3. ProgramsInv /\ TableInv /\ RepairInv => RerunRepairs
  BY Repairs
<1>4. QED
  BY <1>1, <1>2, <1>3, ProgramsInvHolds, PTL DEF ProgramsSpec

===============================================================================
