--------------------------------- MODULE Pipe ----------------------------------
(*****************************************************************************)
(* pipfork.c: a parent reads lines from the keyboard and writes them to a    *)
(* pipe, its child reads the pipe and prints.  Both leave their loops when   *)
(* what they have in their buffer is "q".  The pipe keeps bytes, not         *)
(* messages: what a read returns may be several lines, or a part of one.     *)
(*                                                                           *)
(* Simplifications: the pipe does not fill up; read, pipe and fork do not    *)
(* fail; the keyboard sends no zero bytes.  When fgets has found the end of  *)
(* the input the parent cuts its message by one at every round; on an empty  *)
(* message it writes in front of the array, which no variable of the loop    *)
(* is told from.                                                             *)
(*                                                                           *)
(* A definition named Mutant... is a plausible bug: what the definition that *)
(* follows it would be if the code were wrong.                               *)
(*****************************************************************************)
EXTENDS Integers, Sequences

CONSTANTS
    Chars,    \* the characters, "newline" among them
    Lines,    \* lines the user may type, without the newline
    BUFSIZE,  \* of both buffers, 255 in the source
    MaxLines  \* bound on the lines typed

ASSUME PipeAssumption ==
    /\ "newline" \in Chars
    /\ Lines \subseteq Seq(Chars)
    /\ BUFSIZE \in Nat /\ BUFSIZE > 2
    /\ MaxLines \in Nat

VARIABLES
    typed,   \* lines typed so far
    ahead,   \* what fgets has left of the line it read last
    eof,     \* the end of the input has been typed
    msg,     \* the parent's buffer
    parent,  \* what the parent does: "fgets", "write", "done", "killed"
    pipe,    \* the bytes written and not yet read
    chunks,  \* what the child has printed, a sequence for each read
    child    \* what the child does: "read", "close", "done"

pipeVars == <<typed, ahead, eof, msg, parent, pipe, chunks, child>>

PipeInit ==
    /\ typed = 0 /\ ahead = <<>> /\ eof = FALSE
    /\ msg = <<>> /\ parent = "fgets"
    /\ pipe = <<>>
    /\ chunks = <<>> /\ child = "read"

Lesser(x, y) == IF x < y THEN x ELSE y

Upto(s, n) == SubSeq(s, 1, Lesser(Len(s), n))
After(s, n) == SubSeq(s, n + 1, Len(s))

\* msg[strlen(msg) - 1] = 0.
CutLast(s) == Upto(s, Len(s) - 1)

IsQuit(s) == s = <<"q">>

-------------------------------------------------------------------------------
(* parent_main *)

\* fgets takes at most BUFSIZE - 1 characters of a line with its newline, and
\* the last one it got is cut, newline or not.
FromLine(text) ==
    /\ msg' = CutLast(Upto(text, BUFSIZE - 1))
    /\ ahead' = After(text, BUFSIZE - 1)

FgetsLine ==
    /\ parent = "fgets" /\ ahead = <<>> /\ ~eof
    /\ typed < MaxLines /\ typed' = typed + 1
    /\ \E line \in Lines : FromLine(Append(line, "newline"))
    /\ parent' = "write"
    /\ UNCHANGED <<eof, pipe, chunks, child>>

FgetsAhead ==
    /\ parent = "fgets" /\ ahead # <<>>
    /\ FromLine(ahead)
    /\ parent' = "write"
    /\ UNCHANGED <<typed, eof, pipe, chunks, child>>

\* The buffer keeps its last line, and is cut again.
FgetsEof ==
    /\ parent = "fgets" /\ ahead = <<>>
    /\ eof' = TRUE
    /\ msg' = CutLast(msg)
    /\ parent' = "write"
    /\ UNCHANGED <<typed, ahead, pipe, chunks, child>>

\* A write succeeds as long as the child has not closed its end, even if it has
\* left its loop.
Write ==
    /\ parent = "write"
    /\ child # "done" \/ msg = <<>>
    /\ pipe' = pipe \o msg
    /\ parent' = IF IsQuit(msg) THEN "done" ELSE "fgets"
    /\ UNCHANGED <<typed, ahead, eof, msg, chunks, child>>

\* SIGPIPE: nobody can read it.
WriteKills ==
    /\ parent = "write"
    /\ child = "done" /\ msg # <<>>
    /\ parent' = "killed"
    /\ UNCHANGED <<typed, ahead, eof, msg, pipe, chunks, child>>

-------------------------------------------------------------------------------
(* child_main *)

\* Only the last character of what was read is compared.
MutantEndsChild(chunk) == chunk[Len(chunk)] = "q"

EndsChild(chunk) == IsQuit(chunk)

\* The size of the read is that of a line.
MutantChunk == Upto(pipe, BUFSIZE - 2)

\* read returns what there is, at most BUFSIZE - 1 bytes.
Chunk == Upto(pipe, BUFSIZE - 1)

ReadChunk ==
    /\ child = "read" /\ pipe # <<>>
    /\ chunks' = Append(chunks, Chunk)
    /\ pipe' = After(pipe, Len(Chunk))
    /\ child' = IF EndsChild(Chunk) THEN "close" ELSE "read"
    /\ UNCHANGED <<typed, ahead, eof, msg, parent>>

\* Behind its loop the child closes the pipe.
CloseRead ==
    /\ child = "close" /\ child' = "done"
    /\ UNCHANGED <<typed, ahead, eof, msg, parent, pipe, chunks>>

\* The writer is gone and the pipe is empty: read returns 0 at once, the child
\* prints an empty message and reads again, for ever.
ReadNothing ==
    /\ child = "read" /\ pipe = <<>> /\ parent \in {"done", "killed"}
    /\ UNCHANGED pipeVars

PipeNext ==
    \/ FgetsLine \/ FgetsAhead \/ FgetsEof \/ Write \/ WriteKills
    \/ ReadChunk \/ ReadNothing \/ CloseRead

\* Both processes run; the user may type or not.
PipeFairness ==
    WF_pipeVars(Write \/ WriteKills \/ FgetsAhead) /\ WF_pipeVars(ReadChunk \/ CloseRead)

PipeSpec == PipeInit /\ [][PipeNext]_pipeVars /\ PipeFairness

-------------------------------------------------------------------------------
(* Properties *)

\* Writes of fewer than BUFSIZE bytes are not split by the pipe: the child
\* leaves before its parent has written the line "q" only if it has just read
\* as much as its buffer holds, and the one byte behind that was a q.
EarlyEnd ==
    child # "read" /\ parent # "done" =>
        Len(chunks) > 1 /\ Len(chunks[Len(chunks) - 1]) = BUFSIZE - 1

\* A parent that has left its loop ends its child, if the child still runs, if
\* and only if the "q" is the first byte of what the child reads last.
ChildEnds ==
    /\ parent = "done" /\ child = "read" /\ Len(pipe) % (BUFSIZE - 1) = 1
          ~> child = "done"
    /\ [](parent = "done" /\ child = "read" /\ Len(pipe) % (BUFSIZE - 1) # 1
          => [](child = "read"))

===============================================================================
