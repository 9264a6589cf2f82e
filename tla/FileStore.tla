------------------------------ MODULE FileStore -----------------------------
(***************************************************************************)
(* One file of the guest under the operations that go through the          *)
(* appliance: the host's chunked read_file_all and write_file_all          *)
(* (host/axiom/vm.py) on the handlers of ReadFile and WriteFile, and the   *)
(* patch of a symbol through the server's fixed buffers                    *)
(* (include/axiom/server.hpp, ast.hpp).  Processes in the guest change the *)
(* file meanwhile.                                                         *)
(*                                                                         *)
(* The file is a sequence of units, each the text of the symbol that is    *)
(* patched, or other text.                                                 *)
(***************************************************************************)
EXTENDS Integers, Sequences, SequencesExt

CONSTANTS Text,      \* units other than the symbol
          Symbol,    \* the unit that defines the symbol
          Cap,       \* AST_FILE_BUFFER_CAPACITY
          Chunk,     \* chunk_size of write_file_all
          SizeMod,   \* 2^32: sizes are answered as uint32_t
          MaxLen,    \* bound: length of what is written
          MaxOps,    \* bound: operations
          MaxChanges \* bound: changes made by processes

ASSUME FileAssumption ==
  /\ Symbol \notin Text
  /\ "nofile" \notin Text \cup {Symbol}
  /\ {Cap, Chunk, SizeMod} \subseteq Nat \ {0} /\ {MaxLen, MaxOps, MaxChanges} \subseteq Nat

Unit == Text \cup {Symbol}
Contents == UNION {[1..n -> Unit] : n \in 0..MaxLen}
NoFile == <<"nofile">>   \* no content: FileAssumption keeps its unit out of Unit

VARIABLES
  file,     \* its content, or NoFile
  at,       \* "idle", "write", "read", "patch", "replace", "done", "failed"
  op,       \* the operation under way, or that has ended
  arg,      \* what is to be written, or the replacement
  data,     \* what was read, or what the patch has put together
  sent,     \* units of arg written so far
  total,    \* total_size of the first answer to a read
  ops, changes,
  origin,   \* history: the file when the operation began
  versions, \* history: that, and what other processes have made of it since
  disturbed,\* history: another process has changed it since
  erred     \* history: a part of the file, or its size, could not be read

fileVars == <<file, at, op, arg, data, sent, total, ops, changes, origin, versions, disturbed, erred>>

FileInit ==
  /\ file \in Contents \cup {NoFile}
  /\ at = "idle" /\ op = "none" /\ arg = <<>> /\ data = <<>> /\ sent = 0 /\ total = 0
  /\ ops = 0 /\ changes = 0
  /\ origin = file /\ versions = {file} /\ disturbed = FALSE /\ erred = FALSE

Shorter(n, m) == IF n < m THEN n ELSE m

Start(what, a) ==
  /\ at \in {"idle", "done", "failed"} /\ ops < MaxOps
  /\ ops' = ops + 1
  /\ at' = what /\ op' = what /\ arg' = a
  /\ data' = <<>> /\ sent' = 0 /\ total' = 0
  /\ origin' = file /\ versions' = {file} /\ disturbed' = FALSE /\ erred' = FALSE
  /\ UNCHANGED <<file, changes>>

\* Another process replaces, extends or removes the file.
Change ==
  /\ changes < MaxChanges
  /\ changes' = changes + 1
  /\ \E c \in Contents \cup {NoFile} : c # file /\ file' = c /\ versions' = versions \cup {c}
  /\ disturbed' = TRUE
  /\ UNCHANGED <<at, op, arg, data, sent, total, ops, origin, erred>>

-----------------------------------------------------------------------------
(* write_file_all and handle_write_file. *)

WriteAll == \E c \in Contents : Start("write", c)

NextChunk == SubSeq(arg, sent + 1, Shorter(sent + Chunk, Len(arg)))

OpenedToAppend ==   \* mutant: no O_TRUNC for the first chunk
  IF file = NoFile THEN <<>> ELSE file
\* The first chunk truncates the file, the others append to it; either creates it.
Opened == IF sent = 0 \/ file = NoFile THEN <<>> ELSE file

WriteChunk ==
  /\ at = "write"
  /\ file' = Opened \o NextChunk
  /\ sent' = sent + Len(NextChunk)
  /\ at' = IF sent' = Len(arg) THEN "done" ELSE "write"
  /\ UNCHANGED <<op, arg, data, total, ops, changes, origin, versions, disturbed, erred>>

\* open fails, or the write after a part of the chunk; write_file_all raises, but
\* for an empty content it does not look at the status.
WriteFails ==
  /\ at = "write"
  /\ \/ UNCHANGED file
     \/ \E n \in 0..(Len(NextChunk) - 1) : file' = Opened \o SubSeq(NextChunk, 1, n)
  /\ at' = IF arg = <<>> THEN "done" ELSE "failed"
  /\ UNCHANGED <<op, arg, data, sent, total, ops, changes, origin, versions, disturbed, erred>>

-----------------------------------------------------------------------------
(* read_file_all and handle_read_file. *)

ReadAll == Start("read", <<>>)

PieceFromStart == SubSeq(file, 1, Shorter(Cap, Len(file)))   \* mutant: no lseek
\* What one read returns from where the data ends, at most a work buffer.
Piece == SubSeq(file, Len(data) + 1, Shorter(Len(data) + Cap, Len(file)))

\* The first answer fixes the size to be read, as far as 32 bits hold it; a file
\* that has gone, or has become too short, ends the loop without an error.
ReadChunk ==
  /\ at = "read"
  /\ IF file = NoFile
     THEN at' = (IF data = <<>> THEN "failed" ELSE "done") /\ UNCHANGED <<data, total>>
     ELSE /\ total' = IF data = <<>> THEN Len(file) % SizeMod ELSE total
          /\ data' = data \o Piece
          /\ at' = IF Piece = <<>> \/ Len(data') >= total' THEN "done" ELSE "read"
  /\ UNCHANGED <<file, op, arg, sent, ops, changes, origin, versions, disturbed, erred>>

\* fstat fails: the size is answered as 0, and one piece is all that is read.
SizeFails ==
  /\ at = "read" /\ data = <<>> /\ file # NoFile
  /\ data' = Piece
  /\ at' = "done" /\ erred' = TRUE
  /\ UNCHANGED <<file, op, arg, sent, total, ops, changes, origin, versions, disturbed>>

\* Only the first error is raised.
ReadFails ==
  /\ at = "read"
  /\ at' = IF data = <<>> THEN "failed" ELSE "done"
  /\ erred' = TRUE
  /\ UNCHANGED <<file, op, arg, data, sent, total, ops, changes, origin, versions, disturbed>>

-----------------------------------------------------------------------------
(* handle_ast_patch: read_file, AstEngine::patch_symbol, write_file. *)

Patch == \E r \in Contents : Start("patch", r)

Replaced(source, r) ==
  LET i == CHOOSE j \in 1..Len(source) : source[j] = Symbol /\ \A k \in 1..(j - 1) : source[k] # Symbol
  IN SubSeq(source, 1, i - 1) \o r \o SubSeq(source, i + 1, Len(source))

\* The symbol is found, and the result fits the work buffer.
Patchable(source, r) ==
  Symbol \in ToSet(source) /\ Len(source) - 1 + Len(r) <= Cap

\* read_file stops when its buffer is full.
PatchRead ==
  /\ at = "patch"
  /\ LET source == IF file = NoFile THEN <<>> ELSE SubSeq(file, 1, Shorter(Cap, Len(file)))
     IN IF file # NoFile /\ Patchable(source, arg)
        THEN at' = "replace" /\ data' = Replaced(source, arg)
        ELSE at' = "failed" /\ UNCHANGED data
  /\ UNCHANGED <<file, op, arg, sent, total, ops, changes, origin, versions, disturbed, erred>>

\* write_file truncates the file and then writes what there is of it,
PatchTruncate ==
  /\ at = "replace" /\ sent = 0
  /\ file' = <<>>
  /\ sent' = 1
  /\ UNCHANGED <<at, op, arg, data, total, ops, changes, origin, versions, disturbed, erred>>

\* over what has come into the file since, unless its name is now another's
Overwrite(content) ==
  \/ file # NoFile /\ file' = content \o SubSeq(file, Len(content) + 1, Len(file))
  \/ file # <<>> /\ UNCHANGED file

PatchOneUnit ==   \* mutant: write is called once
  /\ at = "replace" /\ sent = 1
  /\ Overwrite(SubSeq(data, 1, Shorter(1, Len(data))))
  /\ at' = "done"
  /\ UNCHANGED <<op, arg, data, sent, total, ops, changes, origin, versions, disturbed, erred>>

PatchWrite ==
  /\ at = "replace" /\ sent = 1
  /\ Overwrite(data)
  /\ at' = "done"
  /\ UNCHANGED <<op, arg, data, sent, total, ops, changes, origin, versions, disturbed, erred>>

\* unless open fails, or a write after a part.
PatchFails ==
  /\ at = "replace"
  /\ \/ sent = 0 /\ UNCHANGED file
     \/ sent = 1 /\ \E n \in 0..(Len(data) - 1) : Overwrite(SubSeq(data, 1, n))
  /\ at' = "failed"
  /\ UNCHANGED <<op, arg, data, sent, total, ops, changes, origin, versions, disturbed, erred>>

-----------------------------------------------------------------------------
Rest == at \in {"idle", "done", "failed"} /\ UNCHANGED fileVars

FileNext ==
  \/ Change \/ WriteAll \/ ReadAll \/ Patch
  \/ WriteChunk \/ WriteFails \/ ReadChunk \/ SizeFails \/ ReadFails
  \/ PatchRead \/ PatchTruncate \/ PatchWrite \/ PatchFails \/ Rest

FileSpec == FileInit /\ [][FileNext]_fileVars

-----------------------------------------------------------------------------
FileTypeOK ==
  /\ file \in Seq(Unit) \cup {NoFile}
  /\ at \in {"idle", "write", "read", "patch", "replace", "done", "failed"}
  /\ op \in {"none", "write", "read", "patch"}
  /\ arg \in Contents /\ data \in Seq(Unit)
  /\ at = "write" => sent <= Len(arg) /\ Len(NextChunk) <= Chunk
  /\ at = "replace" => Len(data) <= Cap

Ended(what) == op = what /\ at = "done" /\ ~disturbed

\* Without errors and other writers, the pieces of a file that is longer than
\* the server's buffer make up the file, if 32 bits hold its size.
ReadAllWhole == Ended("read") /\ ~erred /\ Len(origin) < SizeMod => data = origin

\* Without other writers the chunks make up what was to be written, whatever was
\* there before, but for an empty content, which may have left the old file; a write
\* that raises leaves the old file or a beginning of the new.
WriteAllWhole ==
  /\ Ended("write") => file = arg \/ (arg = <<>> /\ file = origin)
  /\ op = "write" /\ at = "failed" /\ ~disturbed => file = origin \/ IsPrefix(file, arg)

\* A patch replaces the symbol and nothing else, in a file that the buffer holds.
PatchedInPlace ==
  Ended("patch") /\ Len(origin) <= Cap => file = Replaced(origin, arg)

\* "Replaces a symbol definition atomically" (README.md:86): the definition and
\* nothing else,
PatchOnlySymbol == Ended("patch") => file = Replaced(origin, arg)

\* and at once: no one sees a third content.
PatchAtomic ==
  op = "patch" /\ ~disturbed =>
    file = origin \/ (at \in {"replace", "done"} /\ file = data)

\* "Reads complete file content from appliance across chunk boundaries."
\* (host/axiom/vm.py:423): what is returned without an error is the file,
ReadAllComplete == Ended("read") => data = origin

\* also one that is longer,
ReadAllOfAnySize == Ended("read") /\ ~erred => data = origin

\* and one file, also when another process writes it.
ReadsOneVersion == op = "read" /\ at = "done" /\ ~erred => data \in versions

\* "Writes arbitrary-length content to guest file using chunked appends."
\* (host/axiom/vm.py:442): what it returns from without an error is written.
WriteAllReported == Ended("write") => file = arg

=============================================================================
