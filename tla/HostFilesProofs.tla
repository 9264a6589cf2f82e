---------------------------- MODULE HostFilesProofs ---------------------------
(***************************************************************************)
(* TLAPS proofs about the files that the host reads, writes and shares     *)
(* with the guest.                                                         *)
(*                                                                         *)
(* FileStore, for every content, every size of buffer and chunk, and any   *)
(* number of operations and of changes by others: what the host reads,     *)
(* writes and patches piece by piece is whole as long as no one else       *)
(* changes the file.  Each operation needs its own strengthening: what has *)
(* been read is a beginning of the file (Reading), what is on the disk a   *)
(* beginning of what is to be written (Writing), and what will be written  *)
(* back the file it came from (Patching).                                  *)
(*                                                                         *)
(* MountSync, for every set of mounted files, every size of snapshot and   *)
(* of difference, and any number of commands, changes and faults: changes  *)
(* of the command reach the host, and nothing else is removed there.  The  *)
(* invariant says that a write is younger than what the command was        *)
(* started with (World, CallTypes), that a touched file has gone or is not *)
(* what it was (Commanded), and that each file that has changed is still   *)
(* named by a line or is on the host (Pulling).                            *)
(***************************************************************************)
EXTENDS FileStore, MountSync, SequenceTheorems, FiniteSetTheorems, WellFoundedInduction, TLAPS

-----------------------------------------------------------------------------
(* One file: FileStore. *)

Typed ==
  /\ FileTypeOK
  /\ sent \in Nat /\ total \in Nat /\ disturbed \in BOOLEAN /\ erred \in BOOLEAN
  /\ origin \in Seq(Unit) \cup {NoFile}
  /\ at = "idle" => op = "none"
  /\ at \in {"write", "read", "patch"} => op = at
  /\ at = "replace" => op = "patch"

Reading ==
  op = "read" /\ ~disturbed /\ ~erred /\ Len(origin) < SizeMod =>
    /\ file = origin
    /\ at = "read" => IF file = NoFile THEN data = <<>>
                      ELSE /\ Len(data) <= Len(file) /\ data = SubSeq(file, 1, Len(data))
                           /\ data # <<>> => total = Len(file)
    /\ at = "done" => data = origin

Writing ==
  op = "write" /\ ~disturbed =>
    /\ at = "write" => file = IF sent = 0 THEN origin ELSE SubSeq(arg, 1, sent)
    /\ at = "done" => file = arg \/ (arg = <<>> /\ file = origin)
    /\ at = "failed" => file = origin \/ IsPrefix(file, arg)

Patching ==
  op = "patch" =>
    /\ at = "patch" => sent = 0
    /\ at = "replace" => sent \in {0, 1}
    /\ ~disturbed =>
         /\ at = "patch" => file = origin
         /\ at = "replace" => /\ file = IF sent = 0 THEN origin ELSE <<>>
                              /\ Len(origin) <= Cap => data = Replaced(origin, arg)
         /\ at = "done" /\ Len(origin) <= Cap => file = Replaced(origin, arg)

FileInv == Typed /\ Reading /\ Writing /\ Patching

-----------------------------------------------------------------------------
(* Contents and their parts. *)

LEMMA ContentIsSeq == Contents \subseteq Seq(Unit)
BY DEF Contents

LEMMA EmptyContent == <<>> \in Contents
<1>1. <<>> \in [1..0 -> Unit]
  BY EmptySeq, LenProperties
<1>2. 0 \in 0..MaxLen
  BY FileAssumption
<1>. QED  BY <1>1, <1>2 DEF Contents

LEMMA NoFileIsNone == ASSUME NEW c \in Seq(Unit) PROVE c # NoFile
<1>1. SUFFICES ASSUME c = NoFile PROVE FALSE
  OBVIOUS
<1>2. Len(c) = 1 /\ c[1] = "nofile"
  BY <1>1 DEF NoFile
<1>3. c[1] \in Unit
  <2>1. 1 \in 1..Len(c)
    BY <1>2
  <2>. QED  BY <2>1, ElementOfSeq
<1>. QED  BY <1>2, <1>3, FileAssumption DEF Unit

LEMMA Part ==
  ASSUME NEW s \in Seq(Unit), NEW m \in Nat \ {0}, NEW n \in 0..Len(s)
  PROVE  /\ SubSeq(s, m, n) \in Seq(Unit)
         /\ Len(SubSeq(s, m, n)) = IF m <= n THEN n - m + 1 ELSE 0
<1>1. Len(s) \in Nat /\ \A k \in 1..Len(s) : s[k] \in Unit
  BY ElementOfSeq, LenProperties
<1>2. \A k \in m..n : s[k] \in Unit
  BY <1>1
<1>. QED  BY <1>1, <1>2, SubSeqProperties

\* The next piece of at most w units, and the beginning it makes longer.
End(s, k, w) == Shorter(k + w, Len(s))
PieceAt(s, k, w) == SubSeq(s, k + 1, End(s, k, w))

LEMMA Piecewise ==
  ASSUME NEW s \in Seq(Unit), NEW k \in 0..Len(s), NEW w \in Nat \ {0}
  PROVE  /\ End(s, k, w) \in k..Len(s) /\ End(s, k, w) <= k + w
         /\ End(s, k, w) = k => k = Len(s)
         /\ PieceAt(s, k, w) \in Seq(Unit) /\ Len(PieceAt(s, k, w)) = End(s, k, w) - k
         /\ PieceAt(s, k, w) = <<>> <=> End(s, k, w) = k
         /\ SubSeq(s, 1, k) \o PieceAt(s, k, w) = SubSeq(s, 1, End(s, k, w))
<1>. DEFINE n == End(s, k, w)
            piece == PieceAt(s, k, w)
<1>1. Len(s) \in Nat /\ k \in Nat /\ k <= Len(s) /\ w \in Nat /\ w > 0
  BY LenProperties
<1>2. n \in k..Len(s) /\ n <= k + w /\ (n = k => k = Len(s))
  BY <1>1 DEF Shorter, End
<1>. HIDE DEF n
<1>3. piece \in Seq(Unit) /\ Len(piece) = n - k
  <2>1. k + 1 \in Nat \ {0} /\ n \in 0..Len(s) /\ n \in Int /\ k \in Int /\ n >= k
    BY <1>1, <1>2
  <2>2. piece \in Seq(Unit) /\ Len(piece) = IF k + 1 <= n THEN n - (k + 1) + 1 ELSE 0
    BY <2>1, Part DEF PieceAt, n
  <2>. QED  BY <2>1, <2>2
<1>4. piece = <<>> <=> n = k
  <2>1. piece = <<>> <=> Len(piece) = 0
    BY <1>3, EmptySeq
  <2>. QED  BY <1>1, <1>2, <1>3, <2>1
<1>5. SubSeq(s, 1, k) \o piece = SubSeq(s, 1, n)
  <2>1. 1 \in 1..Len(s) + 1 /\ k \in 1 - 1..Len(s)
    BY <1>1
  <2>. QED  BY <1>2, <2>1, ConcatAdjacentSubSeq DEF PieceAt, n
<1>. QED  BY <1>2, <1>3, <1>4, <1>5 DEF n

LEMMA Beginnings ==
  ASSUME NEW s \in Seq(Unit), NEW n \in 0..Len(s)
  PROVE  /\ SubSeq(s, 1, n) \in Seq(Unit) /\ Len(SubSeq(s, 1, n)) = n
         /\ IsPrefix(SubSeq(s, 1, n), s)
         /\ SubSeq(s, 1, 0) = <<>> /\ SubSeq(s, 1, Len(s)) = s
<1>1. Len(s) \in Nat /\ n \in Int /\ n >= 0 /\ n <= Len(s)
  BY LenProperties
<1>2. SubSeq(s, 1, n) \in Seq(Unit) /\ Len(SubSeq(s, 1, n)) = n
  BY <1>1, Part
<1>3. SubSeq(SubSeq(s, 1, n), 1, n) = SubSeq(s, 1, n)
  BY <1>2, SubSeqFull
<1>. QED  BY <1>1, <1>2, <1>3, SubSeqEmpty, SubSeqFull DEF IsPrefix

LEMMA Beginning ==
  ASSUME NEW s \in Seq(Unit), NEW n \in 0..Len(s)
  PROVE  \A i \in 1..n : SubSeq(s, 1, n)[i] = s[i]
<1>1. /\ n \in Int /\ Len(s) \in Nat /\ \A i \in 1..n : s[i] \in Unit
  BY LenProperties, ElementOfSeq
<1>2. \A i \in 1..n - 1 + 1 : SubSeq(s, 1, n)[i] = s[1 + i - 1]
  BY <1>1, SubSeqProperties
<1>. QED  BY <1>1, <1>2

\* A part of the next piece makes the beginning longer, too.
LEMMA PartOfNext ==
  ASSUME NEW s \in Seq(Unit), NEW k \in 0..Len(s), NEW piece \in Seq(Unit), k + Len(piece) \in k..Len(s),
         SubSeq(s, 1, k) \o piece = SubSeq(s, 1, k + Len(piece)), NEW n \in 0..Len(piece)
  PROVE  SubSeq(s, 1, k) \o SubSeq(piece, 1, n) = SubSeq(s, 1, k + n)
<1>. DEFINE b == SubSeq(s, 1, k)
            c == SubSeq(piece, 1, n)
            w == SubSeq(s, 1, k + n)
<1>1. /\ Len(s) \in Nat /\ Len(piece) \in Nat /\ k \in Nat /\ n \in Nat /\ n <= Len(piece)
      /\ k + n \in 0..Len(s) /\ k + Len(piece) \in 0..Len(s)
  BY LenProperties
<1>2. /\ b \in Seq(Unit) /\ Len(b) = k /\ c \in Seq(Unit) /\ Len(c) = n /\ w \in Seq(Unit) /\ Len(w) = k + n
  BY <1>1, Beginnings
<1>3. \A i \in 1..(k + n) : w[i] = s[i]
  BY <1>1, Beginning
<1>4. \A i \in 1..n : c[i] = piece[i]
  BY <1>1, Beginning
<1>5. \A i \in 1..(k + Len(piece)) : (b \o piece)[i] = s[i]
  BY <1>1, Beginning
<1>6. \A i \in 1..(k + n) : (b \o c)[i] = s[i]
  <2>. SUFFICES ASSUME NEW i \in 1..(k + n) PROVE (b \o c)[i] = s[i]
    OBVIOUS
  <2>. HIDE DEF b, c, w
  <2>1. (b \o c)[i] = IF i <= k THEN b[i] ELSE c[i - k]
    BY <1>2, ConcatProperties
  <2>a. i \in 1..(k + Len(piece))
    BY <1>1
  <2>b. (b \o piece)[i] = IF i <= k THEN b[i] ELSE piece[i - k]
    BY <1>2, <2>a, ConcatProperties, SMTT(30)
  <2>2. ~(i <= k) => i - k \in 1..n
    BY <1>1
  <2>. QED  BY <1>4, <1>5, <2>1, <2>a, <2>b, <2>2
<1>7. b \o c \in Seq(Unit) /\ Len(b \o c) = k + n
  BY <1>2, ConcatProperties
<1>. HIDE DEF b, c, w
<1>8. b \o c = w
  BY <1>2, <1>3, <1>6, <1>7, SeqEqual
<1>. QED  BY <1>8 DEF b, c, w

\* What patch_symbol puts together: the first definition of the symbol is taken out,
\* the replacement stands in its place, everything else stays where it was.
LEMMA ReplacedUnit ==
  ASSUME NEW source \in Seq(Unit), NEW r \in Seq(Unit), Symbol \in ToSet(source)
  PROVE  /\ \E j \in 1..Len(source) :
               /\ source[j] = Symbol /\ \A k \in 1..(j - 1) : source[k] # Symbol
               /\ Replaced(source, r) = SubSeq(source, 1, j - 1) \o r \o SubSeq(source, j + 1, Len(source))
         /\ Replaced(source, r) \in Seq(Unit)
         /\ Len(Replaced(source, r)) = Len(source) - 1 + Len(r)
<1>. DEFINE Less == OpToRel(<, Nat)
            T == {j \in 1..Len(source) : source[j] = Symbol}
            First(j) == source[j] = Symbol /\ \A k \in 1..(j - 1) : source[k] # Symbol
<1>1. Len(source) \in Nat /\ DOMAIN source = 1..Len(source) /\ T \subseteq Nat
  BY LenProperties
<1>2. T # {}
  BY <1>1 DEF ToSet
<1>3. \A a, b \in Nat : a < b => <<a, b>> \in Less
  BY DEF OpToRel
<1>4. IsWellFoundedOn(Less, Nat)
  BY NatLessThanWellFounded
<1>. HIDE DEF Less
<1>5. PICK x \in T : \A y \in T : ~ (<<y, x>> \in Less)
  BY <1>1, <1>2, <1>4, WFMin
<1>6. x \in 1..Len(source) /\ First(x)
  <2>1. x \in 1..Len(source) /\ source[x] = Symbol
    OBVIOUS
  <2>2. ASSUME NEW k \in 1..(x - 1), source[k] = Symbol  PROVE FALSE
    <3>1. k \in 1..Len(source) /\ k \in Nat /\ x \in Nat /\ k < x
      BY <1>1, <2>1
    <3>. QED  BY <1>3, <1>5, <2>2, <3>1
  <2>. QED  BY <2>1, <2>2
<1>. DEFINE i == CHOOSE j \in 1..Len(source) : First(j)
<1>7. i \in 1..Len(source) /\ First(i)
  BY <1>6
<1>. HIDE DEF i
<1>8. Replaced(source, r) = SubSeq(source, 1, i - 1) \o r \o SubSeq(source, i + 1, Len(source))
  BY DEF Replaced, i
<1>9. /\ SubSeq(source, 1, i - 1) \in Seq(Unit) /\ Len(SubSeq(source, 1, i - 1)) = i - 1
      /\ SubSeq(source, i + 1, Len(source)) \in Seq(Unit)
      /\ Len(SubSeq(source, i + 1, Len(source))) = Len(source) - i
  <2>1. i \in Int /\ 1 <= i /\ i <= Len(source)
    BY <1>1, <1>7
  <2>2. /\ i - 1 \in 0..Len(source) /\ i + 1 \in Nat \ {0} /\ Len(source) \in 0..Len(source)
    BY <1>1, <2>1
  <2>3. /\ SubSeq(source, 1, i - 1) \in Seq(Unit)
        /\ Len(SubSeq(source, 1, i - 1)) = IF 1 <= i - 1 THEN i - 1 - 1 + 1 ELSE 0
    BY <2>2, Part
  <2>4. /\ SubSeq(source, i + 1, Len(source)) \in Seq(Unit)
        /\ Len(SubSeq(source, i + 1, Len(source))) = IF i + 1 <= Len(source) THEN Len(source) - (i + 1) + 1 ELSE 0
    BY <2>2, Part
  <2>5. Len(source) \in Int
    BY <1>1
  <2>6. /\ (IF 1 <= i - 1 THEN i - 1 - 1 + 1 ELSE 0) = i - 1
        /\ (IF i + 1 <= Len(source) THEN Len(source) - (i + 1) + 1 ELSE 0) = Len(source) - i
    BY <2>1, <2>5
  <2>. QED  BY <2>3, <2>4, <2>6
<1>10. /\ Replaced(source, r) \in Seq(Unit)
       /\ Len(Replaced(source, r)) = (i - 1 + Len(r)) + (Len(source) - i)
  BY <1>8, <1>9, ConcatProperties
<1>11. Len(Replaced(source, r)) = Len(source) - 1 + Len(r)
  BY <1>1, <1>7, <1>10, LenProperties
<1>. QED  BY <1>7, <1>8, <1>10, <1>11

LEMMA InitialFile == FileInit => FileInv
<1>. SUFFICES ASSUME FileInit PROVE FileInv
  OBVIOUS
<1>1. file \in Seq(Unit) \cup {NoFile} /\ <<>> \in Contents
  BY ContentIsSeq, EmptyContent DEF FileInit
<1>2. Typed
  BY <1>1, EmptySeq DEF FileInit, Typed, FileTypeOK
<1>. QED  BY <1>2 DEF FileInit, FileInv, Reading, Writing, Patching

-----------------------------------------------------------------------------
(* The steps. *)

LEMMA StartKeeps ==
  ASSUME FileInv, NEW what \in {"write", "read", "patch"}, NEW a \in Contents, Start(what, a)
  PROVE  FileInv'
<1>1. /\ at' = what /\ op' = what /\ arg' = a /\ data' = <<>> /\ sent' = 0 /\ total' = 0
      /\ origin' = file /\ disturbed' = FALSE /\ erred' = FALSE /\ file' = file
  BY DEF Start
<1>2. /\ file \in Seq(Unit) \cup {NoFile} /\ a \in Seq(Unit) /\ Len(a) \in Nat
      /\ data' \in Seq(Unit)
  BY <1>1, ContentIsSeq, EmptySeq DEF FileInv, Typed, FileTypeOK
<1>3. at' = "write" => Len(NextChunk') <= Chunk
  <2>1. /\ sent' = 0 /\ 0 \in 0..Len(a) /\ Chunk \in Nat \ {0}
        /\ NextChunk' = PieceAt(a, 0, Chunk)
    BY <1>1, <1>2, FileAssumption DEF NextChunk, PieceAt, End
  <2>2. End(a, 0, Chunk) <= 0 + Chunk /\ Len(NextChunk') = End(a, 0, Chunk) - 0 /\ End(a, 0, Chunk) \in 0..Len(a)
    BY <1>2, <2>1, Piecewise
  <2>. QED  BY <2>1, <2>2
<1>4. Typed'
  <2>1. what \notin {"idle", "replace"} /\ sent' <= Len(arg')
    BY <1>1, <1>2
  <2>. QED  BY <1>1, <1>2, <1>3, <2>1 DEF Typed, FileTypeOK
<1>5. Reading' /\ Writing' /\ Patching'
  <2>1. file' # NoFile => Len(data') <= Len(file') /\ data' = SubSeq(file', 1, Len(data'))
    <3>1. SUFFICES ASSUME file \in Seq(Unit) PROVE Len(<<>>) <= Len(file) /\ <<>> = SubSeq(file, 1, Len(<<>>))
      BY <1>1, <1>2
    <3>2. Len(<<>>) = 0 /\ 0 \in 0..Len(file)
      BY EmptySeq, LenProperties
    <3>. QED  BY <3>2, Beginnings
  <2>. QED  BY <1>1, <2>1 DEF Reading, Writing, Patching
<1>. QED  BY <1>4, <1>5 DEF FileInv

\* The chunk that goes out next.
LEMMA ChunkFits ==
  ASSUME FileInv, at = "write"
  PROVE  /\ NextChunk \in Seq(Unit) /\ Len(NextChunk) \in Nat
         /\ sent + Len(NextChunk) \in sent..Len(arg)
         /\ SubSeq(arg, 1, sent) \o NextChunk = SubSeq(arg, 1, sent + Len(NextChunk))
         /\ arg \in Seq(Unit) /\ sent \in 0..Len(arg) /\ Opened \in Seq(Unit)
         /\ ~disturbed => Opened = SubSeq(arg, 1, sent)
         /\ op = "write"
<1>1. /\ arg \in Seq(Unit) /\ sent \in Nat /\ sent <= Len(arg) /\ Len(arg) \in Nat
      /\ Chunk \in Nat \ {0} /\ op = "write" /\ file \in Seq(Unit) \cup {NoFile}
  BY ContentIsSeq, LenProperties, FileAssumption DEF FileInv, Typed, FileTypeOK
<1>2. sent \in 0..Len(arg)
  BY <1>1
<1>. DEFINE n == End(arg, sent, Chunk)
<1>3. /\ n \in sent..Len(arg) /\ NextChunk \in Seq(Unit) /\ Len(NextChunk) = n - sent
      /\ SubSeq(arg, 1, sent) \o NextChunk = SubSeq(arg, 1, n)
  <2>1. NextChunk = PieceAt(arg, sent, Chunk)
    BY DEF NextChunk, PieceAt, End
  <2>2. PICK k \in 0..Len(arg) : k = sent
    BY <1>2
  <2>3. PICK w \in Nat \ {0} : w = Chunk
    BY <1>1
  <2>4. /\ End(arg, k, w) \in k..Len(arg)
        /\ PieceAt(arg, k, w) \in Seq(Unit) /\ Len(PieceAt(arg, k, w)) = End(arg, k, w) - k
        /\ SubSeq(arg, 1, k) \o PieceAt(arg, k, w) = SubSeq(arg, 1, End(arg, k, w))
    BY <1>1, Piecewise
  <2>. QED  BY <2>1, <2>2, <2>3, <2>4
<1>. HIDE DEF n
<1>4. sent + Len(NextChunk) = n /\ Len(NextChunk) \in Nat
  BY <1>1, <1>3
<1>5. Opened \in Seq(Unit)
  BY <1>1, EmptySeq DEF Opened
<1>6. ~disturbed => Opened = SubSeq(arg, 1, sent)
  <2>1. SUFFICES ASSUME ~disturbed PROVE Opened = SubSeq(arg, 1, sent)
    OBVIOUS
  <2>2. file = IF sent = 0 THEN origin ELSE SubSeq(arg, 1, sent)
    BY <1>1, <2>1 DEF FileInv, Writing
  <2>3. SubSeq(arg, 1, sent) \in Seq(Unit) /\ SubSeq(arg, 1, 0) = <<>>
    BY <1>1, <1>2, Beginnings
  <2>. QED  BY <2>2, <2>3, NoFileIsNone DEF Opened
<1>. QED  BY <1>1, <1>2, <1>3, <1>4, <1>5, <1>6

LEMMA WriteChunkKeeps ==
  ASSUME FileInv, WriteChunk
  PROVE  FileInv'
<1>. DEFINE n == sent + Len(NextChunk)
<1>1. /\ at = "write" /\ file' = Opened \o NextChunk /\ sent' = n
      /\ at' = (IF n = Len(arg) THEN "done" ELSE "write")
      /\ UNCHANGED <<op, arg, data, total, ops, changes, origin, versions, disturbed, erred>>
  BY DEF WriteChunk
<1>2. /\ NextChunk \in Seq(Unit) /\ Len(NextChunk) \in Nat /\ n \in sent..Len(arg)
      /\ SubSeq(arg, 1, sent) \o NextChunk = SubSeq(arg, 1, n)
      /\ arg \in Seq(Unit) /\ sent \in 0..Len(arg) /\ Opened \in Seq(Unit)
      /\ ~disturbed => Opened = SubSeq(arg, 1, sent)
      /\ op = "write"
  BY <1>1, ChunkFits
<1>. HIDE DEF n
<1>3. n \in 0..Len(arg) /\ Len(arg) \in Nat /\ n \in Nat /\ Chunk \in Nat \ {0}
  BY <1>2, LenProperties, FileAssumption
<1>4. Len(NextChunk') <= Chunk
  <2>1. NextChunk' = PieceAt(arg, n, Chunk)
    BY <1>1 DEF NextChunk, PieceAt, End
  <2>2. /\ End(arg, n, Chunk) \in n..Len(arg) /\ End(arg, n, Chunk) <= n + Chunk
        /\ Len(NextChunk') = End(arg, n, Chunk) - n
    BY <1>2, <1>3, <2>1, Piecewise
  <2>. QED  BY <1>3, <2>2
<1>5. file' \in Seq(Unit)
  BY <1>1, <1>2, ConcatProperties
<1>6. Typed'
  <2>1. at' = "write" => sent' <= Len(arg')
    BY <1>1, <1>3
  <2>2. at' \in {"write", "done"} /\ op' = "write"
    BY <1>1, <1>2
  <2>. QED  BY <1>1, <1>2, <1>3, <1>4, <1>5, <2>1, <2>2 DEF FileInv, Typed, FileTypeOK
<1>7. Writing'
  <2>1. SUFFICES ASSUME ~disturbed
                 PROVE  /\ at' = "write" => file' = IF sent' = 0 THEN origin ELSE SubSeq(arg, 1, sent')
                        /\ at' = "done" => file' = arg
                        /\ at' # "failed"
    BY <1>1 DEF Writing
  <2>2. file' = SubSeq(arg, 1, n)
    BY <1>1, <1>2, <2>1
  <2>3. SubSeq(arg, 1, Len(arg)) = arg
    BY <1>2, <1>3, Beginnings
  <2>4. sent' = 0 => n = Len(arg)
    <3>1. SUFFICES ASSUME n = 0 PROVE n = Len(arg)
      BY <1>1
    <3>2. sent = 0 /\ Len(NextChunk) = 0
      BY <1>2, <3>1 DEF n
    <3>3. NextChunk = PieceAt(arg, 0, Chunk) /\ 0 \in 0..Len(arg)
      BY <1>3, <3>2 DEF NextChunk, PieceAt, End
    <3>4. /\ End(arg, 0, Chunk) = 0 => 0 = Len(arg)
          /\ Len(NextChunk) = End(arg, 0, Chunk) - 0
          /\ End(arg, 0, Chunk) \in 0..Len(arg)
      BY <1>2, <1>3, <3>3, Piecewise
    <3>. QED  BY <1>3, <3>1, <3>2, <3>4
  <2>. QED  BY <1>1, <2>2, <2>3, <2>4
<1>8. Reading' /\ Patching'
  BY <1>1, <1>2 DEF Reading, Patching
<1>. QED  BY <1>6, <1>7, <1>8 DEF FileInv

LEMMA WriteFailsKeeps ==
  ASSUME FileInv, WriteFails
  PROVE  FileInv'
<1>1. /\ at = "write" /\ at' = IF arg = <<>> THEN "done" ELSE "failed"
      /\ UNCHANGED <<op, arg, data, sent, total, ops, changes, origin, versions, disturbed, erred>>
      /\ \/ file' = file
         \/ \E n \in 0..(Len(NextChunk) - 1) : file' = Opened \o SubSeq(NextChunk, 1, n)
  BY DEF WriteFails
<1>2. /\ NextChunk \in Seq(Unit) /\ Len(NextChunk) \in Nat /\ sent + Len(NextChunk) \in sent..Len(arg)
      /\ SubSeq(arg, 1, sent) \o NextChunk = SubSeq(arg, 1, sent + Len(NextChunk))
      /\ arg \in Seq(Unit) /\ sent \in 0..Len(arg) /\ Opened \in Seq(Unit)
      /\ ~disturbed => Opened = SubSeq(arg, 1, sent)
      /\ op = "write"
  BY <1>1, ChunkFits
<1>3. file' \in Seq(Unit) \cup {NoFile} /\ (~disturbed => file' = origin \/ IsPrefix(file', arg))
  <2>1. CASE file' = file
    <3>1. file \in Seq(Unit) \cup {NoFile}
      BY DEF FileInv, Typed, FileTypeOK
    <3>2. ~disturbed => file = IF sent = 0 THEN origin ELSE SubSeq(arg, 1, sent)
      BY <1>1, <1>2 DEF FileInv, Writing
    <3>3. IsPrefix(SubSeq(arg, 1, sent), arg)
      BY <1>2, Beginnings
    <3>. QED  BY <2>1, <3>1, <3>2, <3>3
  <2>2. CASE \E n \in 0..(Len(NextChunk) - 1) : file' = Opened \o SubSeq(NextChunk, 1, n)
    <3>1. PICK n \in 0..(Len(NextChunk) - 1) : file' = Opened \o SubSeq(NextChunk, 1, n)
      BY <2>2
    <3>2. n \in 0..Len(NextChunk)
      BY <1>2
    <3>3. SubSeq(NextChunk, 1, n) \in Seq(Unit)
      BY <1>2, <3>2, Beginnings
    <3>4. file' \in Seq(Unit)
      BY <1>2, <3>1, <3>3, ConcatProperties
    <3>5. ASSUME ~disturbed PROVE IsPrefix(file', arg)
      <4>1. file' = SubSeq(arg, 1, sent) \o SubSeq(NextChunk, 1, n)
        BY <1>2, <3>1, <3>5
      <4>2. SubSeq(arg, 1, sent) \o SubSeq(NextChunk, 1, n) = SubSeq(arg, 1, sent + n)
        BY <1>2, <3>2, PartOfNext
      <4>3. sent + n \in 0..Len(arg)
        BY <1>2, LenProperties
      <4>. QED  BY <1>2, <4>1, <4>2, <4>3, Beginnings
    <3>. QED  BY <3>4, <3>5
  <2>. QED  BY <1>1, <2>1, <2>2
<1>4. Typed'
  BY <1>1, <1>2, <1>3 DEF FileInv, Typed, FileTypeOK
<1>5. Reading' /\ Patching'
  BY <1>1, <1>2 DEF Reading, Patching
<1>6. Writing'
  <2>1. CASE arg # <<>>
    BY <1>1, <1>2, <1>3, <2>1 DEF Writing
  <2>2. CASE arg = <<>>
    <3>1. Len(arg) = 0 /\ sent = 0 /\ Len(NextChunk) = 0
      BY <1>2, <2>2
    <3>2. file' = file
      BY <1>1, <3>1
    <3>. QED  BY <1>1, <1>2, <2>2, <3>1, <3>2 DEF FileInv, Writing
  <2>. QED  BY <2>1, <2>2
<1>. QED  BY <1>4, <1>5, <1>6 DEF FileInv

\* A size as it is answered.
LEMMA Size32 ==
  ASSUME NEW n \in Nat
  PROVE  n % SizeMod \in Nat /\ (n < SizeMod => n % SizeMod = n)
<1>1. SizeMod \in Nat \ {0}
  BY FileAssumption
<1>. QED  BY <1>1

LEMMA ReadChunkKeeps ==
  ASSUME FileInv, ReadChunk
  PROVE  FileInv'
<1>1. /\ at = "read" /\ op = "read" /\ data \in Seq(Unit) /\ Len(data) \in Nat /\ total \in Nat
      /\ UNCHANGED <<file, op, arg, sent, ops, changes, origin, versions, disturbed, erred>>
  BY LenProperties DEF FileInv, Typed, FileTypeOK, ReadChunk
<1>2. CASE file = NoFile
  <2>1. at' = (IF data = <<>> THEN "failed" ELSE "done") /\ UNCHANGED <<data, total>>
    BY <1>2 DEF ReadChunk
  <2>2. Typed'
    BY <1>1, <2>1 DEF FileInv, Typed, FileTypeOK
  <2>3. Reading' /\ Writing' /\ Patching'
    BY <1>1, <1>2, <2>1 DEF FileInv, Reading, Writing, Patching
  <2>. QED  BY <2>2, <2>3 DEF FileInv
<1>3. CASE file # NoFile
  <2>1. /\ total' = (IF data = <<>> THEN Len(file) % SizeMod ELSE total)
        /\ data' = data \o Piece
        /\ at' = (IF Piece = <<>> \/ Len(data') >= total' THEN "done" ELSE "read")
    BY <1>3 DEF ReadChunk
  <2>2. file \in Seq(Unit) /\ Len(file) \in Nat /\ Cap \in Nat \ {0}
    BY <1>3, LenProperties, FileAssumption DEF FileInv, Typed, FileTypeOK
  <2>3. Piece \in Seq(Unit)
    <3>1. Len(data) + 1 \in Nat \ {0} /\ Shorter(Len(data) + Cap, Len(file)) \in 0..Len(file)
      BY <1>1, <2>2 DEF Shorter
    <3>. QED  BY <2>2, <3>1, Part DEF Piece
  <2>4. data' \in Seq(Unit) /\ total' \in Nat
    <3>1. Len(file) % SizeMod \in Nat
      BY <2>2, Size32
    <3>. QED  BY <1>1, <2>1, <2>3, <3>1, ConcatProperties
  <2>5. Typed'
    BY <1>1, <2>1, <2>4 DEF FileInv, Typed, FileTypeOK
  <2>6. Reading'
    <3>1. SUFFICES ASSUME ~disturbed, ~erred, Len(origin) < SizeMod
                   PROVE  /\ file = origin
                          /\ Len(data') <= Len(file) /\ data' = SubSeq(file, 1, Len(data'))
                          /\ data' # <<>> => total' = Len(file)
                          /\ at' = "done" => data' = file
      BY <1>1, <1>3 DEF Reading
    <3>2. /\ file = origin /\ Len(data) <= Len(file) /\ data = SubSeq(file, 1, Len(data))
          /\ data # <<>> => total = Len(file)
      BY <1>1, <1>3, <3>1 DEF FileInv, Reading
    <3>3. Len(data) \in 0..Len(file) /\ total' = Len(file)
      <4>1. Len(file) % SizeMod = Len(file)
        BY <2>2, <3>1, <3>2, Size32
      <4>. QED  BY <1>1, <2>1, <2>2, <3>2, <4>1
    <3>. DEFINE n == End(file, Len(data), Cap)
    <3>4. Piece = PieceAt(file, Len(data), Cap)
      BY DEF Piece, PieceAt, End
    <3>5. /\ n \in Len(data)..Len(file) /\ (n = Len(data) => Len(data) = Len(file))
          /\ (Piece = <<>> <=> n = Len(data))
          /\ SubSeq(file, 1, Len(data)) \o Piece = SubSeq(file, 1, n)
      <4>1. /\ n \in Len(data)..Len(file) /\ (n = Len(data) => Len(data) = Len(file))
            /\ (PieceAt(file, Len(data), Cap) = <<>> <=> n = Len(data))
            /\ SubSeq(file, 1, Len(data)) \o PieceAt(file, Len(data), Cap) = SubSeq(file, 1, n)
        BY <2>2, <3>3, Piecewise
      <4>. QED  BY <3>4, <4>1
    <3>. HIDE DEF n
    <3>6. data' = SubSeq(file, 1, n) /\ n \in 0..Len(file)
      <4>1. data' = SubSeq(file, 1, n)
        BY <2>1, <3>2, <3>5
      <4>2. n \in 0..Len(file)
        BY <1>1, <2>2, <3>5
      <4>. QED  BY <4>1, <4>2
    <3>7. Len(data') = n /\ SubSeq(file, 1, Len(file)) = file
      BY <2>2, <3>6, Beginnings
    <3>8. at' = "done" => n = Len(file)
      BY <1>1, <2>1, <2>2, <3>3, <3>5, <3>7
    <3>. QED  BY <2>2, <3>2, <3>3, <3>6, <3>7, <3>8
  <2>. QED  BY <1>1, <2>5, <2>6 DEF FileInv, Writing, Patching
<1>. QED  BY <1>2, <1>3

LEMMA SizeFailsKeeps ==
  ASSUME FileInv, SizeFails
  PROVE  FileInv'
<1>1. /\ at = "read" /\ op = "read" /\ at' = "done" /\ erred' = TRUE /\ data' = Piece
      /\ file # NoFile /\ data = <<>>
      /\ UNCHANGED <<file, op, arg, sent, total, ops, changes, origin, versions, disturbed>>
  BY DEF FileInv, Typed, SizeFails
<1>2. data' \in Seq(Unit)
  <2>1. file \in Seq(Unit) /\ Len(file) \in Nat /\ Cap \in Nat \ {0} /\ Len(data) = 0
    BY <1>1, LenProperties, FileAssumption DEF FileInv, Typed, FileTypeOK
  <2>2. Len(data) + 1 \in Nat \ {0} /\ Shorter(Len(data) + Cap, Len(file)) \in 0..Len(file)
    BY <2>1 DEF Shorter
  <2>. QED  BY <1>1, <2>1, <2>2, Part DEF Piece
<1>3. Typed'
  BY <1>1, <1>2 DEF FileInv, Typed, FileTypeOK
<1>. QED  BY <1>1, <1>3 DEF FileInv, Reading, Writing, Patching

LEMMA ReadFailsKeeps ==
  ASSUME FileInv, ReadFails
  PROVE  FileInv'
<1>1. /\ at = "read" /\ op = "read" /\ at' \in {"failed", "done"} /\ erred' = TRUE
      /\ UNCHANGED <<file, op, arg, data, sent, total, ops, changes, origin, versions, disturbed>>
  BY DEF FileInv, Typed, ReadFails
<1>2. Typed'
  BY <1>1 DEF FileInv, Typed, FileTypeOK
<1>. QED  BY <1>1, <1>2 DEF FileInv, Reading, Writing, Patching

LEMMA PatchReadKeeps ==
  ASSUME FileInv, PatchRead
  PROVE  FileInv'
<1>. DEFINE source == IF file = NoFile THEN <<>> ELSE SubSeq(file, 1, Shorter(Cap, Len(file)))
<1>1. /\ at = "patch" /\ op = "patch" /\ arg \in Seq(Unit)
      /\ UNCHANGED <<file, op, arg, sent, total, ops, changes, origin, versions, disturbed, erred>>
  BY ContentIsSeq DEF FileInv, Typed, FileTypeOK, PatchRead
<1>2. CASE ~(file # NoFile /\ Patchable(source, arg))
  <2>1. at' = "failed" /\ UNCHANGED data
    BY <1>2 DEF PatchRead
  <2>2. Typed'
    BY <1>1, <2>1 DEF FileInv, Typed, FileTypeOK
  <2>. QED  BY <1>1, <2>1, <2>2 DEF FileInv, Reading, Writing, Patching
<1>3. CASE file # NoFile /\ Patchable(source, arg)
  <2>1. at' = "replace" /\ data' = Replaced(source, arg)
    BY <1>3 DEF PatchRead
  <2>2. file \in Seq(Unit) /\ Len(file) \in Nat /\ Cap \in Nat \ {0}
    BY <1>3, LenProperties, FileAssumption DEF FileInv, Typed, FileTypeOK
  <2>3. source = SubSeq(file, 1, Shorter(Cap, Len(file))) /\ Shorter(Cap, Len(file)) \in 0..Len(file)
        /\ (Len(file) <= Cap => Shorter(Cap, Len(file)) = Len(file))
    BY <1>3, <2>2 DEF Shorter
  <2>4. source \in Seq(Unit) /\ (Len(file) <= Cap => source = file)
    BY <2>2, <2>3, Beginnings
  <2>. HIDE DEF source
  <2>5. Symbol \in ToSet(source) /\ Len(source) - 1 + Len(arg) <= Cap
    BY <1>3 DEF Patchable
  <2>6. data' \in Seq(Unit) /\ Len(data') <= Cap
    BY <1>1, <2>1, <2>4, <2>5, ReplacedUnit
  <2>7. Typed'
    BY <1>1, <2>1, <2>6 DEF FileInv, Typed, FileTypeOK
  <2>8. sent = 0
    BY <1>1 DEF FileInv, Patching
  <2>9. Patching'
    BY <1>1, <2>1, <2>4, <2>8 DEF FileInv, Patching
  <2>. QED  BY <1>1, <2>7, <2>9 DEF FileInv, Reading, Writing
<1>. QED  BY <1>2, <1>3

LEMMA PatchTruncateKeeps ==
  ASSUME FileInv, PatchTruncate
  PROVE  FileInv'
<1>1. /\ at = "replace" /\ op = "patch" /\ file' = <<>> /\ sent' = 1
      /\ UNCHANGED <<at, op, arg, data, total, ops, changes, origin, versions, disturbed, erred>>
  BY DEF FileInv, Typed, PatchTruncate
<1>2. Typed'
  BY <1>1, EmptySeq DEF FileInv, Typed, FileTypeOK
<1>. QED  BY <1>1, <1>2 DEF FileInv, Reading, Writing, Patching

\* Writing over a file leaves a file, and on an empty one only what was written.
LEMMA OverwriteSound ==
  ASSUME file \in Seq(Unit) \cup {NoFile}, NEW content \in Seq(Unit), Overwrite(content)
  PROVE  file' \in Seq(Unit) \cup {NoFile} /\ (file = <<>> => file' = content)
<1>1. CASE file # NoFile /\ file' = content \o SubSeq(file, Len(content) + 1, Len(file))
  <2>1. file \in Seq(Unit) /\ Len(file) \in 0..Len(file) /\ Len(content) + 1 \in Nat \ {0}
    BY <1>1, LenProperties
  <2>2. SubSeq(file, Len(content) + 1, Len(file)) \in Seq(Unit)
    BY <2>1, Part
  <2>3. file = <<>> => SubSeq(file, Len(content) + 1, Len(file)) = <<>>
    <3>1. SUFFICES ASSUME file = <<>> PROVE SubSeq(file, Len(content) + 1, Len(file)) = <<>>
      OBVIOUS
    <3>2. Len(file) = 0 /\ Len(content) + 1 \in Int /\ 0 \in Int /\ 0 < Len(content) + 1
      BY <2>1, <3>1, EmptySeq
    <3>. QED  BY <3>2, SubSeqEmpty
  <2>. QED  BY <1>1, <2>2, <2>3, ConcatProperties, ConcatEmptySeq
<1>2. CASE file # <<>> /\ UNCHANGED file
  BY <1>2
<1>. QED  BY <1>1, <1>2 DEF Overwrite

LEMMA PatchWriteKeeps ==
  ASSUME FileInv, PatchWrite
  PROVE  FileInv'
<1>1. /\ at = "replace" /\ op = "patch" /\ at' = "done" /\ sent = 1 /\ Overwrite(data)
      /\ UNCHANGED <<op, arg, data, sent, total, ops, changes, origin, versions, disturbed, erred>>
  BY DEF FileInv, Typed, PatchWrite
<1>2. file' \in Seq(Unit) \cup {NoFile} /\ (file = <<>> => file' = data)
  <2>1. file \in Seq(Unit) \cup {NoFile} /\ data \in Seq(Unit)
    BY DEF FileInv, Typed, FileTypeOK
  <2>. QED  BY <1>1, <2>1, OverwriteSound
<1>3. Typed'
  BY <1>1, <1>2 DEF FileInv, Typed, FileTypeOK
<1>4. Patching'
  BY <1>1, <1>2 DEF FileInv, Patching
<1>. QED  BY <1>1, <1>3, <1>4 DEF FileInv, Reading, Writing

LEMMA PatchFailsKeeps ==
  ASSUME FileInv, PatchFails
  PROVE  FileInv'
<1>1. /\ at = "replace" /\ op = "patch" /\ at' = "failed" /\ data \in Seq(Unit) /\ Len(data) \in Nat
      /\ UNCHANGED <<op, arg, data, sent, total, ops, changes, origin, versions, disturbed, erred>>
      /\ file \in Seq(Unit) \cup {NoFile}
  BY LenProperties DEF FileInv, Typed, FileTypeOK, PatchFails
<1>2. file' \in Seq(Unit) \cup {NoFile}
  <2>1. CASE UNCHANGED file
    BY <1>1, <2>1
  <2>2. CASE \E n \in 0..(Len(data) - 1) : Overwrite(SubSeq(data, 1, n))
    <3>1. PICK n \in 0..(Len(data) - 1) : Overwrite(SubSeq(data, 1, n))
      BY <2>2
    <3>2. n \in 0..Len(data)
      BY <1>1
    <3>3. SubSeq(data, 1, n) \in Seq(Unit)
      BY <1>1, <3>2, Beginnings
    <3>. QED  BY <1>1, <3>1, <3>3, OverwriteSound
  <2>. QED  BY <2>1, <2>2 DEF PatchFails
<1>3. Typed'
  BY <1>1, <1>2 DEF FileInv, Typed, FileTypeOK
<1>. QED  BY <1>1, <1>3 DEF FileInv, Reading, Writing, Patching

LEMMA ChangeKeeps ==
  ASSUME FileInv, Change
  PROVE  FileInv'
<1>1. /\ file' \in Seq(Unit) \cup {NoFile} /\ disturbed' = TRUE
      /\ UNCHANGED <<at, op, arg, data, sent, total, ops, origin, erred>>
  BY ContentIsSeq DEF Change
<1>2. NextChunk' = NextChunk
  BY <1>1 DEF NextChunk
<1>3. Typed'
  BY <1>1, <1>2 DEF FileInv, Typed, FileTypeOK
<1>. QED  BY <1>1, <1>3 DEF FileInv, Reading, Writing, Patching

LEMMA FileInductive == FileInv /\ [FileNext]_fileVars => FileInv'
<1>. SUFFICES ASSUME FileInv, [FileNext]_fileVars PROVE FileInv'
  OBVIOUS
<1>1. CASE WriteAll \/ ReadAll \/ Patch
  <2>1. <<>> \in Contents
    BY EmptyContent
  <2>. QED  BY <1>1, <2>1, StartKeeps DEF WriteAll, ReadAll, Patch
<1>2. CASE WriteChunk \/ WriteFails \/ ReadChunk \/ SizeFails \/ ReadFails
  BY <1>2, WriteChunkKeeps, WriteFailsKeeps, ReadChunkKeeps, SizeFailsKeeps, ReadFailsKeeps
<1>3. CASE PatchRead \/ PatchTruncate \/ PatchWrite \/ PatchFails
  BY <1>3, PatchReadKeeps, PatchTruncateKeeps, PatchWriteKeeps, PatchFailsKeeps
<1>4. CASE Change
  BY <1>4, ChangeKeeps
<1>5. CASE UNCHANGED fileVars
  <2>1. UNCHANGED <<file, at, op, arg, data, sent, total, origin, disturbed, erred>>
    BY <1>5 DEF fileVars
  <2>2. NextChunk' = NextChunk
    BY <2>1 DEF NextChunk
  <2>3. Typed'
    BY <2>1, <2>2 DEF FileInv, Typed, FileTypeOK
  <2>. QED  BY <2>1, <2>3 DEF FileInv, Reading, Writing, Patching
<1>. QED  BY <1>1, <1>2, <1>3, <1>4, <1>5 DEF FileNext, Rest

LEMMA FileSafe == FileSpec => []FileInv
<1>1. FileInv /\ [FileNext]_fileVars => FileInv'
  BY FileInductive
<1>. QED  BY <1>1, InitialFile, PTL DEF FileSpec

-----------------------------------------------------------------------------
\* The state of an operation keeps its types: no chunk is larger than the
\* protocol's, no patched text larger than the buffer that holds it.
THEOREM FileTypes == FileSpec => []FileTypeOK
<1>1. FileInv => FileTypeOK
  BY DEF FileInv, Typed
<1>. QED  BY <1>1, FileSafe, PTL

\* A read in pieces, of a file that no one changes and whose size 32 bits hold,
\* without an error, returns the file.
THEOREM ReadWhole == FileSpec => []ReadAllWhole
<1>1. FileInv => ReadAllWhole
  BY DEF FileInv, Reading, ReadAllWhole, Ended
<1>. QED  BY <1>1, FileSafe, PTL

\* A write in chunks that no one disturbs leaves exactly what was to be written, but
\* for an empty content perhaps the old file; one that raises, the old file or a
\* beginning of the new.
THEOREM WriteWhole == FileSpec => []WriteAllWhole
<1>1. FileInv => WriteAllWhole
  BY DEF FileInv, Writing, WriteAllWhole, Ended
<1>. QED  BY <1>1, FileSafe, PTL

\* A patch that no one disturbs, of a file that the buffer holds, replaces the
\* symbol's first definition and nothing else.
THEOREM PatchInPlace == FileSpec => []PatchedInPlace
<1>1. FileInv => PatchedInPlace
  BY DEF FileInv, Patching, PatchedInPlace, Ended
<1>. QED  BY <1>1, FileSafe, PTL

-----------------------------------------------------------------------------
(* Mounted files. *)

-----------------------------------------------------------------------------
(* Recursive definitions over 0..n, by induction on n. *)

LEMMA Induction ==
  ASSUME NEW T \in SUBSET Nat, 0 \in T, \A k \in T : k + 1 \in T
  PROVE  Nat \subseteq T
<1>. DEFINE Less == OpToRel(<, Nat)
            Left == Nat \ T
<1>1. \A a, b \in Nat : a < b => <<a, b>> \in Less
  BY DEF OpToRel
<1>2. IsWellFoundedOn(Less, Nat)
  BY NatLessThanWellFounded
<1>. SUFFICES ASSUME Left # {}  PROVE FALSE
  OBVIOUS
<1>3. Left \subseteq Nat
  OBVIOUS
<1>. HIDE DEF Less
<1>4. PICK x \in Left : \A y \in Left : ~ (<<y, x>> \in Less)
  BY <1>2, <1>3, WFMin
<1>5. x \in Nat /\ x # 0 /\ x - 1 \in Nat /\ x - 1 < x /\ (x - 1) + 1 = x
  BY <1>4
<1>6. x - 1 \in T
  BY <1>1, <1>4, <1>5
<1>. QED  BY <1>4, <1>5, <1>6

\* Values that follow from one another, from a on.
Chain(g, a, n, follow) == g[0] = a /\ \A i \in 1..n : g[i] = follow[<<i, g[i - 1]>>]
Chained(V, a, n, follow) == \E g \in [0..n -> V] : Chain(g, a, n, follow)

LEMMA ChainExists ==
  ASSUME NEW V, NEW a \in V, NEW n \in Nat, NEW follow \in [(1..n) \X V -> V]
  PROVE  Chained(V, a, n, follow)
<1>. DEFINE T == {m \in Nat : m <= n => Chained(V, a, m, follow)}
<1>1. 0 \in T
  <2>1. [i \in 0..0 |-> a] \in [0..0 -> V] /\ Chain([i \in 0..0 |-> a], a, 0, follow)
    BY DEF Chain
  <2>. QED  BY <2>1 DEF Chained
<1>2. ASSUME NEW k \in T  PROVE k + 1 \in T
  <2>. SUFFICES ASSUME k + 1 <= n  PROVE Chained(V, a, k + 1, follow)
    OBVIOUS
  <2>1. k \in Nat /\ k + 1 \in 1..n /\ k <= n
    OBVIOUS
  <2>2. PICK f \in [0..k -> V] : Chain(f, a, k, follow)
    BY <2>1 DEF Chained
  <2>. HIDE DEF T
  <2>3. f[k] \in V /\ follow[<<k + 1, f[k]>>] \in V
    BY <2>1, <2>2
  <2>. DEFINE g == [i \in 0..(k + 1) |-> IF i = k + 1 THEN follow[<<k + 1, f[k]>>] ELSE f[i]]
  <2>4. g \in [0..(k + 1) -> V]
    <3>1. \A i \in 0..(k + 1) : i = k + 1 \/ i \in 0..k
      BY <2>1
    <3>. QED  BY <2>2, <2>3, <3>1
  <2>5. g[0] = a
    BY <2>1, <2>2 DEF Chain
  <2>6. ASSUME NEW i \in 1..(k + 1)  PROVE g[i] = follow[<<i, g[i - 1]>>]
    <3>1. i \in 0..(k + 1) /\ i - 1 \in 0..(k + 1) /\ i - 1 # k + 1
      BY <2>1
    <3>2. CASE i = k + 1
      <4>1. i - 1 = k
        BY <2>1, <3>2
      <4>. QED  BY <3>1, <3>2, <4>1
    <3>3. CASE i # k + 1
      <4>1. i \in 1..k
        BY <2>1, <3>3
      <4>. QED  BY <2>2, <3>1, <3>3, <4>1 DEF Chain
    <3>. QED  BY <3>2, <3>3
  <2>. HIDE DEF g
  <2>7. Chain(g, a, k + 1, follow)
    BY <2>5, <2>6 DEF Chain
  <2>. QED  BY <2>4, <2>7 DEF Chained
<1>. HIDE DEF T
<1>3. T \in SUBSET Nat
  BY DEF T
<1>4. n \in T
  BY <1>1, <1>2, <1>3, Induction
<1>. QED  BY <1>4 DEF T

-----------------------------------------------------------------------------
(* Among. *)

Selects(g, paths, set) ==
  /\ g[0] = <<>>
  /\ \A i \in 1..Len(paths) :
       g[i] = IF paths[i] \in set THEN Append(g[i - 1], paths[i]) ELSE g[i - 1]

LEMMA AmongSelects ==
  ASSUME NEW paths \in Seq(Paths), NEW set
  PROVE  \E g : Selects(g, paths, set) /\ Among(paths, set) = g[Len(paths)]
<1>1. PICK n : n = Len(paths)
  OBVIOUS
<1>2. n \in Nat /\ n \in 0..n /\ \A i \in 1..n : paths[i] \in Paths
  BY <1>1, LenProperties, ElementOfSeq
<1>. DEFINE Def(g) == [i \in 0..n |-> IF i = 0 THEN <<>>
                                      ELSE IF paths[i] \in set THEN Append(g[i - 1], paths[i]) ELSE g[i - 1]]
            upto == CHOOSE g : g = Def(g)
            follow == [x \in (1..n) \X Seq(Paths) |->
                         IF paths[x[1]] \in set THEN Append(x[2], paths[x[1]]) ELSE x[2]]
<1>3. follow \in [(1..n) \X Seq(Paths) -> Seq(Paths)]
  BY <1>2, AppendProperties
<1>4. PICK g \in [0..n -> Seq(Paths)] : Chain(g, <<>>, n, follow)
  <2>. HIDE DEF follow
  <2>1. <<>> \in Seq(Paths)
    BY EmptySeq
  <2>. QED  BY <1>2, <1>3, <2>1, ChainExists DEF Chained
<1>5. g = Def(g)
  <2>1. ASSUME NEW i \in 0..n
        PROVE  g[i] = IF i = 0 THEN <<>>
                      ELSE IF paths[i] \in set THEN Append(g[i - 1], paths[i]) ELSE g[i - 1]
    <3>1. CASE i = 0
      BY <1>4, <3>1 DEF Chain
    <3>2. CASE i # 0
      <4>1. i \in 1..n /\ i - 1 \in 0..n
        BY <1>2, <3>2
      <4>2. <<i, g[i - 1]>> \in (1..n) \X Seq(Paths) /\ g[i] = follow[<<i, g[i - 1]>>]
        BY <1>4, <4>1 DEF Chain
      <4>. QED  BY <3>2, <4>2
    <3>. QED  BY <3>1, <3>2
  <2>. QED  BY <2>1
<1>6. upto = Def(upto)
  <2>. HIDE DEF Def
  <2>. QED  BY <1>5
<1>7. Among(paths, set) = upto[n]
  BY <1>1 DEF Among
<1>. HIDE DEF upto
<1>8. Selects(upto, paths, set)
  <2>1. \A i \in 0..n : upto[i] = IF i = 0 THEN <<>>
                      ELSE IF paths[i] \in set THEN Append(upto[i - 1], paths[i]) ELSE upto[i - 1]
    BY <1>6
  <2>2. 0 \in 0..n /\ \A i \in 1..n : i \in 0..n /\ i # 0
    BY <1>2
  <2>. QED  BY <1>1, <2>1, <2>2 DEF Selects
<1>. QED  BY <1>1, <1>7, <1>8

\* A new path at the end.
LEMMA OneMore ==
  ASSUME NEW t \in Seq(Paths), NEW p \in Paths, Distinct(t), p \notin ToSet(t)
  PROVE  /\ Append(t, p) \in Seq(Paths) /\ Distinct(Append(t, p))
         /\ ToSet(Append(t, p)) = ToSet(t) \cup {p}
<1>1. PICK n : n = Len(t)
  OBVIOUS
<1>2. PICK u : u = Append(t, p)
  OBVIOUS
<1>3. /\ n \in Nat /\ u \in Seq(Paths) /\ Len(u) = n + 1 /\ u[n + 1] = p
      /\ \A i \in 1..n : u[i] = t[i]
      /\ DOMAIN t = 1..n /\ DOMAIN u = 1..(n + 1)
  BY <1>1, <1>2, AppendProperties, LenProperties
<1>4. \A i \in 1..(n + 1) : i = n + 1 \/ i \in 1..n
  BY <1>3
<1>5. \A i \in 1..n : t[i] # p
  BY <1>3 DEF ToSet
<1>6. Distinct(u)
  <2>. SUFFICES ASSUME NEW i \in 1..(n + 1), NEW j \in 1..(n + 1), u[i] = u[j]  PROVE i = j
    BY <1>3 DEF Distinct
  <2>1. CASE i = n + 1 /\ j = n + 1
    BY <2>1
  <2>2. CASE i \in 1..n /\ j \in 1..n
    BY <1>1, <1>3, <2>2 DEF Distinct
  <2>3. CASE i \in 1..n /\ j = n + 1
    BY <1>3, <1>5, <2>3
  <2>4. CASE i = n + 1 /\ j \in 1..n
    BY <1>3, <1>5, <2>4
  <2>. QED  BY <1>4, <2>1, <2>2, <2>3, <2>4
<1>7. ToSet(u) = ToSet(t) \cup {p}
  <2>1. \A i \in 1..n : i \in 1..(n + 1)
    BY <1>3
  <2>2. n + 1 \in 1..(n + 1)
    BY <1>3
  <2>. QED  BY <1>3, <1>4, <2>1, <2>2 DEF ToSet
<1>. QED  BY <1>2, <1>3, <1>6, <1>7

\* Among keeps the order, and so each path once, and nothing but the set.
LEMMA AmongIs ==
  ASSUME NEW paths \in Seq(Paths), NEW set, Distinct(paths)
  PROVE  /\ Among(paths, set) \in Seq(Paths) /\ Distinct(Among(paths, set))
         /\ ToSet(Among(paths, set)) = ToSet(paths) \cap set
<1>1. PICK n : n = Len(paths)
  OBVIOUS
<1>2. n \in Nat /\ DOMAIN paths = 1..n /\ \A i \in 1..n : paths[i] \in Paths
  BY <1>1, LenProperties, ElementOfSeq
<1>3. PICK g : Selects(g, paths, set) /\ Among(paths, set) = g[n]
  BY <1>1, AmongSelects
<1>. DEFINE Seen(m) == {paths[i] : i \in 1..m}
            Selected(m) == g[m] \in Seq(Paths) /\ Distinct(g[m]) /\ ToSet(g[m]) = Seen(m) \cap set
            T == {m \in Nat : m <= n => Selected(m)}
<1>4. 0 \in T
  <2>1. g[0] = <<>> /\ <<>> \in Seq(Paths) /\ Len(<<>>) = 0
    BY <1>3, EmptySeq DEF Selects
  <2>2. \A i \in 1..0 : FALSE
    OBVIOUS
  <2>3. Distinct(<<>>)
    BY <2>1, <2>2 DEF Distinct
  <2>4. ToSet(<<>>) = {}
    BY DEF ToSet
  <2>5. Seen(0) = {}
    BY <2>2
  <2>. QED  BY <2>1, <2>3, <2>4, <2>5
<1>5. ASSUME NEW k \in T  PROVE k + 1 \in T
  <2>. SUFFICES ASSUME k + 1 <= n  PROVE Selected(k + 1)
    OBVIOUS
  <2>1. k \in Nat /\ k + 1 \in 1..n /\ (k + 1) - 1 = k /\ \A i \in 1..k : i \in 1..n /\ i # k + 1
    BY <1>2
  <2>2. Selected(k)
    <3>1. k <= n
      BY <1>2, <2>1
    <3>. HIDE DEF Selected
    <3>. QED  BY <2>1, <3>1
  <2>. HIDE DEF T
  <2>3. Seen(k + 1) = Seen(k) \cup {paths[k + 1]}
    <3>1. \A i \in 1..(k + 1) : i = k + 1 \/ i \in 1..k
      BY <2>1
    <3>2. k + 1 \in 1..(k + 1) /\ \A i \in 1..k : i \in 1..(k + 1)
      BY <2>1
    <3>. QED  BY <3>1, <3>2
  <2>4. paths[k + 1] \notin Seen(k)
    BY <1>1, <2>1 DEF Distinct
  <2>. HIDE DEF Seen
  <2>5. g[k + 1] = IF paths[k + 1] \in set THEN Append(g[k], paths[k + 1]) ELSE g[k]
    BY <1>1, <1>3, <2>1 DEF Selects
  <2>6. CASE paths[k + 1] \in set
    <3>1. paths[k + 1] \in Paths /\ paths[k + 1] \notin ToSet(g[k])
      BY <1>2, <2>1, <2>2, <2>4
    <3>2. PICK t : t = g[k]
      OBVIOUS
    <3>3. /\ Append(t, paths[k + 1]) \in Seq(Paths) /\ Distinct(Append(t, paths[k + 1]))
          /\ ToSet(Append(t, paths[k + 1])) = ToSet(t) \cup {paths[k + 1]}
      BY <2>2, <3>1, <3>2, OneMore
    <3>. QED  BY <2>2, <2>3, <2>5, <2>6, <3>2, <3>3
  <2>7. CASE paths[k + 1] \notin set
    BY <2>2, <2>3, <2>5, <2>7
  <2>. QED  BY <2>6, <2>7
<1>. HIDE DEF T
<1>6. T \in SUBSET Nat
  BY DEF T
<1>7. n \in T
  BY <1>2, <1>4, <1>5, <1>6, Induction
<1>8. Selected(n)
  BY <1>2, <1>7 DEF T
<1>9. Seen(n) = ToSet(paths)
  BY <1>2 DEF ToSet
<1>. QED  BY <1>3, <1>8, <1>9

-----------------------------------------------------------------------------
(* RoomFor: the room for the lines of a set of files. *)

Weight(p, set) == IF p \in set THEN LineLen[p] ELSE 0
Weighs(g, set) == \A i \in 1..Len(Order) : g[i] = g[i - 1] + Weight(Order[i], set)

LEMMA Lengths ==
  /\ Len(Order) \in Nat /\ \A i \in 1..Len(Order) : Order[i] \in Paths
  /\ \A p \in Paths : LineLen[p] \in Nat /\ \E i \in 1..Len(Order) : Order[i] = p
  /\ \A p \in Paths : \A set : Weight(p, set) \in Nat
<1>1. Len(Order) \in Nat /\ DOMAIN Order = 1..Len(Order) /\ \A i \in 1..Len(Order) : Order[i] \in Paths
  BY MountAssumption, LenProperties, ElementOfSeq
<1>2. \A p \in Paths : LineLen[p] \in Nat /\ \E i \in 1..Len(Order) : Order[i] = p
  BY <1>1, MountAssumption DEF Paths, ToSet
<1>. QED  BY <1>1, <1>2 DEF Weight

LEMMA RoomWeighs ==
  ASSUME NEW set
  PROVE  \E g \in [0..Len(Order) -> Nat] :
           g[0] = 0 /\ Weighs(g, set) /\ RoomFor(set) = g[Len(Order)]
<1>1. PICK n : n = Len(Order)
  OBVIOUS
<1>2. n \in Nat /\ n \in 0..n /\ \A i \in 1..n : Order[i] \in Paths /\ Weight(Order[i], set) \in Nat
  BY <1>1, Lengths
<1>. DEFINE Def(g) == [i \in 0..n |-> IF i = 0 THEN 0
                                      ELSE g[i - 1] + (IF Order[i] \in set THEN LineLen[Order[i]] ELSE 0)]
            upto == CHOOSE g : g = Def(g)
            follow == [x \in (1..n) \X Nat |-> x[2] + Weight(Order[x[1]], set)]
<1>3. follow \in [(1..n) \X Nat -> Nat]
  BY <1>2
<1>4. PICK g \in [0..n -> Nat] : Chain(g, 0, n, follow)
  <2>. HIDE DEF follow
  <2>. QED  BY <1>2, <1>3, ChainExists DEF Chained
<1>5. g = Def(g)
  <2>1. ASSUME NEW i \in 0..n
        PROVE  g[i] = IF i = 0 THEN 0
                      ELSE g[i - 1] + (IF Order[i] \in set THEN LineLen[Order[i]] ELSE 0)
    <3>1. CASE i = 0
      BY <1>4, <3>1 DEF Chain
    <3>2. CASE i # 0
      <4>1. i \in 1..n /\ i - 1 \in 0..n
        BY <1>2, <3>2
      <4>2. <<i, g[i - 1]>> \in (1..n) \X Nat /\ g[i] = follow[<<i, g[i - 1]>>]
        BY <1>4, <4>1 DEF Chain
      <4>. QED  BY <3>2, <4>2 DEF Weight
    <3>. QED  BY <3>1, <3>2
  <2>. QED  BY <2>1
<1>6. upto = Def(upto)
  <2>. HIDE DEF Def
  <2>. QED  BY <1>5
<1>7. RoomFor(set) = upto[n]
  BY <1>1 DEF RoomFor
<1>. HIDE DEF upto
<1>8. upto[0] = 0 /\ Weighs(upto, set)
  <2>1. \A i \in 0..n : upto[i] = IF i = 0 THEN 0
                      ELSE upto[i - 1] + (IF Order[i] \in set THEN LineLen[Order[i]] ELSE 0)
    BY <1>6
  <2>2. 0 \in 0..n /\ \A i \in 1..n : i \in 0..n /\ i # 0
    BY <1>2
  <2>. QED  BY <1>1, <2>1, <2>2 DEF Weighs, Weight
<1>9. upto \in [0..n -> Nat]
  <2>. DEFINE T == {m \in Nat : m <= n => upto[m] \in Nat}
  <2>1. 0 \in T
    BY <1>8
  <2>2. ASSUME NEW k \in T  PROVE k + 1 \in T
    <3>. SUFFICES ASSUME k + 1 <= n  PROVE upto[k + 1] \in Nat
      OBVIOUS
    <3>1. k \in Nat /\ k + 1 \in 1..n /\ (k + 1) - 1 = k /\ k <= n
      BY <1>2
    <3>2. upto[k] \in Nat
      BY <3>1
    <3>3. upto[k + 1] = upto[k] + Weight(Order[k + 1], set)
      BY <1>1, <1>8, <3>1 DEF Weighs
    <3>. QED  BY <1>2, <3>1, <3>2, <3>3
  <2>3. T \in SUBSET Nat
    OBVIOUS
  <2>4. Nat \subseteq T
    <3>. HIDE DEF T
    <3>. QED  BY <2>1, <2>2, <2>3, Induction
  <2>5. \A m \in 0..n : upto[m] \in Nat
    <3>1. \A m \in 0..n : m \in Nat /\ m <= n
      BY <1>2
    <3>. QED  BY <2>4, <3>1
  <2>6. upto = [i \in 0..n |-> upto[i]]
    <3>. HIDE DEF Def
    <3>1. upto = Def(upto)
      BY <1>6
    <3>2. \A g1 : Def(g1) = [i \in 0..n |-> Def(g1)[i]]
      BY DEF Def
    <3>. QED  BY <3>1, <3>2
  <2>. QED  BY <2>5, <2>6
<1>. QED  BY <1>1, <1>7, <1>8, <1>9

\* One more file needs the room for its line,
LEMMA RoomForOneMore ==
  ASSUME NEW set, NEW p \in Paths, p \notin set
  PROVE  RoomFor(set \cup {p}) = RoomFor(set) + LineLen[p]
<1>1. PICK n : n = Len(Order)
  OBVIOUS
<1>2. PICK both : both = set \cup {p}
  OBVIOUS
<1>3. PICK g \in [0..n -> Nat] : g[0] = 0 /\ Weighs(g, set) /\ RoomFor(set) = g[n]
  BY <1>1, RoomWeighs
<1>4. PICK h \in [0..n -> Nat] : h[0] = 0 /\ Weighs(h, both) /\ RoomFor(both) = h[n]
  BY <1>1, RoomWeighs
<1>5. PICK j \in 1..n : Order[j] = p
  BY <1>1, Lengths
<1>6. n \in Nat /\ j \in Nat /\ LineLen[p] \in Nat /\ n \in 0..n
  BY <1>1, Lengths
<1>. DEFINE Extra(m) == IF j <= m THEN LineLen[p] ELSE 0
            T == {m \in Nat : m <= n => h[m] = g[m] + Extra(m)}
<1>7. 0 \in T
  BY <1>3, <1>4, <1>6
<1>8. ASSUME NEW k \in T  PROVE k + 1 \in T
  <2>. SUFFICES ASSUME k + 1 <= n  PROVE h[k + 1] = g[k + 1] + Extra(k + 1)
    OBVIOUS
  <2>1. k \in Nat /\ k + 1 \in 1..n /\ (k + 1) - 1 = k /\ k <= n /\ k \in 0..n
    BY <1>6
  <2>2. h[k] = g[k] + Extra(k)
    <3>. HIDE DEF Extra
    <3>. QED  BY <2>1
  <2>. HIDE DEF T
  <2>3. g[k + 1] = g[k] + Weight(Order[k + 1], set)
    BY <1>1, <1>3, <2>1 DEF Weighs
  <2>4. h[k + 1] = h[k] + Weight(Order[k + 1], both)
    BY <1>1, <1>4, <2>1 DEF Weighs
  <2>5. g[k] \in Nat /\ h[k] \in Nat /\ Weight(Order[k + 1], set) \in Nat
    BY <1>1, <1>3, <1>4, <2>1, Lengths
  <2>6. CASE k + 1 = j
    <3>1. Weight(Order[k + 1], set) = 0 /\ Weight(Order[k + 1], both) = LineLen[p]
      BY <1>2, <1>5, <2>6 DEF Weight
    <3>2. Extra(k) = 0 /\ Extra(k + 1) = LineLen[p]
      BY <1>6, <2>1, <2>6
    <3>. QED  BY <1>6, <2>2, <2>3, <2>4, <2>5, <3>1, <3>2
  <2>7. CASE k + 1 # j
    <3>1. Order[k + 1] # p
      BY <1>1, <1>5, <2>1, <2>7, MountAssumption DEF Distinct
    <3>2. Weight(Order[k + 1], both) = Weight(Order[k + 1], set)
      BY <1>2, <3>1 DEF Weight
    <3>3. Extra(k) = Extra(k + 1)
      BY <1>6, <2>1, <2>7
    <3>4. Extra(k) \in Nat
      BY <1>6
    <3>. HIDE DEF Extra
    <3>. QED  BY <2>2, <2>3, <2>4, <2>5, <3>2, <3>3, <3>4
  <2>. QED  BY <2>6, <2>7
<1>9. T \in SUBSET Nat
  OBVIOUS
<1>10. n \in T
  <2>. HIDE DEF T
  <2>. QED  BY <1>6, <1>7, <1>8, <1>9, Induction
<1>11. h[n] = g[n] + LineLen[p]
  BY <1>5, <1>6, <1>10
<1>. QED  BY <1>2, <1>3, <1>4, <1>11

\* and fewer files need no more than all of them.
LEMMA RoomForFewer ==
  ASSUME NEW few, NEW many, few \subseteq many
  PROVE  RoomFor(few) \in Nat /\ RoomFor(many) \in Nat /\ RoomFor(few) <= RoomFor(many)
<1>1. PICK n : n = Len(Order)
  OBVIOUS
<1>3. PICK g \in [0..n -> Nat] : g[0] = 0 /\ Weighs(g, few) /\ RoomFor(few) = g[n]
  BY <1>1, RoomWeighs
<1>4. PICK h \in [0..n -> Nat] : h[0] = 0 /\ Weighs(h, many) /\ RoomFor(many) = h[n]
  BY <1>1, RoomWeighs
<1>6. n \in Nat /\ n \in 0..n
  BY <1>1, Lengths
<1>. DEFINE T == {m \in Nat : m <= n => g[m] <= h[m]}
<1>7. 0 \in T
  BY <1>3, <1>4
<1>8. ASSUME NEW k \in T  PROVE k + 1 \in T
  <2>. SUFFICES ASSUME k + 1 <= n  PROVE g[k + 1] <= h[k + 1]
    OBVIOUS
  <2>1. k \in Nat /\ k + 1 \in 1..n /\ (k + 1) - 1 = k /\ k <= n /\ k \in 0..n
    BY <1>6
  <2>2. g[k] <= h[k]
    BY <2>1
  <2>. HIDE DEF T
  <2>3. g[k + 1] = g[k] + Weight(Order[k + 1], few)
    BY <1>1, <1>3, <2>1 DEF Weighs
  <2>4. h[k + 1] = h[k] + Weight(Order[k + 1], many)
    BY <1>1, <1>4, <2>1 DEF Weighs
  <2>5. /\ g[k] \in Nat /\ h[k] \in Nat
        /\ Weight(Order[k + 1], few) \in Nat /\ Weight(Order[k + 1], many) \in Nat
    BY <1>1, <1>3, <1>4, <2>1, Lengths
  <2>6. Weight(Order[k + 1], few) <= Weight(Order[k + 1], many)
    <3>1. Order[k + 1] \in Paths
      BY <1>1, <2>1, Lengths
    <3>2. LineLen[Order[k + 1]] \in Nat
      BY <3>1, Lengths
    <3>. QED  BY <3>2 DEF Weight
  <2>. QED  BY <2>2, <2>3, <2>4, <2>5, <2>6
<1>9. T \in SUBSET Nat
  OBVIOUS
<1>10. n \in T
  <2>. HIDE DEF T
  <2>. QED  BY <1>6, <1>7, <1>8, <1>9, Induction
<1>. QED  BY <1>3, <1>4, <1>6, <1>10

LEMMA RoomForNone == RoomFor({}) = 0
<1>1. PICK n : n = Len(Order)
  OBVIOUS
<1>2. PICK g \in [0..n -> Nat] : g[0] = 0 /\ Weighs(g, {}) /\ RoomFor({}) = g[n]
  BY <1>1, RoomWeighs
<1>3. n \in Nat /\ n \in 0..n
  BY <1>1, Lengths
<1>. DEFINE T == {m \in Nat : m <= n => g[m] = 0}
<1>4. 0 \in T
  BY <1>2
<1>5. ASSUME NEW k \in T  PROVE k + 1 \in T
  <2>. SUFFICES ASSUME k + 1 <= n  PROVE g[k + 1] = 0
    OBVIOUS
  <2>1. k \in Nat /\ k + 1 \in 1..n /\ (k + 1) - 1 = k /\ k <= n
    BY <1>3
  <2>2. g[k] = 0
    BY <2>1
  <2>3. g[k + 1] = g[k] + Weight(Order[k + 1], {})
    BY <1>1, <1>2, <2>1 DEF Weighs
  <2>4. Weight(Order[k + 1], {}) = 0
    BY DEF Weight
  <2>. QED  BY <2>2, <2>3, <2>4
<1>6. T \in SUBSET Nat
  OBVIOUS
<1>7. n \in T
  <2>. HIDE DEF T
  <2>. QED  BY <1>3, <1>4, <1>5, <1>6, Induction
<1>. QED  BY <1>2, <1>3, <1>7

-----------------------------------------------------------------------------
(* Fitting. *)

Line == [op : {"+", "M", "-"}, path : Paths]
Empty == [len |-> 0, kept |-> <<>>]
Filled(acc, l) ==
  IF acc.len + LineLen[l.path] < Room
  THEN [len |-> acc.len + LineLen[l.path], kept |-> Append(acc.kept, l)]
  ELSE acc
Fills(g, all) == g[0] = Empty /\ \A i \in 1..Len(all) : g[i] = Filled(g[i - 1], all[i])

LEMMA Lines ==
  ASSUME NEW all \in Seq(Line)
  PROVE  /\ Len(all) \in Nat /\ DOMAIN all = 1..Len(all)
         /\ \A i \in 1..Len(all) :
              all[i] \in Line /\ all[i].path \in Paths /\ LineLen[all[i].path] \in Nat
<1>1. Len(all) \in Nat /\ DOMAIN all = 1..Len(all) /\ \A i \in 1..Len(all) : all[i] \in Line
  BY LenProperties, ElementOfSeq
<1>2. \A l \in Line : l.path \in Paths
  BY DEF Line
<1>. QED  BY <1>1, <1>2, Lengths

LEMMA FittingFills ==
  ASSUME NEW all \in Seq(Line)
  PROVE  \E g : Fills(g, all) /\ Fitting(all) = g[Len(all)].kept
<1>1. PICK n : n = Len(all)
  OBVIOUS
<1>2. n \in Nat /\ n \in 0..n /\ \A i \in 1..n : all[i] \in Line /\ LineLen[all[i].path] \in Nat
  BY <1>1, Lines
<1>. DEFINE Acc == [len : Nat, kept : Seq(Line)]
            Def(g) == [i \in 0..n |->
                         IF i = 0 THEN [len |-> 0, kept |-> <<>>]
                         ELSE LET len == g[i - 1].len + LineLen[all[i].path]
                              IN IF len < Room THEN [len |-> len, kept |-> Append(g[i - 1].kept, all[i])]
                                 ELSE g[i - 1]]
            upto == CHOOSE g : g = Def(g)
            follow == [x \in (1..n) \X Acc |-> Filled(x[2], all[x[1]])]
<1>3. follow \in [(1..n) \X Acc -> Acc]
  <2>. SUFFICES ASSUME NEW i \in 1..n, NEW x \in Acc  PROVE Filled(x, all[i]) \in Acc
    OBVIOUS
  <2>1. x.len + LineLen[all[i].path] \in Nat /\ Append(x.kept, all[i]) \in Seq(Line)
    BY <1>2, AppendProperties
  <2>. QED  BY <2>1 DEF Filled
<1>4. PICK g \in [0..n -> Acc] : Chain(g, Empty, n, follow)
  <2>1. Empty \in Acc
    BY EmptySeq DEF Empty
  <2>. HIDE DEF follow, Acc
  <2>. QED  BY <1>2, <1>3, <2>1, ChainExists DEF Chained
<1>5. g = Def(g)
  <2>1. ASSUME NEW i \in 0..n
        PROVE  g[i] = IF i = 0 THEN Empty ELSE Filled(g[i - 1], all[i])
    <3>1. CASE i = 0
      BY <1>4, <3>1 DEF Chain
    <3>2. CASE i # 0
      <4>1. i \in 1..n /\ i - 1 \in 0..n
        BY <1>2, <3>2
      <4>2. <<i, g[i - 1]>> \in (1..n) \X Acc /\ g[i] = follow[<<i, g[i - 1]>>]
        BY <1>4, <4>1 DEF Chain
      <4>. QED  BY <3>2, <4>2
    <3>. QED  BY <3>1, <3>2
  <2>. HIDE DEF Acc
  <2>2. g = [i \in 0..n |-> IF i = 0 THEN Empty ELSE Filled(g[i - 1], all[i])]
    BY <2>1
  <2>. QED  BY <2>2 DEF Empty, Filled
<1>6. upto = Def(upto)
  <2>. HIDE DEF Def
  <2>. QED  BY <1>5
<1>7. Fitting(all) = upto[n].kept
  BY <1>1 DEF Fitting
<1>. HIDE DEF upto
<1>8. Fills(upto, all)
  <2>1. \A i \in 0..n : upto[i] = IF i = 0 THEN Empty ELSE Filled(upto[i - 1], all[i])
    <3>1. upto = [i \in 0..n |-> IF i = 0 THEN Empty ELSE Filled(upto[i - 1], all[i])]
      BY <1>6 DEF Empty, Filled
    <3>. QED  BY <3>1
  <2>2. 0 \in 0..n /\ \A i \in 1..n : i \in 0..n /\ i # 0
    BY <1>2
  <2>. QED  BY <1>1, <2>1, <2>2 DEF Fills
<1>. QED  BY <1>1, <1>7, <1>8

\* No line is made up,
LEMMA FittingKeeps ==
  ASSUME NEW all \in Seq(Line)
  PROVE  Fitting(all) \in Seq(Line) /\ ToSet(Fitting(all)) \subseteq ToSet(all)
<1>1. PICK n : n = Len(all)
  OBVIOUS
<1>2. /\ n \in Nat /\ DOMAIN all = 1..n
      /\ \A i \in 1..n : all[i] \in Line /\ LineLen[all[i].path] \in Nat
  BY <1>1, Lines
<1>3. PICK g : Fills(g, all) /\ Fitting(all) = g[n].kept
  BY <1>1, FittingFills
<1>. DEFINE Kept(m) == g[m].kept \in Seq(Line) /\ ToSet(g[m].kept) \subseteq ToSet(all)
            T == {m \in Nat : m <= n => Kept(m)}
<1>4. 0 \in T
  <2>1. g[0].kept = <<>> /\ <<>> \in Seq(Line)
    BY <1>3, EmptySeq DEF Fills, Empty
  <2>2. ToSet(<<>>) = {}
    BY DEF ToSet
  <2>. QED  BY <2>1, <2>2
<1>5. ASSUME NEW k \in T  PROVE k + 1 \in T
  <2>. SUFFICES ASSUME k + 1 <= n  PROVE Kept(k + 1)
    OBVIOUS
  <2>1. k \in Nat /\ k + 1 \in 1..n /\ (k + 1) - 1 = k /\ k <= n
    BY <1>2
  <2>2. Kept(k)
    <3>. HIDE DEF Kept
    <3>. QED  BY <2>1
  <2>. HIDE DEF T
  <2>3. PICK a : a = g[k].kept
    OBVIOUS
  <2>4. g[k + 1] = Filled(g[k], all[k + 1])
    BY <1>1, <1>3, <2>1 DEF Fills
  <2>5. g[k + 1].kept = a \/ g[k + 1].kept = Append(a, all[k + 1])
    BY <2>3, <2>4 DEF Filled
  <2>6. Append(a, all[k + 1]) \in Seq(Line) /\ ToSet(Append(a, all[k + 1])) \subseteq ToSet(all)
    <3>1. PICK b : b = Append(a, all[k + 1])
      OBVIOUS
    <3>2. PICK m : m = Len(a)
      OBVIOUS
    <3>3. /\ m \in Nat /\ b \in Seq(Line) /\ Len(b) = m + 1 /\ b[m + 1] = all[k + 1]
          /\ \A i \in 1..m : b[i] = a[i]
          /\ DOMAIN a = 1..m /\ DOMAIN b = 1..(m + 1)
      BY <1>2, <2>1, <2>2, <2>3, <3>1, <3>2, AppendProperties, LenProperties
    <3>4. \A i \in 1..(m + 1) : i = m + 1 \/ i \in 1..m
      BY <3>3
    <3>5. all[k + 1] \in ToSet(all) /\ \A i \in 1..m : a[i] \in ToSet(all)
      BY <1>2, <2>1, <2>2, <2>3, <3>3 DEF ToSet
    <3>6. \A i \in 1..(m + 1) : b[i] \in ToSet(all)
      BY <3>3, <3>4, <3>5
    <3>. QED  BY <3>1, <3>3, <3>6 DEF ToSet
  <2>. QED  BY <2>2, <2>3, <2>5, <2>6
<1>6. T \in SUBSET Nat
  OBVIOUS
<1>7. n \in T
  <2>. HIDE DEF T
  <2>. QED  BY <1>2, <1>4, <1>5, <1>6, Induction
<1>8. Kept(n)
  <2>. HIDE DEF Kept
  <2>. QED  BY <1>2, <1>7
<1>. QED  BY <1>3, <1>8

\* and none is dropped if there is room for the files they name, each once.
LEMMA FittingAll ==
  ASSUME NEW all \in Seq(Line), NEW set,
         \A i \in 1..Len(all) : all[i].path \in set,
         \A i, j \in 1..Len(all) : all[i].path = all[j].path => i = j,
         RoomFor(set) < Room
  PROVE  Fitting(all) = all
<1>1. PICK n : n = Len(all)
  OBVIOUS
<1>2. n \in Nat /\ \A i \in 1..n : all[i] \in Line /\ all[i].path \in Paths /\ LineLen[all[i].path] \in Nat
  BY <1>1, Lines
<1>3. PICK g : Fills(g, all) /\ Fitting(all) = g[n].kept
  BY <1>1, FittingFills
<1>. DEFINE Named(m) == {all[i].path : i \in 1..m}
            Whole(m) == g[m].len = RoomFor(Named(m)) /\ g[m].kept = SubSeq(all, 1, m)
            T == {m \in Nat : m <= n => Whole(m)}
<1>4. 0 \in T
  <2>1. \A i \in 1..0 : FALSE
    OBVIOUS
  <2>2. Named(0) = {}
    BY <2>1
  <2>3. g[0].len = 0 /\ g[0].kept = <<>>
    BY <1>3 DEF Fills, Empty
  <2>4. SubSeq(all, 1, 0) = <<>>
    BY SubSeqEmpty
  <2>. HIDE DEF Named
  <2>. QED  BY <2>2, <2>3, <2>4, RoomForNone
<1>5. ASSUME NEW k \in T  PROVE k + 1 \in T
  <2>. SUFFICES ASSUME k + 1 <= n  PROVE Whole(k + 1)
    OBVIOUS
  <2>1. k \in Nat /\ k + 1 \in 1..n /\ (k + 1) - 1 = k /\ k <= n
    BY <1>2
  <2>2. Whole(k)
    <3>. HIDE DEF Whole
    <3>. QED  BY <2>1
  <2>. HIDE DEF T
  <2>3. PICK l : l = all[k + 1]
    OBVIOUS
  <2>4. l.path \in Paths /\ LineLen[l.path] \in Nat
    BY <1>2, <2>1, <2>3
  <2>5. Named(k + 1) = Named(k) \cup {l.path}
    <3>1. \A i \in 1..(k + 1) : i = k + 1 \/ i \in 1..k
      BY <2>1
    <3>2. k + 1 \in 1..(k + 1) /\ \A i \in 1..k : i \in 1..(k + 1)
      BY <2>1
    <3>. QED  BY <2>3, <3>1, <3>2
  <2>6. l.path \notin Named(k)
    <3>1. \A i \in 1..k : i \in 1..n /\ i # k + 1
      BY <2>1, <1>2
    <3>2. \A i \in 1..k : all[i].path # l.path
      BY <1>1, <2>1, <2>3, <3>1
    <3>. QED  BY <3>2
  <2>7. Named(k + 1) \subseteq set
    <3>1. \A i \in 1..(k + 1) : i \in 1..n
      BY <2>1, <1>2
    <3>. QED  BY <1>1, <3>1
  <2>. HIDE DEF Named
  <2>8. RoomFor(Named(k + 1)) = RoomFor(Named(k)) + LineLen[l.path]
    BY <2>4, <2>5, <2>6, RoomForOneMore
  <2>9. RoomFor(Named(k + 1)) < Room
    <3>1. /\ RoomFor(Named(k + 1)) \in Nat /\ RoomFor(set) \in Nat
          /\ RoomFor(Named(k + 1)) <= RoomFor(set)
      BY <2>7, RoomForFewer
    <3>2. Room \in Nat
      BY MountAssumption
    <3>. QED  BY <3>1, <3>2
  <2>10. g[k + 1] = Filled(g[k], l)
    BY <1>1, <1>3, <2>1, <2>3 DEF Fills
  <2>11. g[k + 1].len = RoomFor(Named(k + 1)) /\ g[k + 1].kept = Append(SubSeq(all, 1, k), l)
    <3>1. g[k].len + LineLen[l.path] = RoomFor(Named(k + 1)) /\ g[k].kept = SubSeq(all, 1, k)
      BY <2>2, <2>8
    <3>2. g[k + 1] = [len |-> g[k].len + LineLen[l.path], kept |-> Append(g[k].kept, l)]
      BY <2>9, <2>10, <3>1 DEF Filled
    <3>3. PICK a : a = g[k].kept
      OBVIOUS
    <3>4. PICK len : len = g[k].len + LineLen[l.path]
      OBVIOUS
    <3>5. g[k + 1] = [len |-> len, kept |-> Append(a, l)]
      BY <3>2, <3>3, <3>4
    <3>6. g[k + 1].len = len /\ g[k + 1].kept = Append(a, l)
      BY <3>5
    <3>. QED  BY <3>1, <3>3, <3>4, <3>6, Zenon
  <2>12. Append(SubSeq(all, 1, k), l) = SubSeq(all, 1, k + 1)
    <3>1. SubSeq(all, 1, k + 1) = SubSeq(all, 1, k) \o <<l>>
      <4>1. 1 \in 1..n /\ k + 1 \in 1..n /\ (k + 1) - 1 = k
        BY <2>1, <1>2
      <4>. QED  BY <1>1, <2>3, <4>1, SubSeqRecursiveSecond
    <3>2. SubSeq(all, 1, k) \in Seq(Line) /\ l \in Line
      <4>1. \A i \in 1..k : all[i] \in Line
        BY <1>2, <2>1
      <4>. QED  BY <1>2, <2>1, <2>3, <4>1, SubSeqProperties
    <3>. QED  BY <3>1, <3>2, AppendIsConcat
  <2>. QED  BY <2>11, <2>12
<1>6. T \in SUBSET Nat
  OBVIOUS
<1>7. n \in T
  <2>. HIDE DEF T
  <2>. QED  BY <1>2, <1>4, <1>5, <1>6, Induction
<1>8. Whole(n)
  <2>. HIDE DEF Whole
  <2>. QED  BY <1>2, <1>7
<1>. QED  BY <1>1, <1>3, <1>8, SubSeqFull

-----------------------------------------------------------------------------
(* Snapshots and their difference. *)

LEMMA CaptureIs ==
  ASSUME NEW files
  PROVE  /\ Capture(files) \in Seq(Paths) /\ Distinct(Capture(files))
         /\ Len(Capture(files)) <= MaxFiles
         /\ ToSet(Capture(files)) \subseteq Existing(files) \cap Watched
         /\ Complete(files) => ToSet(Capture(files)) = Existing(files) \cap Watched
<1>1. PICK E : E = Existing(files) \cap Watched
  OBVIOUS
<1>2. PICK found : found = Among(Order, E)
  OBVIOUS
<1>3. PICK n : n = Len(found)
  OBVIOUS
<1>4. E \subseteq Paths /\ MaxFiles \in Nat
  BY <1>1, MountAssumption
<1>5. found \in Seq(Paths) /\ Distinct(found) /\ ToSet(found) = E
  <2>1. ToSet(Order) \cap E = E
    BY <1>4 DEF Paths
  <2>. QED  BY <1>2, <2>1, MountAssumption, AmongIs
<1>6. n \in Nat /\ DOMAIN found = 1..n /\ found \in [1..n -> Paths] /\ \A i \in 1..n : found[i] \in Paths
  BY <1>3, <1>5, LenProperties
<1>7. \A i \in 1..n : found[i] \in E
  BY <1>5, <1>6 DEF ToSet
<1>8. PICK m : m = IF n < MaxFiles THEN n ELSE MaxFiles
  OBVIOUS
<1>9. m \in Nat /\ m <= n /\ m <= MaxFiles /\ \A i \in 1..m : i \in 1..n
  BY <1>4, <1>6, <1>8
<1>10. Capture(files) = SubSeq(found, 1, m)
  BY <1>1, <1>2, <1>3, <1>8 DEF Capture
<1>11. PICK s : s = SubSeq(found, 1, m)
  OBVIOUS
<1>12. s \in Seq(Paths) /\ Len(s) = m /\ \A i \in 1..m : s[i] = found[i]
  <2>1. \A i \in 1..m : found[i] \in Paths
    BY <1>6, <1>9
  <2>2. /\ s \in Seq(Paths) /\ Len(s) = IF 1 <= m THEN m - 1 + 1 ELSE 0
        /\ \A i \in 1..(m - 1 + 1) : s[i] = found[1 + i - 1]
    BY <1>9, <1>11, <2>1, SubSeqProperties
  <2>3. (IF 1 <= m THEN m - 1 + 1 ELSE 0) = m /\ m - 1 + 1 = m /\ \A i \in 1..m : 1 + i - 1 = i
    BY <1>9
  <2>. QED  BY <2>2, <2>3
<1>13. DOMAIN s = 1..m
  BY <1>12, LenProperties
<1>14. Distinct(s)
  BY <1>3, <1>5, <1>9, <1>12 DEF Distinct
<1>15. ToSet(s) \subseteq E
  BY <1>7, <1>9, <1>12, <1>13 DEF ToSet
<1>16. ASSUME Complete(files)  PROVE ToSet(s) = E
  <2>1. found \in Bijection(1..n, E)
    <3>1. found \in [1..n -> E]
      BY <1>6, <1>7
    <3>2. \A i, j \in 1..n : found[i] = found[j] => i = j
      BY <1>3, <1>5 DEF Distinct
    <3>3. \A p \in E : \E i \in 1..n : found[i] = p
      BY <1>5, <1>6 DEF ToSet
    <3>. QED  BY <3>1, <3>2, <3>3 DEF Bijection, Injection, Surjection, IsInjective
  <2>2. Cardinality(E) = n
    BY <1>6, <2>1, FS_CountingElements DEF ExistsBijection
  <2>3. n <= MaxFiles
    BY <1>1, <1>16, <2>2 DEF Complete
  <2>4. m = n
    BY <1>4, <1>6, <1>8, <2>3
  <2>. QED  BY <1>3, <1>5, <1>11, <2>4, SubSeqFull
<1>. QED  BY <1>1, <1>9, <1>10, <1>11, <1>12, <1>14, <1>15, <1>16

\* The files whose lines stand in the difference, if there is room.
Renewed(old, new) == ToSet(new) \cap (touched \cup (Paths \ ToSet(old)))
Gone(old, new) == ToSet(old) \ ToSet(new)

LEMMA DiffIs ==
  ASSUME NEW old \in Seq(Paths), NEW new \in Seq(Paths), Distinct(old), Distinct(new)
  PROVE  /\ Diff(old, new) \in Seq(Line)
         /\ \A i \in 1..Len(Diff(old, new)) :
              IF Diff(old, new)[i].op = "-" THEN Diff(old, new)[i].path \in Gone(old, new)
                                            ELSE Diff(old, new)[i].path \in Renewed(old, new)
         /\ RoomFor(Renewed(old, new) \cup Gone(old, new)) < Room =>
              \A p \in Renewed(old, new) \cup Gone(old, new) :
                \E i \in 1..Len(Diff(old, new)) : Diff(old, new)[i].path = p
<1>1. PICK changed : changed = Among(new, touched \cup (Paths \ ToSet(old)))
  OBVIOUS
<1>2. PICK gone : gone = Among(old, Paths \ ToSet(new))
  OBVIOUS
<1>3. changed \in Seq(Paths) /\ Distinct(changed) /\ ToSet(changed) = Renewed(old, new)
  BY <1>1, AmongIs DEF Renewed
<1>4. gone \in Seq(Paths) /\ Distinct(gone) /\ ToSet(gone) = Gone(old, new)
  <2>1. \A p \in ToSet(old) : p \in Paths
    BY LenProperties, ElementOfSeq DEF ToSet
  <2>2. ToSet(old) \cap (Paths \ ToSet(new)) = Gone(old, new)
    BY <2>1 DEF Gone
  <2>. QED  BY <1>2, <2>2, AmongIs
<1>5. PICK a : a = Len(changed)
  OBVIOUS
<1>6. PICK b : b = Len(gone)
  OBVIOUS
<1>7. /\ a \in Nat /\ b \in Nat /\ DOMAIN changed = 1..a /\ DOMAIN gone = 1..b
      /\ \A i \in 1..a : changed[i] \in Paths
      /\ \A i \in 1..b : gone[i] \in Paths
  BY <1>3, <1>4, <1>5, <1>6, LenProperties, ElementOfSeq
<1>8. PICK plus : plus = [i \in 1..a |-> [op |-> IF changed[i] \in ToSet(old) THEN "M" ELSE "+", path |-> changed[i]]]
  OBVIOUS
<1>9. PICK minus : minus = [i \in 1..b |-> [op |-> "-", path |-> gone[i]]]
  OBVIOUS
<1>10. PICK all : all = plus \o minus
  OBVIOUS
<1>11. Diff(old, new) = Fitting(all)
  BY <1>1, <1>2, <1>5, <1>6, <1>8, <1>9, <1>10 DEF Diff, LinesOf
<1>12. plus \in Seq(Line) /\ Len(plus) = a /\ \A i \in 1..a : plus[i].path = changed[i] /\ plus[i].op # "-"
  <2>1. plus \in [1..a -> Line]
    BY <1>7, <1>8 DEF Line
  <2>2. plus \in Seq(Line)
    BY <1>7, <2>1, SeqDef
  <2>3. DOMAIN plus = 1..a
    BY <1>8
  <2>4. Len(plus) = a
    BY <1>7, <2>2, <2>3, LenProperties
  <2>. QED  BY <1>8, <2>2, <2>4
<1>13. minus \in Seq(Line) /\ Len(minus) = b /\ \A i \in 1..b : minus[i].path = gone[i] /\ minus[i].op = "-"
  <2>1. minus \in [1..b -> Line]
    BY <1>7, <1>9 DEF Line
  <2>2. minus \in Seq(Line)
    BY <1>7, <2>1, SeqDef
  <2>3. DOMAIN minus = 1..b
    BY <1>9
  <2>4. Len(minus) = b
    BY <1>7, <2>2, <2>3, LenProperties
  <2>. QED  BY <1>9, <2>2, <2>4
<1>14. /\ all \in Seq(Line) /\ Len(all) = a + b
       /\ \A i \in 1..(a + b) : all[i] = IF i <= a THEN plus[i] ELSE minus[i - a]
  <2>1. plus \in Seq(Line) /\ minus \in Seq(Line) /\ Len(plus) = a /\ Len(minus) = b
    BY <1>12, <1>13
  <2>2. /\ plus \o minus \in Seq(Line) /\ Len(plus \o minus) = Len(plus) + Len(minus)
        /\ \A i \in 1..(Len(plus) + Len(minus)) :
             (plus \o minus)[i] = IF i <= Len(plus) THEN plus[i] ELSE minus[i - Len(plus)]
    BY <2>1, ConcatProperties
  <2>. QED  BY <1>10, <2>1, <2>2
<1>15. DOMAIN all = 1..(a + b)
  BY <1>14, LenProperties
<1>16. \A i \in 1..(a + b) : i \in 1..a \/ (i - a \in 1..b /\ ~ i <= a)
  BY <1>7
<1>17. ASSUME NEW i \in 1..(a + b)
       PROVE  /\ i \in 1..a => all[i].path = changed[i] /\ all[i].op # "-"
              /\ i \notin 1..a => all[i].path = gone[i - a] /\ all[i].op = "-"
  <2>1. CASE i \in 1..a
    <3>1. i <= a
      BY <1>7, <2>1
    <3>. QED  BY <1>12, <1>14, <2>1, <3>1
  <2>2. CASE i \notin 1..a
    <3>1. i - a \in 1..b /\ ~ i <= a
      BY <1>16, <2>2
    <3>. QED  BY <1>13, <1>14, <2>2, <3>1
  <2>. QED  BY <2>1, <2>2
<1>18. /\ \A i \in 1..a : changed[i] \in Renewed(old, new)
       /\ \A i \in 1..b : gone[i] \in Gone(old, new)
  BY <1>3, <1>4, <1>7 DEF ToSet
<1>19. ASSUME NEW i \in 1..(a + b)
       PROVE  IF all[i].op = "-" THEN all[i].path \in Gone(old, new) ELSE all[i].path \in Renewed(old, new)
  <2>1. CASE i \in 1..a
    BY <1>17, <1>18, <2>1
  <2>2. CASE i \notin 1..a
    BY <1>16, <1>17, <1>18, <2>2
  <2>. QED  BY <2>1, <2>2
<1>20. PICK d : d = Diff(old, new)
  OBVIOUS
<1>21. d \in Seq(Line) /\ ToSet(d) \subseteq ToSet(all)
  BY <1>11, <1>14, <1>20, FittingKeeps
<1>22. ASSUME NEW i \in 1..Len(d)
       PROVE  IF d[i].op = "-" THEN d[i].path \in Gone(old, new) ELSE d[i].path \in Renewed(old, new)
  <2>1. DOMAIN d = 1..Len(d)
    BY <1>21, LenProperties
  <2>2. d[i] \in ToSet(all)
    BY <1>21, <2>1 DEF ToSet
  <2>3. PICK j \in 1..(a + b) : d[i] = all[j]
    BY <1>15, <2>2 DEF ToSet
  <2>. QED  BY <1>19, <2>3
<1>23. ASSUME RoomFor(Renewed(old, new) \cup Gone(old, new)) < Room,
              NEW p \in Renewed(old, new) \cup Gone(old, new)
       PROVE  \E i \in 1..Len(d) : d[i].path = p
  <2>1. \A i \in 1..Len(all) : all[i].path \in Renewed(old, new) \cup Gone(old, new)
    BY <1>14, <1>19
  <2>2. ASSUME NEW i \in 1..(a + b), NEW j \in 1..(a + b), all[i].path = all[j].path
        PROVE  i = j
    <3>1. CASE i \in 1..a /\ j \in 1..a
      BY <1>3, <1>5, <1>17, <2>2, <3>1 DEF Distinct
    <3>2. CASE i \notin 1..a /\ j \notin 1..a
      <4>1. i - a \in 1..b /\ j - a \in 1..b /\ gone[i - a] = gone[j - a]
        BY <1>16, <1>17, <2>2, <3>2
      <4>2. i - a = j - a
        BY <1>4, <1>6, <4>1 DEF Distinct
      <4>. QED  BY <1>7, <4>2
    <3>3. Renewed(old, new) \cap Gone(old, new) = {}
      BY DEF Renewed, Gone
    <3>4. CASE i \in 1..a /\ j \notin 1..a
      BY <1>16, <1>17, <1>18, <2>2, <3>3, <3>4
    <3>5. CASE i \notin 1..a /\ j \in 1..a
      BY <1>16, <1>17, <1>18, <2>2, <3>3, <3>5
    <3>. QED  BY <3>1, <3>2, <3>4, <3>5
  <2>3. d = all
    <3>1. \A i, j \in 1..Len(all) : all[i].path = all[j].path => i = j
      BY <1>14, <2>2
    <3>2. PICK wanted : wanted = Renewed(old, new) \cup Gone(old, new)
      OBVIOUS
    <3>3. RoomFor(wanted) < Room /\ \A i \in 1..Len(all) : all[i].path \in wanted
      BY <1>23, <2>1, <3>2
    <3>. QED  BY <1>11, <1>14, <1>20, <3>1, <3>3, FittingAll
  <2>4. CASE p \in Renewed(old, new)
    <3>1. PICK i \in 1..a : changed[i] = p
      BY <1>3, <1>7, <2>4 DEF ToSet
    <3>2. i \in 1..(a + b)
      BY <1>7, <3>1
    <3>. QED  BY <1>14, <1>17, <2>3, <3>1, <3>2
  <2>5. CASE p \in Gone(old, new)
    <3>1. PICK i \in 1..b : gone[i] = p
      BY <1>4, <1>7, <2>5 DEF ToSet
    <3>2. i + a \in 1..(a + b) /\ i + a \notin 1..a /\ (i + a) - a = i
      BY <1>7, <3>1
    <3>3. all[i + a].path = p
      BY <1>17, <3>1, <3>2
    <3>. QED  BY <1>14, <2>3, <3>2, <3>3
  <2>. QED  BY <1>23, <2>4, <2>5
<1>. QED  BY <1>20, <1>21, <1>22, <1>23

-----------------------------------------------------------------------------
(* The invariant. *)

\* A content that has been written so far, n writes having been made.
Written(d, n) == d = Absent \/ d[2] <= n \/ d[2] = MaxWrites + 1
WrittenAnswers(n) == {x \in Answers : x.op = "read" => Written(x.data, n)}

UsedTypes == used \in [writes : 0..MaxWrites, execs : Nat, faults : Nat]

\* What outlives a call,
World ==
  /\ host \in [Paths -> Content] /\ guest \in [Paths -> Content]
  /\ UsedTypes /\ tainted \in BOOLEAN
  /\ late \in Seq(Answers) /\ (late # <<>> => tainted)
  /\ \A p \in Paths : Written(host[p], used.writes) /\ Written(guest[p], used.writes)
  /\ late \in Seq(WrittenAnswers(used.writes))

\* and what is its own.
CallTypes ==
  /\ pc \in {"idle", "push", "command", "pull"}
  /\ opts \in [sync : BOOLEAN, capture : BOOLEAN]
  /\ todo \subseteq Paths /\ (pc # "push" => todo = {})
  /\ pre \in Seq(Paths) /\ Len(pre) <= MaxFiles /\ ToSet(pre) \subseteq Watched
  /\ touched \subseteq Paths /\ others \subseteq Paths
  /\ lines \in Seq(Line) /\ (pc # "pull" => lines = <<>>)
  /\ before \in [Paths -> Content] /\ after \in [Paths -> Content]
  /\ \A p \in Paths : Written(before[p], used.writes)

Commanded ==
  IF pc = "command"
  THEN /\ pre = IF opts.capture THEN Capture(before) ELSE <<>>
       /\ \A p \in Paths : guest[p] # before[p] => p \in touched
       /\ \A p \in touched : guest[p] = Absent \/ guest[p] # before[p]
  ELSE touched = {}

Right(l) == IF l.op = "-" THEN before[l.path] # Absent /\ after[l.path] = Absent
                          ELSE after[l.path] # Absent
Listed(p) == \E i \in 1..Len(lines) : lines[i].path = p

Pulling ==
  pc = "pull" /\ ~tainted =>
    /\ \A p \in Paths \ others : guest[p] = after[p]
    /\ Complete(before) /\ Complete(after) =>
         /\ \A i \in 1..Len(lines) : Right(lines[i])
         /\ opts.sync /\ opts.capture /\ ran /\ Fits =>
              \A p \in (Changed \cap Watched) \ others : Plain(p) => host[p] = after[p] \/ Listed(p)

MountInv == World /\ CallTypes /\ Commanded /\ Pulling

-----------------------------------------------------------------------------
(* Contents and answers. *)

LEMMA Bounds == MaxWrites \in Nat /\ MaxExecs \in Nat /\ MaxFaults \in Nat /\ MaxFiles \in Nat
BY MountAssumption

LEMMA ContentIs ==
  /\ Absent \in Content
  /\ \A p \in Paths : \A n \in 0..MaxWrites : /\ <<p, n>> \in Content /\ Torn(p) \in Content
                                              /\ <<p, n>> # Absent /\ Torn(p) # Absent
  /\ \A d \in Content : d # Absent => d[2] \in 0..(MaxWrites + 1)
<1>1. \A p \in Paths : \A n \in 0..(MaxWrites + 1) : <<p, n>> \in Content
  BY DEF Content
<1>2. \A n \in 0..MaxWrites : n \in 0..(MaxWrites + 1)
  BY Bounds
<1>3. MaxWrites + 1 \in 0..(MaxWrites + 1)
  BY Bounds
<1>. QED  BY <1>1, <1>2, <1>3 DEF Content, Torn, Absent

LEMMA WrittenGrows ==
  ASSUME NEW n \in Nat, NEW m \in Nat, n <= m, NEW d \in Content, Written(d, n)
  PROVE  Written(d, m)
BY ContentIs, Bounds DEF Written

LEMMA NewIsWritten ==
  ASSUME NEW n \in 0..MaxWrites, NEW p \in Paths
  PROVE  Written(Absent, n) /\ Written(<<p, n>>, n) /\ Written(Torn(p), n)
BY Bounds DEF Written, Torn

LEMMA AnswersGrow ==
  ASSUME NEW n \in Nat, NEW m \in Nat, n <= m
  PROVE  WrittenAnswers(n) \subseteq WrittenAnswers(m)
<1>1. ASSUME NEW x \in Answers, x.op = "read"  PROVE x.data \in Content
  BY <1>1 DEF Answers
<1>. QED  BY <1>1, WrittenGrows DEF WrittenAnswers

LEMMA Stream ==
  ASSUME NEW S, late \in Seq(S), NEW x \in S
  PROVE  /\ Taken(x) \in S /\ Tail(Append(late, x)) \in Seq(S) /\ Append(late, x) \in Seq(S)
         /\ late = <<>> => Taken(x) = x /\ Tail(Append(late, x)) = <<>>
<1>1. PICK t : t = Append(late, x)
  OBVIOUS
<1>2. t \in Seq(S) /\ t # <<>>
  BY <1>1, AppendProperties
<1>3. Head(t) \in S /\ Tail(t) \in Seq(S)
  BY <1>2, HeadTailProperties
<1>4. late = <<>> => Head(t) = x /\ Tail(t) = <<>>
  BY <1>1, HeadTailAppend
<1>. QED  BY <1>1, <1>2, <1>3, <1>4 DEF Taken

\* What the guest answers has been written.
LEMMA WriteWritten == ASSUME NEW n, NEW ok \in BOOLEAN  PROVE WriteAnswer(ok) \in WrittenAnswers(n)
BY DEF WriteAnswer, WrittenAnswers, Answers

LEMMA FailedWritten == ASSUME NEW n  PROVE FailedAnswer \in WrittenAnswers(n) /\ FailedAnswer.lines = <<>>
<1>1. <<>> \in Seq(Line)
  BY EmptySeq
<1>. QED  BY <1>1 DEF FailedAnswer, WrittenAnswers, Answers, Line

LEMMA ExecWritten ==
  ASSUME MountInv, pc = "command", NEW n
  PROVE  ExecAnswer \in WrittenAnswers(n)
<1>1. Capture(guest) \in Seq(Paths) /\ Distinct(Capture(guest))
  BY CaptureIs
<1>2. opts.capture => pre \in Seq(Paths) /\ Distinct(pre)
  BY CaptureIs DEF MountInv, Commanded
<1>3. opts.capture => Diff(pre, Capture(guest)) \in Seq(Line)
  BY <1>1, <1>2, DiffIs
<1>4. <<>> \in Seq(Line)
  BY EmptySeq
<1>5. PICK ls : ls = IF opts.capture THEN Diff(pre, Capture(guest)) ELSE <<>>
  OBVIOUS
<1>6. ls \in Seq(Line)
  BY <1>3, <1>4, <1>5
<1>7. ExecAnswer = [op |-> "exec", lines |-> ls]
  BY <1>5 DEF ExecAnswer
<1>. QED  BY <1>6, <1>7 DEF WrittenAnswers, Answers, Line

LEMMA TargetIs ==
  ASSUME CallTypes, lines # <<>>
  PROVE  /\ Head(lines) \in Line /\ Target \in Paths /\ Tail(lines) \in Seq(Line)
         /\ Len(lines) \in Nat /\ 1 \in 1..Len(lines) /\ Head(lines) = lines[1]
         /\ Len(Tail(lines)) = Len(lines) - 1
         /\ \A i \in 1..(Len(lines) - 1) : Tail(lines)[i] = lines[i + 1] /\ i + 1 \in 1..Len(lines)
<1>1. lines \in Seq(Line)
  BY DEF CallTypes
<1>2. /\ Head(lines) \in Line /\ Tail(lines) \in Seq(Line) /\ Len(Tail(lines)) = Len(lines) - 1
      /\ \A i \in 1..Len(Tail(lines)) : Tail(lines)[i] = lines[i + 1]
  BY <1>1, HeadTailProperties
<1>3. Len(lines) \in Nat /\ Len(lines) # 0
  BY <1>1, EmptySeq, LenProperties
<1>4. Target \in Paths
  BY <1>2, MountAssumption DEF Target, Line
<1>5. Head(lines) = lines[1]
  BY <1>1, <1>3
<1>6. 1 \in 1..Len(lines) /\ \A i \in 1..(Len(lines) - 1) : i + 1 \in 1..Len(lines)
  BY <1>3
<1>. QED  BY <1>2, <1>3, <1>4, <1>5, <1>6

LEMMA ReadWritten ==
  ASSUME MountInv, lines # <<>>
  PROVE  FileRead \in WrittenAnswers(used.writes)
<1>1. Target \in Paths
  BY TargetIs DEF MountInv
<1>2. guest[Target] \in Content /\ Written(guest[Target], used.writes)
  BY <1>1 DEF MountInv, World
<1>3. PICK d : d = guest[Target]
  OBVIOUS
<1>4. FileRead = [op |-> "read", data |-> d]
  BY <1>3 DEF FileRead
<1>. QED  BY <1>2, <1>3, <1>4 DEF WrittenAnswers, Answers

\* The reads that are taken have been written.
LEMMA TakenRead ==
  ASSUME NEW n, NEW x \in WrittenAnswers(n)
  PROVE  /\ x.op = "read" => x.data \in Content /\ Written(x.data, n)
         /\ x.op = "exec" => x.lines \in Seq(Line)
<1>1. x \in Answers
  BY DEF WrittenAnswers
<1>2. x.op = "read" => x.data \in Content
  BY <1>1 DEF Answers
<1>3. x.op = "exec" => x.lines \in Seq(Line)
  BY <1>1 DEF Answers, Line
<1>. QED  BY <1>2, <1>3 DEF WrittenAnswers

LEMMA WrittenAreAnswers == \A n : WrittenAnswers(n) \subseteq Answers
BY DEF WrittenAnswers

\* A call that takes the next answer, or leaves its own in the stream.
LEMMA InTimeKeeps ==
  ASSUME MountInv, NEW x \in WrittenAnswers(used.writes), InTime(x)
  PROVE  /\ late' \in Seq(WrittenAnswers(used.writes)) /\ late' \in Seq(Answers)
         /\ tainted' = tainted /\ (late' # <<>> => tainted')
         /\ Taken(x) \in WrittenAnswers(used.writes) /\ (~tainted => Taken(x) = x)
<1>1. late \in Seq(WrittenAnswers(used.writes)) /\ (late # <<>> => tainted)
  BY DEF MountInv, World
<1>2. /\ Taken(x) \in WrittenAnswers(used.writes)
      /\ Tail(Append(late, x)) \in Seq(WrittenAnswers(used.writes))
      /\ late = <<>> => Taken(x) = x /\ Tail(Append(late, x)) = <<>>
  BY <1>1, Stream
<1>3. late' = Tail(Append(late, x)) /\ tainted' = tainted
  BY DEF InTime
<1>4. late' \in Seq(Answers)
  BY <1>2, <1>3, WrittenAreAnswers, SeqMonotonic
<1>. QED  BY <1>1, <1>2, <1>3, <1>4

LEMMA LateKeeps ==
  ASSUME MountInv, NEW x \in WrittenAnswers(used.writes), Late(x)
  PROVE  late' \in Seq(WrittenAnswers(used.writes)) /\ late' \in Seq(Answers) /\ tainted' = TRUE
<1>1. late \in Seq(WrittenAnswers(used.writes))
  BY DEF MountInv, World
<1>2. Append(late, x) \in Seq(WrittenAnswers(used.writes))
  BY <1>1, Stream
<1>3. late' = Append(late, x) /\ tainted' = TRUE
  BY DEF Late
<1>. QED  BY <1>2, <1>3, WrittenAreAnswers, SeqMonotonic

-----------------------------------------------------------------------------
(* What a step does to the world. *)

LEMMA Uses ==
  ASSUME UsedTypes, NEW what, NEW max \in Nat, Use(what, max),
         what \in {"execs", "faults"} \/ (what = "writes" /\ max = MaxWrites)
  PROVE  /\ UsedTypes' /\ used.writes \in Nat /\ used'.writes \in Nat
         /\ used'.writes = IF what = "writes" THEN used.writes + 1 ELSE used.writes
<1>1. used' = [used EXCEPT ![what] = @ + 1] /\ used[what] < max
  BY DEF Use
<1>. QED  BY <1>1, Bounds DEF UsedTypes

LEMMA WorldKept ==
  ASSUME World, UsedTypes', used.writes <= used'.writes,
         host' \in [Paths -> Content], guest' \in [Paths -> Content],
         \A p \in Paths : host'[p] = host[p] \/ Written(host'[p], used'.writes),
         \A p \in Paths : guest'[p] = guest[p] \/ Written(guest'[p], used'.writes),
         late' \in Seq(WrittenAnswers(used.writes)),
         tainted' \in BOOLEAN, late' # <<>> => tainted'
  PROVE  World'
<1>1. used.writes \in Nat /\ used'.writes \in Nat
  BY Bounds DEF World, UsedTypes
<1>2. \A d \in Content : Written(d, used.writes) => Written(d, used'.writes)
  BY <1>1, WrittenGrows
<1>3. late' \in Seq(WrittenAnswers(used'.writes))
  <2>1. WrittenAnswers(used.writes) \subseteq WrittenAnswers(used'.writes)
    BY <1>1, AnswersGrow
  <2>. QED  BY <2>1, SeqMonotonic
<1>4. late' \in Seq(Answers)
  BY WrittenAreAnswers, SeqMonotonic
<1>5. \A p \in Paths : Written(host'[p], used'.writes) /\ Written(guest'[p], used'.writes)
  BY <1>2 DEF World
<1>. QED  BY <1>3, <1>4, <1>5 DEF World

\* One file changes.
LEMMA OneFile ==
  ASSUME NEW f \in [Paths -> Content], NEW p \in Paths, NEW d \in Content, NEW g, g = [f EXCEPT ![p] = d]
  PROVE  g \in [Paths -> Content] /\ g[p] = d /\ \A q \in Paths : q # p => g[q] = f[q]
OBVIOUS

LEMMA HostEditWorld ==
  ASSUME MountInv, NEW p \in Paths, HostEdit(p)
  PROVE  World' /\ used.writes <= used'.writes /\ (\A q \in Paths : q # p => host'[q] = host[q])
<1>1. UsedTypes' /\ used.writes \in Nat /\ used'.writes = used.writes + 1
  BY Uses, Bounds DEF HostEdit, MountInv, World
<1>2. PICK d \in {Absent, <<p, used'.writes>>} : host' = [host EXCEPT ![p] = d]
  BY DEF HostEdit
<1>3. used'.writes \in 0..MaxWrites
  BY <1>1 DEF UsedTypes
<1>4. d \in Content /\ Written(d, used'.writes)
  BY <1>2, <1>3, ContentIs, NewIsWritten
<1>5. /\ host' \in [Paths -> Content] /\ host'[p] = d /\ \A q \in Paths : q # p => host'[q] = host[q]
  BY <1>2, <1>4 DEF MountInv, World
<1>6. guest' = guest /\ late' = late /\ tainted' = tainted
  BY DEF HostEdit
<1>7. World'
  <2>1. \A q \in Paths : host'[q] = host[q] \/ Written(host'[q], used'.writes)
    BY <1>4, <1>5
  <2>2. used.writes <= used'.writes
    BY <1>1
  <2>3. /\ World /\ guest \in [Paths -> Content] /\ tainted \in BOOLEAN /\ (late # <<>> => tainted)
        /\ late \in Seq(WrittenAnswers(used.writes))
    BY DEF MountInv, World
  <2>. QED  BY <1>1, <1>5, <1>6, <2>1, <2>2, <2>3, WorldKept
<1>. QED  BY <1>1, <1>5, <1>7

LEMMA GuestChangeWorld ==
  ASSUME MountInv, NEW p \in Paths, GuestChange(p)
  PROVE  /\ World' /\ used.writes <= used'.writes /\ (\A q \in Paths : q # p => guest'[q] = guest[q])
         /\ guest'[p] \in {Absent, <<p, used.writes + 1>>} /\ guest'[p] # guest[p]
         /\ used.writes + 1 \in 0..MaxWrites
<1>1. UsedTypes' /\ used.writes \in Nat /\ used'.writes = used.writes + 1
  BY Uses, Bounds DEF GuestChange, MountInv, World
<1>2. PICK d \in {Absent, <<p, used'.writes>>} : guest[p] # d /\ guest' = [guest EXCEPT ![p] = d]
  BY DEF GuestChange
<1>3. used'.writes \in 0..MaxWrites
  BY <1>1 DEF UsedTypes
<1>4. d \in Content /\ Written(d, used'.writes)
  BY <1>2, <1>3, ContentIs, NewIsWritten
<1>5. /\ guest' \in [Paths -> Content] /\ guest'[p] = d /\ \A q \in Paths : q # p => guest'[q] = guest[q]
  BY <1>2, <1>4 DEF MountInv, World
<1>6. host' = host /\ late' = late /\ tainted' = tainted
  BY DEF GuestChange
<1>7. World'
  <2>1. \A q \in Paths : guest'[q] = guest[q] \/ Written(guest'[q], used'.writes)
    BY <1>4, <1>5
  <2>2. used.writes <= used'.writes
    BY <1>1
  <2>3. /\ World /\ host \in [Paths -> Content] /\ tainted \in BOOLEAN /\ (late # <<>> => tainted)
        /\ late \in Seq(WrittenAnswers(used.writes))
    BY DEF MountInv, World
  <2>. QED  BY <1>1, <1>5, <1>6, <2>1, <2>2, <2>3, WorldKept
<1>. QED  BY <1>1, <1>2, <1>3, <1>5, <1>7

\* What is copied into the guest comes from the host, or is torn.
LEMMA PushWorld ==
  ASSUME MountInv, NEW p \in Paths,
         Push(p) \/ PushTimeout(p) \/ PushSkipped(p) \/ PushRefused(p)
  PROVE  World' /\ used'.writes = used.writes
<1>1. UsedTypes' /\ used'.writes = used.writes /\ used.writes \in 0..MaxWrites
  <2>1. UsedTypes
    BY DEF MountInv, World
  <2>2. CASE used' = used
    BY <2>1, <2>2 DEF UsedTypes
  <2>3. CASE Use("faults", MaxFaults)
    BY <2>1, <2>3, Uses, Bounds DEF UsedTypes
  <2>. QED  BY <2>2, <2>3 DEF Push, PushTimeout, PushSkipped, PushRefused
<1>2. host' = host
  BY DEF Push, PushTimeout, PushSkipped, PushRefused, Copying
<1>3. /\ World /\ host \in [Paths -> Content] /\ guest \in [Paths -> Content] /\ tainted \in BOOLEAN
      /\ (late # <<>> => tainted) /\ late \in Seq(WrittenAnswers(used.writes))
      /\ host[p] \in Content /\ Written(host[p], used.writes)
  BY DEF MountInv, World
<1>4. guest' = guest \/ guest' = [guest EXCEPT ![p] = host[p]] \/ guest' = [guest EXCEPT ![p] = Torn(p)]
  BY DEF Push, PushTimeout, PushSkipped, PushRefused
<1>5. Torn(p) \in Content /\ Written(Torn(p), used.writes)
  BY <1>1, ContentIs, NewIsWritten
<1>6. /\ guest' \in [Paths -> Content]
      /\ \A q \in Paths : guest'[q] = guest[q] \/ Written(guest'[q], used'.writes)
  <2>1. ASSUME NEW d \in Content, Written(d, used.writes), guest' = [guest EXCEPT ![p] = d]
        PROVE  /\ guest' \in [Paths -> Content]
               /\ \A q \in Paths : guest'[q] = guest[q] \/ Written(guest'[q], used'.writes)
    BY <1>1, <1>3, <2>1
  <2>. QED  BY <1>3, <1>4, <1>5, <2>1
<1>7. /\ late' \in Seq(WrittenAnswers(used.writes)) /\ tainted' \in BOOLEAN /\ (late' # <<>> => tainted')
  <2>1. ASSUME NEW ok \in BOOLEAN, InTime(WriteAnswer(ok))
        PROVE  late' \in Seq(WrittenAnswers(used.writes)) /\ tainted' \in BOOLEAN /\ (late' # <<>> => tainted')
    <3>1. WriteAnswer(ok) \in WrittenAnswers(used.writes)
      BY WriteWritten
    <3>. QED  BY <1>3, <2>1, <3>1, InTimeKeeps
  <2>2. ASSUME NEW ok \in BOOLEAN, Late(WriteAnswer(ok))
        PROVE  late' \in Seq(WrittenAnswers(used.writes)) /\ tainted' \in BOOLEAN /\ (late' # <<>> => tainted')
    <3>1. WriteAnswer(ok) \in WrittenAnswers(used.writes)
      BY WriteWritten
    <3>. QED  BY <2>2, <3>1, LateKeeps
  <2>3. CASE late' = late /\ tainted' = tainted
    BY <1>3, <2>3
  <2>. QED  BY <2>1, <2>2, <2>3 DEF Push, PushTimeout, PushSkipped, PushRefused
<1>8. used.writes <= used'.writes
  BY <1>1
<1>. QED  BY <1>1, <1>2, <1>3, <1>6, <1>7, <1>8, WorldKept

LEMMA AnswerWorld ==
  ASSUME MountInv, Finish \/ RunFails \/ ExecTimeout
  PROVE  World' /\ used'.writes = used.writes
<1>1. UsedTypes' /\ used'.writes = used.writes /\ used.writes \in 0..MaxWrites
  <2>1. UsedTypes
    BY DEF MountInv, World
  <2>2. CASE used' = used
    BY <2>1, <2>2 DEF UsedTypes
  <2>3. CASE Use("faults", MaxFaults)
    BY <2>1, <2>3, Uses, Bounds DEF UsedTypes
  <2>. QED  BY <2>2, <2>3 DEF Finish, RunFails, ExecTimeout
<1>2. host' = host /\ guest' = guest /\ pc = "command"
  BY DEF Finish, RunFails, ExecTimeout
<1>3. /\ World /\ host \in [Paths -> Content] /\ guest \in [Paths -> Content] /\ tainted \in BOOLEAN
  BY DEF MountInv, World
<1>4. /\ late' \in Seq(WrittenAnswers(used.writes)) /\ tainted' \in BOOLEAN /\ (late' # <<>> => tainted')
  <2>1. ExecAnswer \in WrittenAnswers(used.writes)
    BY <1>2, ExecWritten
  <2>2. CASE InTime(ExecAnswer)
    BY <1>3, <2>1, <2>2, InTimeKeeps
  <2>3. CASE Late(ExecAnswer)
    BY <2>1, <2>3, LateKeeps
  <2>4. CASE InTime(FailedAnswer)
    BY <1>3, <2>4, FailedWritten, InTimeKeeps
  <2>. QED  BY <2>2, <2>3, <2>4 DEF Finish, RunFails, ExecTimeout
<1>5. used.writes <= used'.writes
  BY <1>1
<1>. QED  BY <1>1, <1>2, <1>3, <1>4, <1>5, WorldKept

\* What is copied to the host comes from the guest or from a late answer.
LEMMA PullWorld ==
  ASSUME MountInv, PullRemove \/ PullFile \/ PullTimeout \/ PullSkipped
  PROVE  World' /\ used'.writes = used.writes
<1>1. UsedTypes' /\ used'.writes = used.writes /\ used.writes \in 0..MaxWrites
  <2>1. UsedTypes
    BY DEF MountInv, World
  <2>2. CASE used' = used
    BY <2>1, <2>2 DEF UsedTypes
  <2>3. CASE Use("faults", MaxFaults)
    BY <2>1, <2>3, Uses, Bounds DEF UsedTypes
  <2>. QED  BY <2>2, <2>3 DEF PullRemove, PullFile, PullTimeout, PullSkipped
<1>2. lines # <<>> /\ guest' = guest
  BY DEF PullRemove, PullFile, PullTimeout, PullSkipped, Applying
<1>3. /\ World /\ host \in [Paths -> Content] /\ guest \in [Paths -> Content] /\ tainted \in BOOLEAN
      /\ (late # <<>> => tainted) /\ late \in Seq(WrittenAnswers(used.writes))
  BY DEF MountInv, World
<1>4. Target \in Paths /\ FileRead \in WrittenAnswers(used.writes)
  BY <1>2, TargetIs, ReadWritten DEF MountInv
<1>5. /\ late' \in Seq(WrittenAnswers(used.writes)) /\ tainted' \in BOOLEAN /\ (late' # <<>> => tainted')
  <2>1. CASE InTime(FileRead)
    BY <1>3, <1>4, <2>1, InTimeKeeps
  <2>2. CASE Late(FileRead)
    BY <1>4, <2>2, LateKeeps
  <2>3. CASE late' = late /\ tainted' = tainted
    BY <1>3, <2>3
  <2>. QED  BY <2>1, <2>2, <2>3 DEF PullRemove, PullFile, PullTimeout, PullSkipped
<1>6. ASSUME NEW d \in Content, Written(d, used.writes), host' = [host EXCEPT ![Target] = d]
      PROVE  /\ host' \in [Paths -> Content]
             /\ \A q \in Paths : host'[q] = host[q] \/ Written(host'[q], used'.writes)
  BY <1>1, <1>3, <1>4, <1>6
<1>7. /\ host' \in [Paths -> Content]
      /\ \A q \in Paths : host'[q] = host[q] \/ Written(host'[q], used'.writes)
  <2>1. CASE host' = host
    BY <1>3, <2>1
  <2>2. CASE PullRemove
    <3>1. host' = [host EXCEPT ![Target] = Absent]
      BY <2>2 DEF PullRemove
    <3>2. Absent \in Content /\ Written(Absent, used.writes)
      BY ContentIs DEF Written
    <3>. QED  BY <1>6, <3>1, <3>2
  <2>3. CASE PullFile /\ host' # host
    <3>1. PICK x : x = Taken(FileRead)
      OBVIOUS
    <3>2. x.op = "read" /\ host' = [host EXCEPT ![Target] = x.data]
      BY <2>3, <3>1 DEF PullFile
    <3>3. x \in WrittenAnswers(used.writes)
      BY <1>4, <2>3, <3>1, InTimeKeeps DEF PullFile
    <3>4. x.data \in Content /\ Written(x.data, used.writes)
      BY <3>2, <3>3, TakenRead
    <3>. QED  BY <1>6, <3>2, <3>4
  <2>. QED  BY <2>1, <2>2, <2>3 DEF PullTimeout, PullSkipped
<1>8. used.writes <= used'.writes
  BY <1>1
<1>. QED  BY <1>1, <1>2, <1>3, <1>5, <1>7, <1>8, WorldKept

-----------------------------------------------------------------------------
(* What a step does to the call. *)

LEMMA NothingIs ==
  /\ Nothing \in [Paths -> Content] /\ (\A p \in Paths : \A n : Written(Nothing[p], n))
  /\ <<>> \in Seq(Paths) /\ <<>> \in Seq(Line) /\ Len(<<>>) = 0 /\ Len(<<>>) <= MaxFiles
  /\ ToSet(<<>>) = {}
<1>1. ToSet(<<>>) = {}
  BY DEF ToSet
<1>2. <<>> \in Seq(Paths) /\ <<>> \in Seq(Line) /\ Len(<<>>) = 0
  BY EmptySeq
<1>3. Nothing \in [Paths -> Content] /\ \A p \in Paths : \A n : Written(Nothing[p], n)
  BY ContentIs DEF Nothing, Written
<1>4. Len(<<>>) <= MaxFiles
  BY <1>2, Bounds
<1>. QED  BY <1>1, <1>2, <1>3, <1>4

LEMMA LeaveKeeps ==
  ASSUME Leave
  PROVE  CallTypes' /\ Commanded' /\ Pulling'
<1>1. /\ pc' = "idle" /\ opts' = [sync |-> FALSE, capture |-> FALSE]
      /\ todo' = {} /\ pre' = <<>> /\ touched' = {} /\ lines' = <<>>
      /\ before' = Nothing /\ after' = Nothing /\ others' = {}
  BY DEF Leave
<1>2. CallTypes'
  BY <1>1, NothingIs DEF CallTypes
<1>. QED  BY <1>1, <1>2 DEF Commanded, Pulling

LEMMA BeforeGrows ==
  ASSUME World, CallTypes, World', used.writes <= used'.writes
  PROVE  \A p \in Paths : Written(before[p], used'.writes)
<1>1. used.writes \in Nat /\ used'.writes \in Nat
  BY Bounds DEF World, UsedTypes
<1>2. ASSUME NEW p \in Paths  PROVE Written(before[p], used'.writes)
  <2>1. before[p] \in Content /\ Written(before[p], used.writes)
    BY DEF CallTypes
  <2>. QED  BY <1>1, <2>1, WrittenGrows
<1>. QED  BY <1>2

LEMMA SameCommand ==
  ASSUME before' = before, after' = after
  PROVE  Changed' = Changed /\ (Fits' <=> Fits)
<1>1. Changed' = Changed
  BY DEF Changed
<1>. QED  BY <1>1 DEF Fits

\* While lines are applied, each file is still to be copied or has been.
LEMMA PullStep ==
  ASSUME MountInv, pc = "pull", ~tainted, before' = before, after' = after, ran' = ran, opts' = opts,
         \A p \in Paths \ others' : guest'[p] = guest[p] /\ p \notin others,
         \A i \in 1..Len(lines') : \E j \in 1..Len(lines) : lines'[i] = lines[j],
         Complete(before) /\ Complete(after) =>
           \A p \in (Changed \cap Watched) \ others' :
             Plain(p) /\ (host[p] = after[p] \/ Listed(p)) => host'[p] = after[p] \/ Listed(p)'
  PROVE  Pulling'
<1>1. Changed' = Changed /\ (Fits' <=> Fits)
  BY SameCommand
<1>2. /\ \A p \in Paths \ others : guest[p] = after[p]
      /\ Complete(before) /\ Complete(after) =>
           /\ \A i \in 1..Len(lines) : Right(lines[i])
           /\ opts.sync /\ opts.capture /\ ran /\ Fits =>
                \A p \in (Changed \cap Watched) \ others : Plain(p) => host[p] = after[p] \/ Listed(p)
  BY DEF MountInv, Pulling
<1>3. \A p \in Paths \ others' : guest'[p] = after'[p]
  BY <1>2
<1>4. \A l : Right(l)' <=> Right(l)
  BY DEF Right
<1>5. ASSUME Complete(before), Complete(after)
      PROVE  /\ \A i \in 1..Len(lines') : Right(lines'[i])
             /\ opts.sync /\ opts.capture /\ ran /\ Fits =>
                  \A p \in (Changed \cap Watched) \ others' : Plain(p) => host'[p] = after[p] \/ Listed(p)'
  <2>1. \A i \in 1..Len(lines') : Right(lines'[i])
    BY <1>2, <1>5
  <2>2. Changed \subseteq Paths
    BY DEF Changed
  <2>. QED  BY <1>2, <1>5, <2>1, <2>2
<1>6. Complete(before') /\ Complete(after') =>
        /\ \A i \in 1..Len(lines') : Right(lines[i])'
        /\ opts'.sync /\ opts'.capture /\ ran' /\ Fits' =>
             \A p \in (Changed' \cap Watched) \ others' : Plain(p) => host'[p] = after'[p] \/ Listed(p)'
  BY <1>1, <1>5 DEF Right
<1>. QED  BY <1>3, <1>6 DEF Pulling

LEMMA HostEditCall ==
  ASSUME MountInv, NEW p \in Paths, HostEdit(p)
  PROVE  CallTypes' /\ Commanded' /\ Pulling'
<1>1. World' /\ used.writes <= used'.writes /\ (\A q \in Paths : q # p => host'[q] = host[q])
  BY HostEditWorld
<1>2. /\ guest' = guest /\ pc' = pc /\ opts' = opts /\ todo' = todo /\ pre' = pre /\ touched' = touched
      /\ lines' = lines /\ before' = before /\ after' = after /\ ran' = ran /\ tainted' = tainted
      /\ others' = IF pc = "idle" THEN {} ELSE others \cup {p}
  BY DEF HostEdit
<1>3. CallTypes'
  BY <1>1, <1>2, BeforeGrows DEF MountInv, CallTypes
<1>4. Commanded'
  BY <1>2 DEF MountInv, Commanded
<1>5. Pulling'
  <2>1. CASE pc = "pull" /\ ~tainted
    <3>1. others' = others \cup {p}
      BY <1>2, <2>1
    <3>2. \A q \in Paths \ others' : guest'[q] = guest[q] /\ q \notin others
      BY <1>2, <3>1
    <3>3. \A i \in 1..Len(lines') : \E j \in 1..Len(lines) : lines'[i] = lines[j]
      BY <1>2
    <3>4. \A q \in (Changed \cap Watched) \ others' :
            host[q] = after[q] \/ Listed(q) => host'[q] = after[q] \/ Listed(q)'
      BY <1>1, <1>2, <3>1 DEF Changed, Listed
    <3>. QED  BY <1>2, <2>1, <3>2, <3>3, <3>4, PullStep
  <2>2. CASE ~(pc = "pull" /\ ~tainted)
    BY <1>2, <2>2 DEF Pulling
  <2>. QED  BY <2>1, <2>2
<1>. QED  BY <1>3, <1>4, <1>5

LEMMA ExecCall ==
  ASSUME MountInv, NEW s \in BOOLEAN, NEW c \in BOOLEAN, Exec(s, c)
  PROVE  MountInv'
<1>1. /\ pc = "idle" /\ pc' = "push" /\ opts' = [sync |-> s, capture |-> c]
      /\ todo' = IF s THEN Existing(host) ELSE {}
      /\ host' = host /\ guest' = guest /\ late' = late /\ pre' = pre /\ touched' = touched
      /\ lines' = lines /\ before' = before /\ after' = after /\ ran' = ran /\ others' = others /\ tainted' = tainted
      /\ Use("execs", MaxExecs)
  BY DEF Exec
<1>2. UsedTypes' /\ used.writes \in Nat /\ used'.writes = used.writes
  BY <1>1, Uses, Bounds DEF MountInv, World
<1>3. World'
  BY <1>1, <1>2 DEF MountInv, World
<1>4. todo' \subseteq Paths
  BY <1>1 DEF Existing
<1>5. CallTypes'
  BY <1>1, <1>2, <1>4 DEF MountInv, CallTypes
<1>6. Commanded' /\ Pulling'
  BY <1>1 DEF MountInv, Commanded, Pulling
<1>. QED  BY <1>3, <1>5, <1>6 DEF MountInv

LEMMA PushCall ==
  ASSUME MountInv, NEW p \in Paths,
         Push(p) \/ PushTimeout(p) \/ PushSkipped(p) \/ PushRefused(p)
  PROVE  MountInv'
<1>1. World' /\ used'.writes = used.writes
  BY PushWorld
<1>2. CASE Leave
  BY <1>1, <1>2, LeaveKeeps DEF MountInv
<1>3. CASE ~Leave
  <2>1. /\ Copied(p) /\ (others' = others \/ others' = others \cup {p}) /\ pc = "push"
    BY <1>3 DEF Push, PushTimeout, PushSkipped, PushRefused, Pushed, Copying
  <2>2. /\ todo' = todo \ {p} /\ pc' = pc /\ opts' = opts /\ pre' = pre /\ touched' = touched
        /\ lines' = lines /\ before' = before /\ after' = after /\ ran' = ran
    BY <2>1 DEF Copied
  <2>3. CallTypes'
    BY <1>1, <2>1, <2>2 DEF MountInv, CallTypes
  <2>4. Commanded' /\ Pulling'
    BY <2>1, <2>2 DEF MountInv, Commanded, Pulling
  <2>. QED  BY <1>1, <2>3, <2>4 DEF MountInv
<1>. QED  BY <1>2, <1>3

\* The command starts with what is in the guest, and with the first snapshot of it.
LEMMA RunCall ==
  ASSUME MountInv, Run
  PROVE  MountInv'
<1>1. /\ pc = "push" /\ todo = {} /\ pc' = "command" /\ before' = guest
      /\ pre' = IF opts.capture THEN Capture(guest) ELSE <<>>
      /\ host' = host /\ guest' = guest /\ late' = late /\ opts' = opts /\ todo' = todo
      /\ touched' = touched /\ lines' = lines /\ after' = after /\ others' = others
      /\ used' = used /\ tainted' = tainted
  BY DEF Run
<1>2. World'
  BY <1>1 DEF MountInv, World, UsedTypes
<1>3. pre' \in Seq(Paths) /\ Len(pre') <= MaxFiles /\ ToSet(pre') \subseteq Watched
  <2>1. /\ Capture(guest) \in Seq(Paths) /\ Len(Capture(guest)) <= MaxFiles
        /\ ToSet(Capture(guest)) \subseteq Watched
    BY CaptureIs
  <2>. QED  BY <1>1, <2>1, NothingIs
<1>4. before' \in [Paths -> Content] /\ \A p \in Paths : Written(before'[p], used'.writes)
  BY <1>1 DEF MountInv, World
<1>5. CallTypes'
  BY <1>1, <1>3, <1>4 DEF MountInv, CallTypes
<1>6. Commanded'
  <2>1. touched' = {}
    BY <1>1 DEF MountInv, Commanded
  <2>. QED  BY <1>1, <2>1 DEF Commanded
<1>7. Pulling'
  BY <1>1 DEF Pulling
<1>. QED  BY <1>2, <1>5, <1>6, <1>7 DEF MountInv

\* A file that the command has touched has gone or differs from what it was: a
\* new write is none of those before.
LEMMA CommandCall ==
  ASSUME MountInv, NEW p \in Paths, Command(p)
  PROVE  MountInv'
<1>1. pc = "command" /\ GuestChange(p) /\ touched' = touched \cup {p} /\ others' = others
  BY DEF Command
<1>2. /\ World' /\ used.writes <= used'.writes /\ (\A q \in Paths : q # p => guest'[q] = guest[q])
      /\ guest'[p] \in {Absent, <<p, used.writes + 1>>}
      /\ used.writes + 1 \in 0..MaxWrites
  BY <1>1, GuestChangeWorld
<1>3. /\ pc' = pc /\ opts' = opts /\ todo' = todo /\ pre' = pre /\ lines' = lines
      /\ before' = before /\ after' = after /\ ran' = ran
  BY <1>1 DEF GuestChange
<1>4. CallTypes'
  BY <1>1, <1>2, <1>3, BeforeGrows DEF MountInv, CallTypes
<1>5. guest'[p] = Absent \/ guest'[p] # before[p]
  <2>1. used.writes \in Nat
    BY DEF MountInv, World, UsedTypes
  <2>2. before[p] \in Content /\ Written(before[p], used.writes)
    BY DEF MountInv, CallTypes
  <2>3. <<p, used.writes + 1>> # Absent /\ <<p, used.writes + 1>>[2] = used.writes + 1
    BY DEF Absent
  <2>4. ASSUME guest'[p] = <<p, used.writes + 1>>, before[p] = <<p, used.writes + 1>>  PROVE FALSE
    <3>1. before[p][2] = used.writes + 1 /\ before[p] # Absent
      BY <2>3, <2>4
    <3>2. ~ used.writes + 1 <= used.writes /\ used.writes + 1 # MaxWrites + 1
      BY <1>2, <2>1, Bounds
    <3>. QED  BY <2>2, <3>1, <3>2 DEF Written
  <2>. QED  BY <1>2, <2>4
<1>6. Commanded'
  <2>1. /\ pre = IF opts.capture THEN Capture(before) ELSE <<>>
        /\ \A q \in Paths : guest[q] # before[q] => q \in touched
        /\ \A q \in touched : guest[q] = Absent \/ guest[q] # before[q]
    BY <1>1 DEF MountInv, Commanded
  <2>2. touched \subseteq Paths
    BY DEF MountInv, CallTypes
  <2>3. \A q \in Paths : guest'[q] # before'[q] => q \in touched'
    BY <1>1, <1>2, <1>3, <2>1
  <2>4. \A q \in touched' : guest'[q] = Absent \/ guest'[q] # before'[q]
    BY <1>1, <1>2, <1>3, <1>5, <2>1, <2>2
  <2>. QED  BY <1>1, <1>3, <2>1, <2>3, <2>4 DEF Commanded
<1>7. Pulling'
  BY <1>1, <1>3 DEF Pulling
<1>. QED  BY <1>2, <1>4, <1>6, <1>7 DEF MountInv

LEMMA BackgroundCall ==
  ASSUME MountInv, NEW p \in Paths, Background(p)
  PROVE  MountInv'
<1>1. /\ pc # "command" /\ GuestChange(p) /\ touched' = touched
      /\ others' = IF pc = "idle" THEN {} ELSE others \cup {p}
  BY DEF Background
<1>2. World' /\ used.writes <= used'.writes /\ (\A q \in Paths : q # p => guest'[q] = guest[q])
  BY <1>1, GuestChangeWorld
<1>3. /\ pc' = pc /\ opts' = opts /\ todo' = todo /\ pre' = pre /\ lines' = lines
      /\ before' = before /\ after' = after /\ ran' = ran /\ host' = host /\ tainted' = tainted
  BY <1>1 DEF GuestChange
<1>4. CallTypes'
  BY <1>1, <1>2, <1>3, BeforeGrows DEF MountInv, CallTypes
<1>5. Commanded'
  BY <1>1, <1>3 DEF MountInv, Commanded
<1>6. Pulling'
  <2>1. CASE pc = "pull" /\ ~tainted
    <3>1. others' = others \cup {p}
      BY <1>1, <2>1
    <3>2. \A q \in Paths \ others' : guest'[q] = guest[q] /\ q \notin others
      BY <1>2, <3>1
    <3>3. \A i \in 1..Len(lines') : \E j \in 1..Len(lines) : lines'[i] = lines[j]
      BY <1>3
    <3>4. \A q \in (Changed \cap Watched) \ others' :
            host[q] = after[q] \/ Listed(q) => host'[q] = after[q] \/ Listed(q)'
      BY <1>3 DEF Listed
    <3>. QED  BY <1>3, <2>1, <3>2, <3>3, <3>4, PullStep
  <2>2. CASE ~(pc = "pull" /\ ~tainted)
    BY <1>3, <2>2 DEF Pulling
  <2>. QED  BY <2>1, <2>2
<1>. QED  BY <1>2, <1>4, <1>5, <1>6 DEF MountInv

-----------------------------------------------------------------------------
(* The end of the command, and the way back. *)

\* Between two snapshots that hold every file, the difference is what the command
\* has changed.
LEMMA DiffOfCommand ==
  ASSUME MountInv, pc = "command", opts.capture, Complete(before), Complete(guest)
  PROVE  LET d == Diff(pre, Capture(guest))
             changed == {p \in Paths : before[p] # guest[p]} \cap Watched
         IN  /\ \A i \in 1..Len(d) :
                  IF d[i].op = "-" THEN before[d[i].path] # Absent /\ guest[d[i].path] = Absent
                                   ELSE guest[d[i].path] # Absent
             /\ RoomFor(changed) < Room => \A p \in changed : \E i \in 1..Len(d) : d[i].path = p
<1>1. PICK old : old = Capture(before)
  OBVIOUS
<1>2. PICK new : new = Capture(guest)
  OBVIOUS
<1>3. /\ old \in Seq(Paths) /\ Distinct(old) /\ ToSet(old) = Existing(before) \cap Watched
      /\ new \in Seq(Paths) /\ Distinct(new) /\ ToSet(new) = Existing(guest) \cap Watched
  BY <1>1, <1>2, CaptureIs
<1>4. /\ pre = old
      /\ \A p \in Paths : guest[p] # before[p] => p \in touched
      /\ \A p \in touched : guest[p] = Absent \/ guest[p] # before[p]
  BY <1>1 DEF MountInv, Commanded
<1>5. PICK d : d = Diff(old, new)
  OBVIOUS
<1>6. PICK changed : changed = {p \in Paths : before[p] # guest[p]} \cap Watched
  OBVIOUS
<1>7. touched \subseteq Paths /\ Watched \subseteq Paths
  BY MountAssumption DEF MountInv, CallTypes
<1>8. \A p \in Gone(old, new) : before[p] # Absent /\ guest[p] = Absent
  BY <1>3, <1>7 DEF Gone, Existing
<1>9. \A p \in Renewed(old, new) : guest[p] # Absent
  BY <1>3 DEF Renewed, Existing
<1>10. Renewed(old, new) \cup Gone(old, new) = changed
  <2>1. ASSUME NEW p \in Renewed(old, new)  PROVE p \in changed
    <3>1. p \in Paths /\ p \in Watched /\ guest[p] # Absent
      BY <1>3, <2>1 DEF Renewed, Existing
    <3>2. p \in touched \/ before[p] = Absent
      BY <1>3, <2>1, <3>1 DEF Renewed, Existing
    <3>3. before[p] # guest[p]
      BY <1>4, <3>1, <3>2
    <3>. QED  BY <1>6, <3>1, <3>3
  <2>2. ASSUME NEW p \in Gone(old, new)  PROVE p \in changed
    BY <1>3, <1>6, <1>8, <2>2 DEF Gone, Existing
  <2>3. ASSUME NEW p \in changed  PROVE p \in Renewed(old, new) \cup Gone(old, new)
    <3>1. p \in Paths /\ p \in Watched /\ before[p] # guest[p] /\ p \in touched
      BY <1>4, <1>6, <2>3
    <3>2. CASE guest[p] = Absent
      BY <1>3, <3>1, <3>2 DEF Gone, Existing
    <3>3. CASE guest[p] # Absent
      BY <1>3, <3>1, <3>3 DEF Renewed, Existing
    <3>. QED  BY <3>2, <3>3
  <2>. QED  BY <2>1, <2>2, <2>3
<1>11. /\ \A i \in 1..Len(d) : IF d[i].op = "-" THEN d[i].path \in Gone(old, new)
                                                ELSE d[i].path \in Renewed(old, new)
       /\ RoomFor(changed) < Room => \A p \in changed : \E i \in 1..Len(d) : d[i].path = p
  <2>1. /\ \A i \in 1..Len(Diff(old, new)) :
              IF Diff(old, new)[i].op = "-" THEN Diff(old, new)[i].path \in Gone(old, new)
                                            ELSE Diff(old, new)[i].path \in Renewed(old, new)
        /\ RoomFor(Renewed(old, new) \cup Gone(old, new)) < Room =>
              \A p \in Renewed(old, new) \cup Gone(old, new) :
                \E i \in 1..Len(Diff(old, new)) : Diff(old, new)[i].path = p
    BY <1>3, DiffIs
  <2>. QED  BY <1>5, <1>10, <2>1
<1>12. \A i \in 1..Len(d) :
         IF d[i].op = "-" THEN before[d[i].path] # Absent /\ guest[d[i].path] = Absent
                          ELSE guest[d[i].path] # Absent
  BY <1>8, <1>9, <1>11
<1>. QED  BY <1>2, <1>4, <1>5, <1>6, <1>11, <1>12

LEMMA FinishCall ==
  ASSUME MountInv, Finish
  PROVE  MountInv'
<1>1. World' /\ used'.writes = used.writes
  BY AnswerWorld
<1>2. CASE Leave
  BY <1>1, <1>2, LeaveKeeps DEF MountInv
<1>3. CASE ~Leave
  <2>1. PICK x : x = Taken(ExecAnswer)
    OBVIOUS
  <2>2. /\ pc = "command" /\ InTime(ExecAnswer) /\ x.op = "exec"
        /\ pc' = "pull" /\ after' = guest /\ ran' = TRUE
        /\ lines' = IF opts.sync /\ opts.capture THEN x.lines ELSE <<>>
        /\ pre' = <<>> /\ touched' = {}
        /\ opts' = opts /\ todo' = todo /\ before' = before /\ others' = others
        /\ host' = host /\ guest' = guest
    BY <1>3, <2>1 DEF Finish, Answered
  <2>3. ExecAnswer \in WrittenAnswers(used.writes)
    BY <2>2, ExecWritten
  <2>4. x \in WrittenAnswers(used.writes) /\ tainted' = tainted /\ (~tainted => x = ExecAnswer)
    BY <2>1, <2>2, <2>3, InTimeKeeps
  <2>5. lines' \in Seq(Line)
    BY <2>2, <2>4, TakenRead, NothingIs
  <2>6. after' \in [Paths -> Content]
    BY <2>2 DEF MountInv, World
  <2>7. CallTypes'
    BY <1>1, <2>2, <2>5, <2>6, NothingIs DEF MountInv, CallTypes
  <2>8. Commanded'
    BY <2>2 DEF Commanded
  <2>9. Pulling'
    <3>. SUFFICES ASSUME ~tainted  PROVE Pulling'
      BY <2>4 DEF Pulling
    <3>1. \A p \in Paths \ others' : guest'[p] = after'[p]
      BY <2>2
    <3>2. PICK changed : changed = {p \in Paths : before[p] # guest[p]} \cap Watched
      OBVIOUS
    <3>3. changed = Changed' \cap Watched /\ (Fits' <=> RoomFor(changed) < Room)
      <4>1. Changed' = {p \in Paths : before[p] # guest[p]}
        BY <2>2 DEF Changed
      <4>. QED  BY <3>2, <4>1 DEF Fits
    <3>4. CASE ~(opts.sync /\ opts.capture)
      <4>1. \A i \in 1..Len(lines') : FALSE
        BY <2>2, <3>4, NothingIs
      <4>. QED  BY <2>2, <3>1, <3>4, <4>1 DEF Pulling
    <3>5. CASE opts.sync /\ opts.capture
      <4>1. ExecAnswer.lines = Diff(pre, Capture(guest))
        BY <3>5 DEF ExecAnswer
      <4>2. lines' = Diff(pre, Capture(guest))
        BY <2>2, <2>4, <3>5, <4>1
      <4>3. ASSUME Complete(before), Complete(guest)
            PROVE  /\ \A i \in 1..Len(lines') :
                        IF lines'[i].op = "-" THEN before[lines'[i].path] # Absent /\ guest[lines'[i].path] = Absent
                                              ELSE guest[lines'[i].path] # Absent
                   /\ RoomFor(changed) < Room => \A p \in changed : \E i \in 1..Len(lines') : lines'[i].path = p
        BY <2>2, <3>2, <3>5, <4>2, <4>3, DiffOfCommand
      <4>4. ASSUME Complete(before'), Complete(after')
            PROVE  /\ \A i \in 1..Len(lines') : Right(lines[i])'
                   /\ Fits' => \A p \in Changed' \cap Watched : Listed(p)'
        <5>1. \A i \in 1..Len(lines') : Right(lines[i])'
          BY <2>2, <4>3, <4>4 DEF Right
        <5>2. Fits' => \A p \in Changed' \cap Watched : Listed(p)'
          BY <2>2, <3>3, <4>3, <4>4 DEF Listed
        <5>. QED  BY <5>1, <5>2
      <4>. QED  BY <3>1, <4>4 DEF Pulling
    <3>. QED  BY <3>4, <3>5
  <2>. QED  BY <1>1, <2>7, <2>8, <2>9 DEF MountInv
<1>. QED  BY <1>2, <1>3

\* After a run that failed there are no lines to apply.
LEMMA RunFailsCall ==
  ASSUME MountInv, RunFails
  PROVE  MountInv'
<1>1. World' /\ used'.writes = used.writes
  BY AnswerWorld
<1>2. CASE Leave
  BY <1>1, <1>2, LeaveKeeps DEF MountInv
<1>3. CASE ~Leave
  <2>1. PICK x : x = Taken(FailedAnswer)
    OBVIOUS
  <2>2. /\ pc = "command" /\ InTime(FailedAnswer) /\ x.op = "exec"
        /\ pc' = "pull" /\ after' = guest /\ ran' = FALSE
        /\ lines' = IF opts.sync /\ opts.capture THEN x.lines ELSE <<>>
        /\ pre' = <<>> /\ touched' = {}
        /\ opts' = opts /\ todo' = todo /\ before' = before /\ others' = others
        /\ host' = host /\ guest' = guest
    BY <1>3, <2>1 DEF RunFails, Answered
  <2>3. x \in WrittenAnswers(used.writes) /\ tainted' = tainted /\ (~tainted => x = FailedAnswer)
    BY <2>1, <2>2, FailedWritten, InTimeKeeps
  <2>4. lines' \in Seq(Line) /\ (~tainted => lines' = <<>>)
    BY <2>2, <2>3, TakenRead, FailedWritten, NothingIs
  <2>5. after' \in [Paths -> Content]
    BY <2>2 DEF MountInv, World
  <2>6. CallTypes'
    BY <1>1, <2>2, <2>4, <2>5, NothingIs DEF MountInv, CallTypes
  <2>7. Commanded'
    BY <2>2 DEF Commanded
  <2>8. Pulling'
    <3>. SUFFICES ASSUME ~tainted  PROVE Pulling'
      BY <2>3 DEF Pulling
    <3>1. \A i \in 1..Len(lines') : FALSE
      BY <2>4, NothingIs
    <3>. QED  BY <2>2, <3>1 DEF Pulling
  <2>. QED  BY <1>1, <2>6, <2>7, <2>8 DEF MountInv
<1>. QED  BY <1>2, <1>3

LEMMA ExecTimeoutCall ==
  ASSUME MountInv, ExecTimeout
  PROVE  MountInv'
<1>1. World' /\ Leave
  BY AnswerWorld DEF ExecTimeout
<1>. QED  BY <1>1, LeaveKeeps DEF MountInv

\* A line is applied to the file whose name stands in it, if that is plain.
LEMMA PullCall ==
  ASSUME MountInv, PullRemove \/ PullFile \/ PullTimeout \/ PullSkipped
  PROVE  MountInv'
<1>1. World' /\ used'.writes = used.writes
  BY PullWorld
<1>2. PICK l : l = Head(lines)
  OBVIOUS
<1>3. /\ pc = "pull" /\ lines # <<>> /\ lines' = Tail(lines)
      /\ guest' = guest /\ pc' = pc /\ opts' = opts /\ todo' = todo /\ pre' = pre
      /\ touched' = touched /\ before' = before /\ after' = after /\ ran' = ran
  BY DEF PullRemove, PullFile, PullTimeout, PullSkipped, Applying
<1>4. /\ l \in Line /\ Target \in Paths /\ Tail(lines) \in Seq(Line)
      /\ Len(lines) \in Nat /\ 1 \in 1..Len(lines) /\ l = lines[1]
      /\ Len(Tail(lines)) = Len(lines) - 1
      /\ \A i \in 1..(Len(lines) - 1) : Tail(lines)[i] = lines[i + 1] /\ i + 1 \in 1..Len(lines)
  BY <1>2, <1>3, TargetIs DEF MountInv
<1>5. others' = others \/ others' = others \cup {Target}
  BY DEF PullRemove, PullFile, PullTimeout, PullSkipped
<1>6. CallTypes'
  BY <1>1, <1>3, <1>4, <1>5 DEF MountInv, CallTypes
<1>7. Commanded'
  BY <1>3 DEF MountInv, Commanded
<1>8. Pulling'
  <2>1. CASE tainted'
    BY <2>1 DEF Pulling
  <2>2. CASE ~tainted'
    <3>1. ~tainted /\ ~PullTimeout /\ (InTime(FileRead) => Taken(FileRead) = FileRead)
      <4>1. ~PullTimeout
        BY <2>2 DEF PullTimeout, Late
      <4>2. tainted' = tainted
        BY <4>1 DEF PullRemove, PullFile, PullSkipped, InTime
      <4>3. FileRead \in WrittenAnswers(used.writes)
        BY <1>3, ReadWritten
      <4>. QED  BY <2>2, <4>1, <4>2, <4>3, InTimeKeeps
    <3>2. \A p \in Paths \ others' : guest'[p] = guest[p] /\ p \notin others
      BY <1>3, <1>5
    <3>3. \A i \in 1..Len(lines') : \E j \in 1..Len(lines) : lines'[i] = lines[j]
      BY <1>3, <1>4
    <3>4. ASSUME NEW p \in Changed \cap Watched, p \notin others', Plain(p),
                 Complete(before), Complete(after), host[p] = after[p] \/ Listed(p)
          PROVE  host'[p] = after[p] \/ Listed(p)'
      <4>1. p \in Paths /\ Target = Word[l.path] /\ l.path \in Paths
        BY <1>2, <1>4 DEF Changed, Target, Line
      <4>2. Target = p <=> l.path = p
        BY <3>4, <4>1 DEF Plain
      <4>3. Right(l) /\ (guest[p] = after[p])
        BY <1>3, <1>4, <1>5, <3>1, <3>4, <4>1 DEF MountInv, Pulling
      <4>4. CASE Target = p
        <5>1. ~PullSkipped
          BY <3>4, <4>4 DEF PullSkipped
        <5>2. host[p] \in Content /\ host \in [Paths -> Content]
          BY <4>1 DEF MountInv, World
        <5>3. CASE PullRemove
          <6>1. l.op = "-" /\ host' = [host EXCEPT ![p] = Absent]
            BY <1>2, <4>4, <5>3 DEF PullRemove, Applying
          <6>2. after[p] = Absent
            BY <4>2, <4>3, <4>4, <6>1 DEF Right
          <6>. QED  BY <4>1, <5>2, <6>1, <6>2
        <5>4. CASE PullFile
          <6>1. l.op \in {"+", "M"} /\ InTime(FileRead)
            BY <1>2, <5>4 DEF PullFile, Applying
          <6>2. after[p] # Absent
            BY <4>2, <4>3, <4>4, <6>1 DEF Right
          <6>3. Taken(FileRead).op = "read" /\ Taken(FileRead).data = guest[p]
            BY <3>1, <4>4, <6>1 DEF FileRead
          <6>4. host' = [host EXCEPT ![p] = guest[p]]
            BY <4>3, <4>4, <5>4, <6>2, <6>3 DEF PullFile
          <6>. QED  BY <4>1, <4>3, <5>2, <6>4
        <5>. QED  BY <3>1, <5>1, <5>3, <5>4
      <4>5. CASE Target # p
        <5>1. host'[p] = host[p]
          <6>1. host \in [Paths -> Content]
            BY DEF MountInv, World
          <6>2. host' = host \/ \E e : host' = [host EXCEPT ![Target] = e]
            BY DEF PullRemove, PullFile, PullTimeout, PullSkipped
          <6>. QED  BY <1>4, <4>1, <4>5, <6>1, <6>2
        <5>2. ASSUME Listed(p)  PROVE Listed(p)'
          <6>1. PICK j \in 1..Len(lines) : lines[j].path = p
            BY <5>2 DEF Listed
          <6>2. j # 1
            BY <1>4, <4>2, <4>5, <6>1
          <6>3. j - 1 \in 1..(Len(lines) - 1) /\ (j - 1) + 1 = j
            BY <1>4, <6>1, <6>2
          <6>4. Tail(lines)[j - 1].path = p /\ j - 1 \in 1..Len(Tail(lines))
            BY <1>4, <6>1, <6>3
          <6>. QED  BY <1>3, <6>4 DEF Listed
        <5>. QED  BY <3>4, <5>1, <5>2
      <4>. QED  BY <4>4, <4>5
    <3>. QED  BY <1>3, <3>1, <3>2, <3>3, <3>4, PullStep
  <2>. QED  BY <2>1, <2>2
<1>. QED  BY <1>1, <1>6, <1>7, <1>8 DEF MountInv

LEMMA ReturnCall ==
  ASSUME MountInv, Return
  PROVE  MountInv'
<1>1. Leave /\ host' = host /\ guest' = guest /\ late' = late /\ used' = used /\ tainted' = tainted
  BY DEF Return
<1>2. World'
  BY <1>1 DEF MountInv, World, UsedTypes
<1>. QED  BY <1>1, <1>2, LeaveKeeps DEF MountInv

LEMMA ReconnectCall ==
  ASSUME MountInv, Reconnect
  PROVE  MountInv'
<1>1. /\ pc = "idle" /\ late' = <<>> /\ tainted' = FALSE
      /\ host' = host /\ guest' = guest /\ pc' = pc /\ used' = used
      /\ opts' = opts /\ todo' = todo /\ pre' = pre /\ touched' = touched /\ lines' = lines
      /\ before' = before /\ after' = after /\ ran' = ran /\ others' = others
  BY DEF Reconnect, call
<1>2. World'
  <2>1. <<>> \in Seq(WrittenAnswers(used.writes)) /\ <<>> \in Seq(Answers)
    BY EmptySeq
  <2>. QED  BY <1>1, <2>1 DEF MountInv, World, UsedTypes
<1>3. CallTypes'
  BY <1>1 DEF MountInv, CallTypes
<1>4. Commanded' /\ Pulling'
  BY <1>1 DEF MountInv, Commanded, Pulling
<1>. QED  BY <1>2, <1>3, <1>4 DEF MountInv

LEMMA StutterCall ==
  ASSUME MountInv, UNCHANGED vars
  PROVE  MountInv'
<1>1. /\ late' = late /\ tainted' = tainted
      /\ host' = host /\ guest' = guest /\ pc' = pc /\ used' = used
      /\ opts' = opts /\ todo' = todo /\ pre' = pre /\ touched' = touched /\ lines' = lines
      /\ before' = before /\ after' = after /\ ran' = ran /\ others' = others
  BY DEF vars, call
<1>2. World'
  BY <1>1 DEF MountInv, World, UsedTypes
<1>3. CallTypes'
  BY <1>1 DEF MountInv, CallTypes
<1>4. Commanded'
  BY <1>1 DEF MountInv, Commanded
<1>5. Pulling'
  <2>1. CASE pc = "pull" /\ ~tainted
    <3>1. /\ \A q \in Paths \ others' : guest'[q] = guest[q] /\ q \notin others
          /\ \A i \in 1..Len(lines') : \E j \in 1..Len(lines) : lines'[i] = lines[j]
      BY <1>1
    <3>2. \A q \in (Changed \cap Watched) \ others' :
            host[q] = after[q] \/ Listed(q) => host'[q] = after[q] \/ Listed(q)'
      BY <1>1 DEF Listed
    <3>. QED  BY <1>1, <2>1, <3>1, <3>2, PullStep
  <2>2. CASE ~(pc = "pull" /\ ~tainted)
    BY <1>1, <2>2 DEF Pulling
  <2>. QED  BY <2>1, <2>2
<1>. QED  BY <1>2, <1>3, <1>4, <1>5 DEF MountInv

-----------------------------------------------------------------------------
LEMMA InitialMount == Init => MountInv
<1>. SUFFICES ASSUME Init  PROVE MountInv
  OBVIOUS
<1>1. /\ host \in [Paths -> Content] /\ guest = Nothing /\ late = <<>> /\ tainted = FALSE
      /\ used = [writes |-> 0, execs |-> 0, faults |-> 0]
      /\ \A p \in Paths : host[p] \in {Absent, <<p, 0>>}
  BY DEF Init
<1>2. /\ pc = "idle" /\ opts = [sync |-> FALSE, capture |-> FALSE]
      /\ todo = {} /\ pre = <<>> /\ touched = {} /\ lines = <<>>
      /\ before = Nothing /\ after = Nothing /\ others = {}
  BY DEF Init
<1>3. 0 \in 0..MaxWrites /\ used.writes = 0 /\ UsedTypes
  BY <1>1, Bounds DEF UsedTypes
<1>4. \A p \in Paths : Written(host[p], 0)
  BY <1>1, <1>3, NewIsWritten
<1>5. <<>> \in Seq(WrittenAnswers(used.writes)) /\ <<>> \in Seq(Answers)
  BY EmptySeq
<1>6. World
  BY <1>1, <1>3, <1>4, <1>5, NothingIs DEF World
<1>7. CallTypes
  BY <1>2, NothingIs DEF CallTypes
<1>. QED  BY <1>2, <1>6, <1>7 DEF MountInv, Commanded, Pulling

LEMMA MountInductive == MountInv /\ [Next]_vars => MountInv'
<1>. SUFFICES ASSUME MountInv, [Next]_vars  PROVE MountInv'
  OBVIOUS
<1>1. CASE \E s, c \in BOOLEAN : Exec(s, c)
  BY <1>1, ExecCall
<1>2. ASSUME NEW p \in Paths, HostEdit(p)  PROVE MountInv'
  BY <1>2, HostEditWorld, HostEditCall DEF MountInv
<1>3. ASSUME NEW p \in Paths, Push(p) \/ PushTimeout(p) \/ PushSkipped(p) \/ PushRefused(p)  PROVE MountInv'
  BY <1>3, PushCall
<1>4. ASSUME NEW p \in Paths, Command(p) \/ Background(p)  PROVE MountInv'
  BY <1>4, CommandCall, BackgroundCall
<1>5. CASE Run \/ Finish \/ RunFails \/ ExecTimeout
  BY <1>5, RunCall, FinishCall, RunFailsCall, ExecTimeoutCall
<1>6. CASE PullRemove \/ PullFile \/ PullTimeout \/ PullSkipped
  BY <1>6, PullCall
<1>7. CASE Return \/ Reconnect
  BY <1>7, ReturnCall, ReconnectCall
<1>8. CASE Quiet \/ UNCHANGED vars
  BY <1>8, StutterCall DEF Quiet
<1>. QED  BY <1>1, <1>2, <1>3, <1>4, <1>5, <1>6, <1>7, <1>8 DEF Next

LEMMA MountSafe == Spec => []MountInv
BY InitialMount, MountInductive, PTL DEF Spec

\* Type correctness: snapshots stay within their bounds and the watched files, and an
\* old answer is in the stream only on a connection where a call has timed out.
THEOREM MountTypes == Spec => []TypeOK
<1>1. MountInv => TypeOK
  BY DEF MountInv, World, CallTypes, TypeOK
<1>. QED  BY <1>1, MountSafe, PTL

\* What a command has created, changed or removed is on the host when exec returns from
\* a run that did not fail, if the snapshots and the difference could hold it and no one
\* else changed it.
THEOREM ChangesArrive == Spec => []ChangesReachHost
<1>1. MountInv => ChangesReachHost
  <2>. SUFFICES ASSUME MountInv, Applied, ran, Fits, NEW p \in Changed \ others, Faithful(p)
                PROVE  host[p] = after[p]
    BY DEF ChangesReachHost
  <2>1. /\ pc = "pull" /\ ~tainted /\ opts.sync /\ opts.capture /\ lines = <<>>
        /\ p \in Watched /\ Plain(p) /\ Complete(before) /\ Complete(after)
    BY DEF Applied, Faithful
  <2>2. host[p] = after[p] \/ Listed(p)
    BY <2>1 DEF MountInv, Pulling
  <2>3. ~Listed(p)
    BY <2>1, NothingIs DEF Listed
  <2>. QED  BY <2>2, <2>3
<1>. QED  BY <1>1, MountSafe, PTL

\* On a connection without old answers the host loses a file only if the command has
\* removed it in the guest.
THEOREM RemovalsAreOfCommand == Spec => RemovalsOfCommand
<1>1. MountInv /\ [Next]_vars =>
        [\A p \in Paths : Removes(p) /\ ~tainted /\ Faithful(p) => before[p] # Absent /\ after[p] = Absent]_vars
  <2>. SUFFICES ASSUME MountInv, [Next]_vars, NEW p \in Paths, Removes(p), ~tainted, Faithful(p)
                PROVE  before[p] # Absent /\ after[p] = Absent
    OBVIOUS
  <2>1. /\ pc = "pull" /\ pc' = pc /\ lines' # lines /\ host[p] # Absent /\ host'[p] = Absent
        /\ Plain(p) /\ Complete(before) /\ Complete(after)
    BY DEF Removes, Faithful
  <2>2. PullRemove \/ PullFile
    BY <2>1 DEF Next, vars, call, HostEdit, Exec, Push, PushTimeout, PushSkipped, PushRefused, Pushed,
                Copying, Command, Background, GuestChange, Run, Finish, RunFails, Answered, ExecTimeout, PullTimeout, PullSkipped,
                Return, Leave, Reconnect, Quiet
  <2>3. lines # <<>> /\ host \in [Paths -> Content]
    BY <2>2 DEF PullRemove, PullFile, Applying, MountInv, World
  <2>4. PICK l : l = Head(lines)
    OBVIOUS
  <2>5. /\ l \in Line /\ l = lines[1] /\ 1 \in 1..Len(lines) /\ Target \in Paths
    BY <2>3, <2>4, TargetIs DEF MountInv
  <2>6. Target = Word[l.path] /\ l.path \in Paths
    BY <2>4, <2>5 DEF Target, Line
  <2>7. PullRemove /\ Target = p
    <3>1. CASE PullFile
      <4>1. PICK e : e # Absent /\ (host' = host \/ host' = [host EXCEPT ![Target] = e])
        BY <2>1, <3>1 DEF PullFile
      <4>. QED  BY <2>1, <2>3, <2>5, <4>1
    <3>2. CASE PullRemove
      <4>1. host' = [host EXCEPT ![Target] = Absent]
        BY <3>2 DEF PullRemove
      <4>. QED  BY <2>1, <2>3, <2>5, <3>2, <4>1
    <3>. QED  BY <2>2, <3>1, <3>2
  <2>8. l.path = p /\ l.op = "-"
    BY <2>1, <2>4, <2>6, <2>7 DEF Plain, PullRemove, Applying
  <2>9. Right(l)
    BY <2>1, <2>5 DEF MountInv, Pulling
  <2>. QED  BY <2>8, <2>9 DEF Right
<1>. QED  BY <1>1, MountSafe, PTL DEF Spec, RemovalsOfCommand

=============================================================================
