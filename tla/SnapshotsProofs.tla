--------------------------- MODULE SnapshotsProofs ----------------------------
(***************************************************************************)
(* TLAPS proofs about Snapshots, for any number of machines, snapshots,    *)
(* branches, writes and failures: machines that have not met in a          *)
(* directory stay apart, a snapshot that no later call has touched is      *)
(* exact, and only a failed request to pause or resume leaves it paused.   *)
(*                                                                         *)
(* The first needs to know who shares what: two live guests share only     *)
(* directories that are recorded as crowded, the guest that is being       *)
(* loaded included (Met), and pages are mapped from one's own directory.   *)
(* The second, that a snapshot's serial number is the call that made it.   *)
(***************************************************************************)
EXTENDS Snapshots, SequenceTheorems, TLAPS

Image == Versions \cup {NoImage}
Info == [dir : Dirs, name : Snaps \cup {""}, rootfs : Dirs, taken : Mem \cup {NoMem}, serial : Nat]
HandedOut == [dir : Dirs, name : Snaps, rootfs : Dirs, taken : Mem, serial : Nat]
Machine == [dir : Dirs, rootfs : Dirs, guest : Nat]
AGuest ==
  [dir : Dirs, drive : Dirs, state : {"running", "paused", "gone"}, own : Mem \cup {NoMem}, back : Keys,
   kind : {"start", "branch", "restore"}, first : Mem \cup {NoMem}, ver : Image, fit : BOOLEAN, from : Info,
   intact : BOOLEAN, named : Info]
ACall ==
  [op : {"none", "snapshot", "branch", "restore"}, v : Nat, snap : Snaps \cup {""}, to : Dirs, info : Info, named : Info]

Typed ==
  /\ image \in [Dirs -> Image]
  /\ files \in [Keys -> [mem : Mem \cup {NoMem}, drive : Dirs]]
  /\ backing \in [Keys -> Mem \cup {NoMem}]
  /\ guests \in Seq(AGuest) /\ vms \in Seq(Machine)
  /\ infos \subseteq HandedOut /\ registry \in [Snaps -> Info]
  /\ pc \in {"idle", "create", "resume", "unwind", "memory", "disk", "boot"}
  /\ call \in ACall /\ (pc # "idle" => call.info \in HandedOut)
  /\ writes \in Versions /\ calls \in Nat /\ touched \in [Keys -> Nat]

Places(g) == {guests[g].dir, guests[g].drive}

\* A live guest has a disk image and a memory, and the pages it has not written are mapped
\* from its own directory; two of them share crowded directories only.
Apart ==
  /\ \A g \in Alive : /\ image[guests[g].drive] # NoImage
                      /\ Memory(g) \in Mem
                      /\ guests[g].own = NoMem => guests[g].back[1] = guests[g].dir
  /\ \A g, h \in Alive : g # h => Places(g) \cap Places(h) \subseteq crowded
  /\ MachinesApart

Stored == \A k \in Keys : files[k] # NoFile => files[k].mem \in Mem /\ image[files[k].drive] # NoImage

\* No two objects have the same guest.
Objects ==
  /\ \A v \in DOMAIN vms : image[vms[v].rootfs] # NoImage
  /\ \A v \in DOMAIN vms : vms[v].guest # 0 => vms[v].guest \in Alive
  /\ \A v, w \in DOMAIN vms : v # w /\ vms[v].guest # 0 => vms[v].guest # vms[w].guest

\* If the call that made the snapshot was the last to touch its files, they are its own.
Exact(i) ==
  /\ i.serial <= calls /\ image[i.rootfs] # NoImage
  /\ touched[<<i.dir, i.name>>] = i.serial /\ files[<<i.dir, i.name>>] # NoFile =>
       files[<<i.dir, i.name>>].mem = i.taken

Handed == \A i \in infos : Exact(i)

\* A call between two of its steps: the machine whose snapshot is taken stands still, and who
\* has met the guest that is about to be loaded has been seen to.
Making ==
  Snapshotting =>
    /\ Caller # 0 /\ call.op \in {"snapshot", "branch"}
    /\ touched[NewKey] = call.info.serial
    /\ \A i \in infos : i.serial < call.info.serial
    /\ pc = "create" => guests[Caller].state = "paused" /\ Memory(Caller) = call.info.taken

Loading ==
  pc \in {"memory", "disk", "boot"} =>
    /\ call.op \in {"branch", "restore"}
    /\ pc # "memory" =>
         /\ backing[Map] \in Mem
         /\ touched[NewKey] = call.info.serial => backing[Map] = call.info.taken
         /\ \A g \in Alive : Places(g) \cap {call.to, Drive} \subseteq crowded
    /\ pc = "boot" => image[Drive] # NoImage

InCall == (pc # "idle" => call.v \in DOMAIN vms /\ Exact(call.info)) /\ Making /\ Loading

SnapInv == Typed /\ Apart /\ Stored /\ Objects /\ Handed /\ InCall /\ IntactSnapshotIsExact /\ PausedOnlyInside

-----------------------------------------------------------------------------
(* What a step that changes little leaves as it was. *)

LEMMA Values ==
  /\ \A m \in Mem : m # NoMem /\ m.ver \in Versions /\ m.seen \in Versions
  /\ \A x \in Versions : x # NoImage /\ x \in Image
  /\ 0 \in Versions /\ NoInfo \in Info /\ HandedOut \subseteq Info /\ <<>> \in Dirs /\ NoMem \notin Mem
<1>1. MaxWrites \in Nat /\ \A x \in Versions : x # NoImage /\ x \in Image
  BY SnapshotsAssumption DEF Versions, NoImage, Image
<1>2. \A m \in Mem : m.ver \in Versions /\ m.seen \in Versions
  BY DEF Mem
<1>3. \A m \in Mem : m # NoMem
  BY <1>1, <1>2 DEF NoMem
<1>4. <<>> \in Dirs
  <2>1. <<>> \in [1..0 -> Names]
    BY EmptySeq, LenProperties
  <2>2. 0 \in 0..MaxDepth
    BY SnapshotsAssumption
  <2>. QED  BY <2>1, <2>2 DEF Dirs
<1>5. 0 \in Versions
  BY SnapshotsAssumption DEF Versions
<1>6. NoMem \notin Mem
  BY <1>3
<1>7. NoInfo \in Info
  BY <1>4 DEF NoInfo, Info
<1>8. HandedOut \subseteq Info
  BY DEF Info, HandedOut
<1>. QED  BY <1>1, <1>2, <1>3, <1>4, <1>5, <1>6, <1>7, <1>8

LEMMA Fields ==
  ASSUME Typed
  PROVE  /\ DOMAIN guests = 1..Len(guests) /\ Len(guests) \in Nat
         /\ \A g \in DOMAIN guests : /\ guests[g] \in AGuest /\ guests[g].dir \in Dirs /\ guests[g].drive \in Dirs
                                     /\ guests[g].own \in Mem \cup {NoMem} /\ guests[g].back \in Keys
         /\ DOMAIN vms = 1..Len(vms) /\ Len(vms) \in Nat
         /\ \A v \in DOMAIN vms : /\ vms[v] \in Machine /\ vms[v].dir \in Dirs /\ vms[v].rootfs \in Dirs
                                  /\ vms[v].guest \in Nat
<1>1. /\ DOMAIN guests = 1..Len(guests) /\ Len(guests) \in Nat /\ \A g \in DOMAIN guests : guests[g] \in AGuest
      /\ DOMAIN vms = 1..Len(vms) /\ Len(vms) \in Nat /\ \A v \in DOMAIN vms : vms[v] \in Machine
  BY LenProperties, ElementOfSeq DEF Typed
<1>. QED  BY <1>1 DEF AGuest, Machine

\* A guest keeps everything but its state.
Same(h) ==
  /\ guests'[h].dir = guests[h].dir /\ guests'[h].drive = guests[h].drive
  /\ guests'[h].own = guests[h].own /\ guests'[h].back = guests[h].back
  /\ guests'[h].kind = guests[h].kind /\ guests'[h].first = guests[h].first
  /\ guests'[h].ver = guests[h].ver /\ guests'[h].fit = guests[h].fit
  /\ guests'[h].from = guests[h].from /\ guests'[h].intact = guests[h].intact

SameGuests == DOMAIN guests' = DOMAIN guests /\ \A h \in DOMAIN guests : Same(h)

LEMMA StateSet ==
  ASSUME Typed, NEW g \in DOMAIN guests, NEW s \in {"running", "paused", "gone"},
         guests' = [guests EXCEPT ![g].state = s]
  PROVE  /\ guests' \in Seq(AGuest) /\ SameGuests
         /\ \A h \in DOMAIN guests : guests'[h].state = IF h = g THEN s ELSE guests[h].state
<1>1. guests \in Seq(AGuest) /\ g \in 1..Len(guests) /\ DOMAIN guests = 1..Len(guests) /\ guests[g] \in AGuest
  BY Fields DEF Typed
<1>. DEFINE r == [guests[g] EXCEPT !.state = s]
<1>2. r \in AGuest /\ r.state = s
  BY <1>1 DEF AGuest
<1>3. /\ r.dir = guests[g].dir /\ r.drive = guests[g].drive /\ r.own = guests[g].own /\ r.back = guests[g].back
      /\ r.kind = guests[g].kind /\ r.first = guests[g].first /\ r.ver = guests[g].ver /\ r.fit = guests[g].fit
      /\ r.from = guests[g].from /\ r.intact = guests[g].intact
  BY <1>1 DEF AGuest
<1>4. guests' = [guests EXCEPT ![g] = r]
  OBVIOUS
<1>. HIDE DEF r
<1>5. /\ guests' \in Seq(AGuest) /\ Len(guests') = Len(guests)
      /\ \A h \in 1..Len(guests) : guests'[h] = IF h = g THEN r ELSE guests[h]
  BY <1>1, <1>2, <1>4, ExceptSeq
<1>6. DOMAIN guests' = DOMAIN guests
  BY <1>1, <1>5, LenProperties
<1>. QED  BY <1>1, <1>2, <1>3, <1>5, <1>6 DEF SameGuests, Same

\* Guests stay apart if no more are alive than before, and what changes of disks and mapped files
\* changes in crowded directories.
LEMMA ApartKept ==
  ASSUME Typed, Apart, SameGuests, Alive' \subseteq Alive, crowded \subseteq crowded',
         \A d \in Dirs : image[d] # NoImage => image'[d] # NoImage,
         \A h \in Alive' : guests[h].drive \notin crowded' => image'[guests[h].drive] = image[guests[h].drive],
         \A h \in Alive' : guests[h].own = NoMem =>
           /\ backing'[guests[h].back] \in Mem
           /\ guests[h].dir \notin crowded' => backing'[guests[h].back] = backing[guests[h].back]
  PROVE  Apart'
<1>1. /\ \A h \in Alive : h \in DOMAIN guests
      /\ \A h \in Alive' : h \in Alive /\ h \in DOMAIN guests /\ Same(h)
  BY DEF SameGuests, Alive
<1>2. \A h \in Alive' : /\ guests[h].drive \in Dirs
                        /\ Memory(h)' = IF guests[h].own = NoMem THEN backing'[guests[h].back] ELSE guests[h].own
                        /\ Places(h)' = Places(h)
  BY <1>1, Fields DEF Memory, Places, Same
<1>3. \A h \in Alive' : /\ image'[guests'[h].drive] # NoImage
                        /\ Memory(h)' \in Mem
                        /\ guests'[h].own = NoMem => guests'[h].back[1] = guests'[h].dir
  <2>. SUFFICES ASSUME NEW h \in Alive'
                PROVE  /\ image'[guests'[h].drive] # NoImage
                       /\ Memory(h)' \in Mem
                       /\ guests'[h].own = NoMem => guests'[h].back[1] = guests'[h].dir
    OBVIOUS
  <2>1. h \in Alive /\ Same(h) /\ guests[h].drive \in Dirs
    BY <1>1, <1>2
  <2>2. guests[h].own # NoMem => Memory(h) = guests[h].own
    BY DEF Memory
  <2>3. /\ image[guests[h].drive] # NoImage /\ Memory(h) \in Mem
        /\ guests[h].own = NoMem => guests[h].back[1] = guests[h].dir
    BY <2>1 DEF Apart
  <2>4. Memory(h)' \in Mem
    BY <1>2, <2>2, <2>3
  <2>. QED  BY <2>1, <2>3, <2>4 DEF Same
<1>4. \A g, h \in Alive' : g # h => Places(g)' \cap Places(h)' \subseteq crowded'
  BY <1>1, <1>2 DEF Apart
<1>5. MachinesApart'
  <2>. SUFFICES ASSUME NEW h \in Alive', Places(h) \cap crowded' = {}
                PROVE  Undisturbed(h)' /\ (guests[h].fit => Coherent(h)')
    BY <1>1, <1>2 DEF MachinesApart, Places, Same
  <2>1. h \in Alive /\ Same(h) /\ guests[h].dir \notin crowded' /\ guests[h].drive \notin crowded'
    BY <1>1 DEF Places
  <2>2. Places(h) \cap crowded = {}
    BY <2>1 DEF Places
  <2>3. Undisturbed(h) /\ (guests[h].fit => Coherent(h))
    BY <2>1, <2>2 DEF Apart, MachinesApart, Places
  <2>4. Memory(h)' = Memory(h)
    BY <1>2, <2>1 DEF Memory
  <2>. QED  BY <2>1, <2>3, <2>4 DEF Undisturbed, Coherent, Same
<1>. QED  BY <1>3, <1>4, <1>5 DEF Apart

\* History is kept.
LEMMA IntactKept ==
  ASSUME SameGuests, IntactSnapshotIsExact
  PROVE  IntactSnapshotIsExact'
BY DEF SameGuests, Same, IntactSnapshotIsExact

\* Images stay images, and the files that are kept do.
LEMMA ImagesKept ==
  ASSUME Typed, Stored, Handed, \A d \in Dirs : image[d] # NoImage => image'[d] # NoImage,
         UNCHANGED <<files, infos, touched>>, calls' >= calls, calls \in Nat, calls' \in Nat
  PROVE  /\ Stored' /\ Handed'
         /\ \A i \in HandedOut : Exact(i) => Exact(i)'
<1>1. \A k \in Keys : files[k].drive \in Dirs
  BY DEF Typed
<1>2. Stored'
  BY <1>1 DEF Stored
<1>3. \A i \in HandedOut : Exact(i) => Exact(i)'
  BY DEF HandedOut, Exact
<1>4. Handed'
  BY <1>3 DEF Handed, Typed
<1>. QED  BY <1>2, <1>3, <1>4

\* While a snapshot is made its machine is a live guest.
LEMMA CallerLives ==
  ASSUME SnapInv, Snapshotting
  PROVE  call.v \in DOMAIN vms /\ Caller \in Alive /\ Caller \in DOMAIN guests
BY DEF SnapInv, InCall, Making, Objects, Caller, Alive, Snapshotting

\* A running guest writes to its memory, or its memory to its disk.
LEMMA GuestMoves ==
  ASSUME SnapInv, NEW g \in DOMAIN guests, guests[g].state = "running", NEW m \in Mem,
         guests' \in Seq(AGuest), DOMAIN guests' = DOMAIN guests,
         \A h \in DOMAIN guests : h # g => guests'[h] = guests[h],
         guests'[g].dir = guests[g].dir, guests'[g].drive = guests[g].drive, guests'[g].state = guests[g].state,
         guests'[g].first = guests[g].first, guests'[g].fit = guests[g].fit,
         guests'[g].from = guests[g].from, guests'[g].intact = guests[g].intact, guests'[g].own = m,
         Undisturbed(g) => m.ver = guests'[g].ver,
         Coherent(g) => image'[guests[g].drive] = m.seen,
         image' \in [Dirs -> Image],
         \A d \in Dirs : image[d] # NoImage => image'[d] # NoImage,
         \A d \in Dirs : d # guests[g].drive => image'[d] = image[d],
         writes' \in Versions,
         UNCHANGED <<files, backing, vms, infos, registry, pc, call, calls, failed, touched, crowded>>
  PROVE  SnapInv'
<1>1. /\ Alive' = Alive /\ g \in Alive /\ \A h \in Alive : h \in DOMAIN guests
      /\ \A h \in Alive : guests'[h].dir = guests[h].dir /\ guests'[h].drive = guests[h].drive /\ guests[h].drive \in Dirs
      /\ \A h \in Alive : Places(h)' = Places(h)
  <2>1. \A h \in DOMAIN guests : /\ guests'[h].dir = guests[h].dir /\ guests'[h].drive = guests[h].drive
                                 /\ guests'[h].state = guests[h].state
    OBVIOUS
  <2>2. \A h \in DOMAIN guests : guests[h].drive \in Dirs
    BY Fields DEF SnapInv
  <2>. QED  BY <2>1, <2>2 DEF Alive, Live, Places
<1>2. Memory(g)' = m /\ \A h \in DOMAIN guests : h # g => Memory(h)' = Memory(h)
  BY Values DEF Memory
<1>3. Typed'
  BY DEF SnapInv, Typed
<1>4. Apart'
  <2>1. ASSUME NEW h \in Alive
        PROVE  /\ image'[guests'[h].drive] # NoImage
               /\ Memory(h)' \in Mem
               /\ guests'[h].own = NoMem => guests'[h].back[1] = guests'[h].dir
    <3>1. /\ image[guests[h].drive] # NoImage /\ Memory(h) \in Mem
          /\ guests[h].own = NoMem => guests[h].back[1] = guests[h].dir
      BY DEF SnapInv, Apart
    <3>2. CASE h = g
      BY <1>1, <1>2, <3>1, <3>2, Values
    <3>3. CASE h # g
      BY <1>1, <1>2, <3>1, <3>3
    <3>. QED  BY <3>2, <3>3
  <2>2. \A h, k \in Alive : h # k => Places(h)' \cap Places(k)' \subseteq crowded'
    BY <1>1 DEF SnapInv, Apart
  <2>3. ASSUME NEW h \in Alive, Places(h) \cap crowded = {}
        PROVE  Undisturbed(h)' /\ (guests[h].fit => Coherent(h)')
    <3>1. Undisturbed(h) /\ (guests[h].fit => Coherent(h))
      BY <2>3 DEF SnapInv, Apart, MachinesApart, Places
    <3>2. CASE h = g
      BY <1>1, <1>2, <3>1, <3>2 DEF Undisturbed, Coherent
    <3>3. CASE h # g
      <4>1. guests[h].drive # guests[g].drive
        BY <1>1, <2>3, <3>3 DEF SnapInv, Apart, Places
      <4>2. image'[guests[h].drive] = image[guests[h].drive] /\ Memory(h)' = Memory(h) /\ guests'[h] = guests[h]
        BY <1>1, <1>2, <3>3, <4>1
      <4>. QED  BY <3>1, <4>2 DEF Undisturbed, Coherent
    <3>. QED  BY <3>2, <3>3
  <2>4. \A h \in Alive : guests'[h].fit = guests[h].fit
    BY <1>1
  <2>5. MachinesApart'
    BY <1>1, <2>3, <2>4 DEF MachinesApart, Places
  <2>. QED  BY <1>1, <2>1, <2>2, <2>5 DEF Apart
<1>5. /\ Stored' /\ Handed'
      /\ \A i \in HandedOut : Exact(i) => Exact(i)'
  <2>1. calls \in Nat /\ calls' = calls /\ calls' >= calls
    BY DEF SnapInv, Typed
  <2>. QED  BY <2>1, ImagesKept DEF SnapInv
<1>6. Objects'
  <2>1. \A v \in DOMAIN vms : vms[v].rootfs \in Dirs
    BY Fields DEF SnapInv
  <2>. QED  BY <1>1, <2>1 DEF SnapInv, Objects
<1>7. InCall'
  <2>1. pc # "idle" => call.v \in DOMAIN vms /\ Exact(call.info)'
    BY <1>5 DEF SnapInv, InCall, Typed
  <2>2. Making'
    <3>. SUFFICES ASSUME Snapshotting
                  PROVE  Making'
      BY DEF Making, Snapshotting
    <3>1. Caller \in DOMAIN guests /\ Caller' = Caller
      BY CallerLives DEF Caller
    <3>2. pc = "create" => Caller # g
      BY DEF SnapInv, InCall, Making, Snapshotting
    <3>3. pc = "create" => guests'[Caller].state = "paused" /\ Memory(Caller)' = Memory(Caller)
      BY <1>2, <3>1, <3>2 DEF SnapInv, InCall, Making, Snapshotting
    <3>4. pc = "create" => Memory(Caller') = Memory(Caller)
      BY <3>1
    <3>. QED  BY <3>1, <3>3, <3>4 DEF SnapInv, InCall, Making, NewKey, Caller, Memory, Snapshotting
  <2>3. Loading'
    <3>1. pc = "boot" => Drive \in Dirs
      BY DEF SnapInv, Typed, Drive, HandedOut, ACall
    <3>. QED  BY <1>1, <3>1 DEF SnapInv, InCall, Loading, Map, Drive, NewKey, Isolated
  <2>. QED  BY <2>1, <2>2, <2>3 DEF InCall
<1>8. IntactSnapshotIsExact'
  BY DEF SnapInv, IntactSnapshotIsExact
<1>9. PausedOnlyInside'
  BY DEF SnapInv, PausedOnlyInside, Caller, Snapshotting
<1>. QED  BY <1>3, <1>4, <1>5, <1>6, <1>7, <1>8, <1>9 DEF SnapInv

-----------------------------------------------------------------------------
(* Guests that begin. *)

LEMMA NewGuest ==
  ASSUME SnapInv, NEW r \in AGuest, r.state = "running", guests' = Append(guests, r),
         NEW mem \in Mem, mem = IF r.own = NoMem THEN backing[r.back] ELSE r.own,
         r.own = NoMem => r.back[1] = r.dir, r.ver = mem.ver, r.fit => image[r.drive] = mem.seen,
         r.intact => r.first = r.from.taken, image[r.drive] # NoImage,
         crowded \subseteq crowded', \A h \in Alive : Places(h) \cap {r.dir, r.drive} \subseteq crowded',
         UNCHANGED <<image, backing>>
  PROVE  /\ guests' \in Seq(AGuest) /\ Apart' /\ IntactSnapshotIsExact'
         /\ Len(guests) + 1 \notin DOMAIN guests /\ Len(guests) + 1 \in Nat \ {0}
         /\ DOMAIN guests' = DOMAIN guests \cup {Len(guests) + 1}
         /\ \A h \in DOMAIN guests : guests'[h] = guests[h]
         /\ guests'[Len(guests) + 1] = r
         /\ Alive' = Alive \cup {Len(guests) + 1}
<1>0. PICK n \in Nat : n = Len(guests) + 1
  BY Fields DEF SnapInv
<1>1. /\ guests' \in Seq(AGuest) /\ n \notin DOMAIN guests /\ n \in Nat \ {0}
      /\ DOMAIN guests' = DOMAIN guests \cup {n}
      /\ \A h \in DOMAIN guests : guests'[h] = guests[h]
      /\ guests'[n] = r
  <2>1. guests \in Seq(AGuest) /\ Len(guests) \in Nat /\ DOMAIN guests = 1..Len(guests)
    BY Fields DEF SnapInv, Typed
  <2>2. /\ guests' \in Seq(AGuest) /\ Len(guests') = Len(guests) + 1
        /\ \A h \in 1..Len(guests) : guests'[h] = guests[h]
        /\ guests'[Len(guests) + 1] = r
    BY <2>1, AppendProperties
  <2>3. DOMAIN guests' = 1..Len(guests')
    BY <2>2, LenProperties
  <2>. QED  BY <1>0, <2>1, <2>2, <2>3
<1>2. Alive' = Alive \cup {n}
  BY <1>1 DEF Alive, Live
<1>3. Memory(n)' = mem /\ \A h \in DOMAIN guests : Memory(h)' = Memory(h)
  BY <1>1 DEF Memory
<1>4. /\ Places(n)' = {r.dir, r.drive} /\ \A h \in Alive : Places(h)' = Places(h) /\ h \in DOMAIN guests /\ h # n
  BY <1>1 DEF Places, Alive
<1>5. Apart'
  <2>1. ASSUME NEW h \in Alive'
        PROVE  /\ image'[guests'[h].drive] # NoImage
               /\ Memory(h)' \in Mem
               /\ guests'[h].own = NoMem => guests'[h].back[1] = guests'[h].dir
    <3>1. CASE h = n
      BY <1>1, <1>3, <3>1
    <3>2. CASE h \in Alive
      BY <1>1, <1>3, <1>4, <3>2 DEF SnapInv, Apart
    <3>. QED  BY <1>2, <3>1, <3>2
  <2>2. \A h, k \in Alive' : h # k => Places(h)' \cap Places(k)' \subseteq crowded'
    <3>1. \A h, k \in Alive : h # k => Places(h)' \cap Places(k)' \subseteq crowded'
      BY <1>4 DEF SnapInv, Apart
    <3>2. \A h \in Alive : Places(h)' \cap Places(n)' \subseteq crowded'
      BY <1>4
    <3>. QED  BY <1>2, <3>1, <3>2
  <2>3. ASSUME NEW h \in Alive', Places(h)' \cap crowded' = {}
        PROVE  Undisturbed(h)' /\ (guests'[h].fit => Coherent(h)')
    <3>1. CASE h = n
      BY <1>1, <1>3, <3>1 DEF Undisturbed, Coherent
    <3>2. CASE h \in Alive
      <4>1. Places(h) \cap crowded = {}
        BY <1>4, <2>3, <3>2
      <4>. QED  BY <1>1, <1>3, <1>4, <3>2, <4>1 DEF SnapInv, MachinesApart, Undisturbed, Coherent, Places, Apart
    <3>. QED  BY <1>2, <3>1, <3>2
  <2>4. MachinesApart'
    BY <2>3 DEF MachinesApart, Places
  <2>. QED  BY <2>1, <2>2, <2>4 DEF Apart
<1>6. IntactSnapshotIsExact'
  BY <1>1 DEF SnapInv, IntactSnapshotIsExact
<1>. QED  BY <1>0, <1>1, <1>2, <1>5, <1>6

LEMMA MachineSet ==
  ASSUME Typed, NEW v \in DOMAIN vms, NEW n \in Nat, vms' = [vms EXCEPT ![v].guest = n]
  PROVE  /\ vms' \in Seq(Machine) /\ DOMAIN vms' = DOMAIN vms
         /\ \A w \in DOMAIN vms : /\ vms'[w].rootfs = vms[w].rootfs
                                  /\ vms'[w].guest = IF w = v THEN n ELSE vms[w].guest
<1>1. vms \in Seq(Machine) /\ v \in 1..Len(vms) /\ DOMAIN vms = 1..Len(vms) /\ vms[v] \in Machine
  BY Fields DEF Typed
<1>. DEFINE r == [vms[v] EXCEPT !.guest = n]
<1>2. r \in Machine /\ r.guest = n /\ r.rootfs = vms[v].rootfs
  BY <1>1 DEF Machine
<1>3. vms' = [vms EXCEPT ![v] = r]
  OBVIOUS
<1>. HIDE DEF r
<1>4. /\ vms' \in Seq(Machine) /\ Len(vms') = Len(vms)
      /\ \A w \in 1..Len(vms) : vms'[w] = IF w = v THEN r ELSE vms[w]
  BY <1>1, <1>2, <1>3, ExceptSeq
<1>5. DOMAIN vms' = DOMAIN vms
  BY <1>1, <1>4, LenProperties
<1>. QED  BY <1>1, <1>2, <1>4, <1>5

LEMMA StartKeeps ==
  ASSUME SnapInv, NEW v \in DOMAIN vms, Start(v)
  PROVE  SnapInv'
<1>. DEFINE d == vms[v].rootfs
            m == [ver |-> image[d], seen |-> image[d]]
            r == [Booted(d) EXCEPT !.dir = vms[v].dir]
            n == Len(guests) + 1
<1>1. /\ pc = "idle" /\ guests' = Append(guests, r)
      /\ vms' = [vms EXCEPT ![v].guest = n] /\ calls' = calls + 1
      /\ crowded' = crowded \cup Meeting(vms[v].dir) \cup Meeting(vms[v].rootfs)
      /\ UNCHANGED <<image, files, backing, infos, registry, pc, call, writes, failed, touched>>
  BY DEF Start, Idle, data
<1>2. d \in Dirs /\ vms[v].dir \in Dirs /\ image[d] \in Versions /\ image[d] # NoImage
  <2>1. d \in Dirs /\ vms[v].dir \in Dirs
    BY Fields DEF SnapInv
  <2>. QED  BY <2>1 DEF SnapInv, Objects, Typed, Image
<1>3. m \in Mem /\ m # NoMem
  BY <1>2, Values DEF Mem
<1>4. /\ r \in AGuest /\ r.state = "running" /\ r.own = m /\ r.drive = d /\ r.dir = vms[v].dir /\ r.ver = m.ver
      /\ r.fit = (image[d] = m.seen) /\ r.intact = FALSE
  <2>1. (CHOOSE s \in Snaps : TRUE) \in Snaps
    BY SnapshotsAssumption
  <2>2. <<d, CHOOSE s \in Snaps : TRUE>> \in Keys
    BY <1>2, <2>1 DEF Keys
  <2>. HIDE DEF d
  <2>. QED  BY <1>2, <1>3, <2>2, Values DEF Booted, Guest, AGuest
<1>5. crowded \subseteq crowded' /\ \A h \in Alive : Places(h) \cap {r.dir, r.drive} \subseteq crowded'
  BY <1>1, <1>4 DEF Meeting, Places
<1>. HIDE DEF r, m, d
<1>6. /\ guests' \in Seq(AGuest) /\ Apart' /\ IntactSnapshotIsExact'
      /\ n \notin DOMAIN guests /\ n \in Nat \ {0}
      /\ DOMAIN guests' = DOMAIN guests \cup {n}
      /\ \A h \in DOMAIN guests : guests'[h] = guests[h]
      /\ guests'[n] = r /\ Alive' = Alive \cup {n}
  <2>1. m = IF r.own = NoMem THEN backing[r.back] ELSE r.own
    BY <1>3, <1>4
  <2>2. /\ r.own = NoMem => r.back[1] = r.dir
        /\ r.fit => image[r.drive] = m.seen
        /\ r.intact => r.first = r.from.taken
        /\ image[r.drive] # NoImage /\ r.ver = m.ver /\ r \in AGuest /\ r.state = "running"
    BY <1>2, <1>3, <1>4
  <2>. QED  BY <1>1, <1>3, <1>5, <2>1, <2>2, NewGuest
<1>. HIDE DEF n
<1>7. /\ vms' \in Seq(Machine) /\ DOMAIN vms' = DOMAIN vms
      /\ \A w \in DOMAIN vms : vms'[w].rootfs = vms[w].rootfs /\ vms'[w].guest = IF w = v THEN n ELSE vms[w].guest
  BY <1>1, <1>6, MachineSet DEF SnapInv
<1>8. Typed'
  BY <1>1, <1>6, <1>7 DEF SnapInv, Typed
<1>9. Stored' /\ Handed'
  <2>1. calls \in Nat /\ calls' \in Nat /\ calls' >= calls
    BY <1>1 DEF SnapInv, Typed
  <2>. QED  BY <1>1, <2>1, ImagesKept DEF SnapInv
<1>10. Objects'
  <2>1. \A w \in DOMAIN vms : vms[w].guest # 0 => vms[w].guest \in Alive /\ vms[w].guest # n
    BY <1>6 DEF SnapInv, Objects, Alive
  <2>. QED  BY <1>1, <1>6, <1>7, <2>1 DEF SnapInv, Objects
<1>11. InCall'
  BY <1>1 DEF InCall, Making, Loading, Snapshotting
<1>12. PausedOnlyInside'
  BY <1>1, <1>4, <1>6 DEF SnapInv, PausedOnlyInside, Snapshotting
<1>. QED  BY <1>6, <1>8, <1>9, <1>10, <1>11, <1>12 DEF SnapInv

\* A guest is loaded from the copies that load_snapshot has made.
LEMMA LoadedGuest ==
  ASSUME SnapInv, pc = "boot", guests' = Append(guests, Loaded), UNCHANGED <<image, backing, crowded>>
  PROVE  /\ guests' \in Seq(AGuest) /\ Apart' /\ IntactSnapshotIsExact'
         /\ Len(guests) + 1 \notin DOMAIN guests /\ Len(guests) + 1 \in Nat \ {0}
         /\ DOMAIN guests' = DOMAIN guests \cup {Len(guests) + 1}
         /\ \A h \in DOMAIN guests : guests'[h] = guests[h]
         /\ guests'[Len(guests) + 1].state = "running"
         /\ Alive' = Alive \cup {Len(guests) + 1}
<1>. DEFINE m == backing[Map]
<1>1. /\ call \in ACall /\ call.info \in HandedOut /\ call.op \in {"branch", "restore"}
      /\ m \in Mem /\ (touched[NewKey] = call.info.serial => m = call.info.taken)
      /\ image[Drive] # NoImage /\ \A h \in Alive : Places(h) \cap {call.to, Drive} \subseteq crowded
  BY DEF SnapInv, Typed, InCall, Loading
<1>2. Drive \in Dirs /\ call.to \in Dirs /\ Map \in Keys /\ Map[1] = call.to
  BY <1>1 DEF ACall, HandedOut, Drive, Map, Keys
<1>3. m.ver \in Image /\ call.info \in Info /\ call.named \in Info
  BY <1>1, Values DEF ACall
<1>. HIDE DEF m
<1>. DEFINE r == [dir |-> call.to, drive |-> Drive, state |-> "running", own |-> NoMem, back |-> Map,
                  kind |-> call.op, first |-> m, ver |-> m.ver, fit |-> image[Drive] = m.seen,
                  from |-> call.info, intact |-> touched[NewKey] = call.info.serial, named |-> call.named]
<1>4. Loaded = r
  BY <1>1 DEF Loaded, Guest, NewKey, m
<1>5. r \in AGuest
  BY <1>1, <1>2, <1>3 DEF AGuest
<1>6. /\ r.state = "running" /\ r.own = NoMem /\ r.back = Map /\ r.dir = call.to /\ r.drive = Drive
      /\ r.ver = m.ver /\ (r.fit => image[Drive] = m.seen) /\ (r.intact => r.first = r.from.taken)
  BY <1>1
<1>. HIDE DEF r
<1>7. m = IF r.own = NoMem THEN backing[r.back] ELSE r.own
  BY <1>6 DEF m
<1>8. r.own = NoMem => r.back[1] = r.dir
  BY <1>2, <1>6
<1>9. crowded \subseteq crowded' /\ \A h \in Alive : Places(h) \cap {r.dir, r.drive} \subseteq crowded'
  BY <1>1, <1>6
<1>10. /\ image[r.drive] # NoImage /\ (r.fit => image[r.drive] = m.seen) /\ guests' = Append(guests, r)
  BY <1>1, <1>4, <1>6
<1>. QED  BY <1>1, <1>5, <1>6, <1>7, <1>8, <1>9, <1>10, NewGuest

LEMMA LoadBootKeeps ==
  ASSUME SnapInv, LoadBoot \/ LoadAbandoned
  PROVE  SnapInv'
<1>1. /\ pc = "boot" /\ guests' = Append(guests, Loaded) /\ pc' = "idle"
      /\ UNCHANGED <<image, files, backing, infos, registry, call, writes, calls, touched, crowded>>
      /\ failed \subseteq failed'
  BY DEF LoadBoot, LoadAbandoned, Fails, data
<1>2. PICK n \in Nat \ {0} : n = Len(guests) + 1
  BY Fields DEF SnapInv
<1>3. /\ guests' \in Seq(AGuest) /\ Apart' /\ IntactSnapshotIsExact'
      /\ n \notin DOMAIN guests /\ DOMAIN guests' = DOMAIN guests \cup {n}
      /\ \A h \in DOMAIN guests : guests'[h] = guests[h]
      /\ guests'[n].state = "running" /\ Alive' = Alive \cup {n}
  BY <1>1, <1>2, LoadedGuest
<1>4. Stored' /\ Handed'
  <2>1. calls \in Nat /\ calls' = calls /\ calls' >= calls
    BY <1>1 DEF SnapInv, Typed
  <2>. QED  BY <1>1, <2>1, ImagesKept DEF SnapInv
<1>5. InCall'
  BY <1>1 DEF InCall, Making, Loading, Snapshotting
<1>6. PausedOnlyInside'
  BY <1>1, <1>3 DEF SnapInv, PausedOnlyInside, Snapshotting
<1>7. vms' \in Seq(Machine) /\ Objects'
  <2>1. \A w \in DOMAIN vms : vms[w].guest # 0 => vms[w].guest \in Alive /\ vms[w].guest # n
    BY <1>3 DEF SnapInv, Objects, Alive
  <2>2. CASE LoadAbandoned
    <3>1. vms' = vms
      BY <2>2 DEF LoadAbandoned
    <3>. QED  BY <1>1, <1>3, <3>1 DEF SnapInv, Objects, Typed
  <2>3. CASE LoadBoot /\ ~Isolated
    <3>1. vms' = [vms EXCEPT ![call.v].guest = n] /\ call.v \in DOMAIN vms
      BY <1>1, <1>2, <2>3 DEF LoadBoot, SnapInv, InCall
    <3>2. /\ vms' \in Seq(Machine) /\ DOMAIN vms' = DOMAIN vms
          /\ \A w \in DOMAIN vms : /\ vms'[w].rootfs = vms[w].rootfs
                                   /\ vms'[w].guest = IF w = call.v THEN n ELSE vms[w].guest
      BY <3>1, MachineSet DEF SnapInv
    <3>3. \A w \in DOMAIN vms' : image'[vms'[w].rootfs] # NoImage
      BY <1>1, <3>2 DEF SnapInv, Objects
    <3>4. \A w \in DOMAIN vms' : vms'[w].guest # 0 => vms'[w].guest \in Alive'
      BY <1>3, <2>1, <3>2
    <3>5. \A u, w \in DOMAIN vms' : u # w /\ vms'[u].guest # 0 => vms'[u].guest # vms'[w].guest
      <4>1. \A u, w \in DOMAIN vms : u # w /\ vms[u].guest # 0 => vms[u].guest # vms[w].guest
        BY DEF SnapInv, Objects
      <4>2. n # 0
        OBVIOUS
      <4>. QED  BY <2>1, <3>2, <4>1, <4>2
    <3>. QED  BY <3>2, <3>3, <3>4, <3>5 DEF Objects
  <2>4. CASE LoadBoot /\ Isolated
    <3>. DEFINE r == [dir |-> call.to, rootfs |-> call.to, guest |-> n]
    <3>1. vms' = Append(vms, r)
      BY <1>2, <2>4 DEF LoadBoot
    <3>2. r \in Machine /\ r.rootfs = call.to /\ r.guest = n /\ image[call.to] # NoImage
      BY <1>1, <2>4 DEF SnapInv, Typed, ACall, Machine, InCall, Loading, Drive
    <3>. HIDE DEF r
    <3>3. PICK k \in Nat : k = Len(vms) + 1
      BY Fields DEF SnapInv
    <3>4. /\ vms' \in Seq(Machine) /\ Len(vms') = k /\ \A w \in 1..Len(vms) : vms'[w] = vms[w]
          /\ vms'[k] = r /\ DOMAIN vms = 1..Len(vms) /\ Len(vms) \in Nat
      BY <3>1, <3>2, <3>3, AppendProperties, Fields DEF SnapInv, Typed
    <3>5. DOMAIN vms' = DOMAIN vms \cup {k} /\ k \notin DOMAIN vms
      <4>1. DOMAIN vms' = 1..Len(vms')
        BY <3>4, LenProperties
      <4>. QED  BY <3>3, <3>4, <4>1
    <3>6. \A w \in DOMAIN vms' : image'[vms'[w].rootfs] # NoImage /\ (vms'[w].guest # 0 => vms'[w].guest \in Alive')
      BY <1>1, <1>3, <3>2, <3>4, <3>5 DEF SnapInv, Objects
    <3>7. \A v, w \in DOMAIN vms' : v # w /\ vms'[v].guest # 0 => vms'[v].guest # vms'[w].guest
      <4>1. \A v \in DOMAIN vms : vms'[v] = vms[v]
        BY <3>4
      <4>. QED  BY <2>1, <3>2, <3>4, <3>5, <4>1 DEF SnapInv, Objects
    <3>. QED  BY <3>4, <3>6, <3>7 DEF Objects
  <2>. QED  BY <2>2, <2>3, <2>4
<1>8. Typed'
  BY <1>1, <1>3, <1>7 DEF SnapInv, Typed
<1>. QED  BY <1>3, <1>4, <1>5, <1>6, <1>7, <1>8 DEF SnapInv

-----------------------------------------------------------------------------
(* Guests that run, and guests that end. *)

LEMMA WriteKeeps ==
  ASSUME SnapInv, NEW g \in DOMAIN guests, Write(g)
  PROVE  SnapInv'
<1>. DEFINE m == [Memory(g) EXCEPT !.ver = writes + 1]
<1>1. /\ guests[g].state = "running" /\ g \in Alive /\ writes < MaxWrites /\ writes' = writes + 1
      /\ guests' = [guests EXCEPT ![g].own = m, ![g].ver = writes + 1]
      /\ UNCHANGED <<image, files, backing, vms, infos, registry, pc, call, calls, failed, touched, crowded>>
  BY DEF Write, Running, Alive, Live, data
<1>2. Memory(g) \in Mem /\ writes + 1 \in Versions
  BY <1>1, SnapshotsAssumption DEF SnapInv, Apart, Typed, Versions
<1>3. m \in Mem /\ m.ver = writes + 1 /\ m.seen = Memory(g).seen
  BY <1>2 DEF Mem
<1>. HIDE DEF m
<1>4. /\ guests' \in Seq(AGuest) /\ DOMAIN guests' = DOMAIN guests
      /\ \A h \in DOMAIN guests : h # g => guests'[h] = guests[h]
      /\ guests'[g].dir = guests[g].dir /\ guests'[g].drive = guests[g].drive /\ guests'[g].state = guests[g].state
      /\ guests'[g].first = guests[g].first /\ guests'[g].fit = guests[g].fit
      /\ guests'[g].from = guests[g].from /\ guests'[g].intact = guests[g].intact
      /\ guests'[g].own = m /\ guests'[g].ver = writes + 1
  <2>. DEFINE r == [guests[g] EXCEPT !.own = m, !.ver = writes + 1]
  <2>1. guests[g] \in AGuest /\ g \in 1..Len(guests) /\ DOMAIN guests = 1..Len(guests) /\ writes + 1 \in Image
        /\ guests \in Seq(AGuest)
    BY <1>2, Fields, Values DEF SnapInv, Typed
  <2>2. /\ r \in AGuest /\ r.dir = guests[g].dir /\ r.drive = guests[g].drive /\ r.state = guests[g].state
        /\ r.first = guests[g].first /\ r.fit = guests[g].fit
        /\ r.from = guests[g].from /\ r.intact = guests[g].intact
        /\ r.own = m /\ r.ver = writes + 1
    BY <1>3, <2>1 DEF AGuest
  <2>3. guests' = [guests EXCEPT ![g] = r]
    BY <1>1
  <2>. HIDE DEF r
  <2>4. /\ guests' \in Seq(AGuest) /\ Len(guests') = Len(guests)
        /\ \A h \in 1..Len(guests) : guests'[h] = IF h = g THEN r ELSE guests[h]
    BY <2>1, <2>2, <2>3, ExceptSeq
  <2>5. DOMAIN guests' = DOMAIN guests
    BY <2>1, <2>4, LenProperties
  <2>. QED  BY <2>1, <2>2, <2>4, <2>5
<1>5. writes' \in Versions /\ image' \in [Dirs -> Image]
  BY <1>1, <1>2 DEF SnapInv, Typed
<1>6. (Undisturbed(g) => m.ver = guests'[g].ver) /\ (Coherent(g) => image'[guests[g].drive] = m.seen)
  BY <1>1, <1>3, <1>4 DEF Coherent
<1>. QED  BY <1>1, <1>3, <1>4, <1>5, <1>6, GuestMoves, SMTT(30)

LEMMA FlushKeeps ==
  ASSUME SnapInv, NEW g \in DOMAIN guests, Flush(g)
  PROVE  SnapInv'
<1>. DEFINE m == [Memory(g) EXCEPT !.seen = Memory(g).ver]
            d == guests[g].drive
<1>1. /\ guests[g].state = "running" /\ g \in Alive
      /\ image' = [image EXCEPT ![d] = Memory(g).ver]
      /\ guests' = [guests EXCEPT ![g].own = m]
      /\ UNCHANGED <<files, backing, vms, infos, registry, pc, call, writes, calls, failed, touched, crowded>>
  BY DEF Flush, Running, Alive, Live
<1>2. Memory(g) \in Mem /\ Memory(g).ver \in Versions /\ Memory(g).ver \in Image /\ Memory(g).ver # NoImage
  BY <1>1, Values DEF SnapInv, Apart
<1>3. m \in Mem /\ m.ver = Memory(g).ver /\ m.seen = Memory(g).ver
  BY <1>2 DEF Mem
<1>. HIDE DEF m
<1>4. /\ guests' \in Seq(AGuest) /\ DOMAIN guests' = DOMAIN guests
      /\ \A h \in DOMAIN guests : h # g => guests'[h] = guests[h]
      /\ guests'[g].dir = guests[g].dir /\ guests'[g].drive = guests[g].drive /\ guests'[g].state = guests[g].state
      /\ guests'[g].first = guests[g].first /\ guests'[g].fit = guests[g].fit
      /\ guests'[g].from = guests[g].from /\ guests'[g].intact = guests[g].intact
      /\ guests'[g].own = m /\ guests'[g].ver = guests[g].ver
  <2>. DEFINE r == [guests[g] EXCEPT !.own = m]
  <2>1. guests[g] \in AGuest /\ g \in 1..Len(guests) /\ DOMAIN guests = 1..Len(guests) /\ guests \in Seq(AGuest)
    BY Fields DEF SnapInv, Typed
  <2>2. /\ r \in AGuest /\ r.dir = guests[g].dir /\ r.drive = guests[g].drive /\ r.state = guests[g].state
        /\ r.first = guests[g].first /\ r.fit = guests[g].fit
        /\ r.from = guests[g].from /\ r.intact = guests[g].intact
        /\ r.own = m /\ r.ver = guests[g].ver
    BY <1>3, <2>1 DEF AGuest
  <2>3. guests' = [guests EXCEPT ![g] = r]
    BY <1>1
  <2>. HIDE DEF r
  <2>4. /\ guests' \in Seq(AGuest) /\ Len(guests') = Len(guests)
        /\ \A h \in 1..Len(guests) : guests'[h] = IF h = g THEN r ELSE guests[h]
    BY <2>1, <2>2, <2>3, ExceptSeq
  <2>5. DOMAIN guests' = DOMAIN guests
    BY <2>1, <2>4, LenProperties
  <2>. QED  BY <2>1, <2>2, <2>4, <2>5
<1>5. /\ writes' \in Versions /\ image' \in [Dirs -> Image] /\ image'[d] = m.seen
      /\ \A e \in Dirs : image[e] # NoImage => image'[e] # NoImage
      /\ \A e \in Dirs : e # d => image'[e] = image[e]
  <2>1. d \in Dirs /\ image \in [Dirs -> Image] /\ writes \in Versions
    BY Fields DEF SnapInv, Typed
  <2>. QED  BY <1>1, <1>2, <1>3, <2>1
<1>6. Undisturbed(g) => m.ver = guests'[g].ver
  BY <1>3, <1>4 DEF Undisturbed
<1>. QED  BY <1>1, <1>3, <1>4, <1>5, <1>6, GuestMoves

\* A machine's guest ends, and may have written back what it had.
LEMMA EndingKeeps ==
  ASSUME SnapInv, NEW v \in DOMAIN vms, Ending(v), vms' = [vms EXCEPT ![v].guest = 0],
         UNCHANGED <<files, backing, infos, touched, crowded>>, calls' = calls + 1
  PROVE  /\ guests' \in Seq(AGuest) /\ vms' \in Seq(Machine) /\ image' \in [Dirs -> Image]
         /\ Apart' /\ Objects' /\ IntactSnapshotIsExact' /\ Stored' /\ Handed'
         /\ DOMAIN guests' = DOMAIN guests /\ DOMAIN vms' = DOMAIN vms
         /\ \A h \in DOMAIN guests : guests'[h].state = "paused" => guests[h].state = "paused"
<1>. DEFINE g == vms[v].guest
<1>1. image \in [Dirs -> Image] /\ guests \in Seq(AGuest)
  BY DEF SnapInv, Typed
<1>2. /\ guests' \in Seq(AGuest) /\ SameGuests
      /\ \A h \in DOMAIN guests : guests'[h].state = IF h = g THEN "gone" ELSE guests[h].state
  <2>1. CASE g = 0
    BY <1>1, <2>1, Fields DEF Ending, SnapInv, SameGuests, Same
  <2>2. CASE g # 0
    <3>1. g \in DOMAIN guests /\ guests' = [guests EXCEPT ![g].state = "gone"]
      BY <2>2 DEF Ending, SnapInv, Objects, Alive
    <3>. QED  BY <3>1, StateSet DEF SnapInv
  <2>. QED  BY <2>1, <2>2
<1>3. /\ image' \in [Dirs -> Image]
      /\ \A d \in Dirs : image[d] # NoImage => image'[d] # NoImage
      /\ \A d \in Dirs : image'[d] # image[d] => g \in Alive /\ d = guests[g].drive
  <2>1. CASE image' = image
    BY <1>1, <2>1
  <2>2. CASE g # 0 /\ image' = [image EXCEPT ![guests[g].drive] = Memory(g).ver]
    <3>1. g \in Alive
      BY <2>2 DEF SnapInv, Objects
    <3>2. Memory(g).ver \in Image /\ Memory(g).ver # NoImage
      BY <3>1, Values DEF SnapInv, Apart
    <3>. QED  BY <1>1, <2>2, <3>1, <3>2
  <2>. QED  BY <2>1, <2>2 DEF Ending
<1>4. /\ Alive' \subseteq Alive /\ g \notin Alive'
      /\ \A h \in Alive : h # g => h \in Alive'
  BY <1>2 DEF Alive, Live, SameGuests
<1>5. \A h \in Alive' : guests[h].drive \notin crowded' => image'[guests[h].drive] = image[guests[h].drive]
  <2>. SUFFICES ASSUME NEW h \in Alive', image'[guests[h].drive] # image[guests[h].drive]
                PROVE  guests[h].drive \in crowded
    OBVIOUS
  <2>1. h \in Alive /\ h # g /\ guests[h].drive \in Dirs
    BY <1>4, Fields DEF SnapInv, Alive
  <2>2. g \in Alive /\ guests[h].drive = guests[g].drive
    BY <1>3, <2>1
  <2>. QED  BY <2>1, <2>2 DEF SnapInv, Apart, Places
<1>6. \A h \in Alive' : guests[h].own = NoMem => backing[guests[h].back] \in Mem
  BY <1>4 DEF SnapInv, Apart, Memory
<1>7. Apart'
  BY <1>2, <1>3, <1>4, <1>5, <1>6, ApartKept DEF SnapInv
<1>8. /\ vms' \in Seq(Machine) /\ DOMAIN vms' = DOMAIN vms
      /\ \A w \in DOMAIN vms : /\ vms'[w].rootfs = vms[w].rootfs
                               /\ vms'[w].guest = IF w = v THEN 0 ELSE vms[w].guest
  BY MachineSet DEF SnapInv
<1>9. Objects'
  <2>1. \A w \in DOMAIN vms : w # v /\ vms[w].guest # 0 => vms[w].guest \in Alive'
    BY <1>4 DEF SnapInv, Objects
  <2>2. \A w \in DOMAIN vms : vms[w].rootfs \in Dirs
    BY Fields DEF SnapInv
  <2>. QED  BY <1>3, <1>8, <2>1, <2>2 DEF SnapInv, Objects
<1>10. Stored' /\ Handed'
  <2>1. calls \in Nat /\ calls' \in Nat /\ calls' >= calls
    BY DEF SnapInv, Typed
  <2>. QED  BY <1>3, <2>1, ImagesKept DEF SnapInv
<1>. QED  BY <1>2, <1>3, <1>7, <1>8, <1>9, <1>10, IntactKept DEF SnapInv, SameGuests

LEMMA ShutdownKeeps ==
  ASSUME SnapInv, NEW v \in DOMAIN vms, Shutdown(v)
  PROVE  SnapInv'
<1>1. /\ pc = "idle" /\ Ending(v) /\ vms' = [vms EXCEPT ![v].guest = 0] /\ calls' = calls + 1
      /\ UNCHANGED <<files, backing, infos, registry, pc, call, writes, failed, touched, crowded>>
  BY DEF Shutdown, Idle
<1>2. /\ guests' \in Seq(AGuest) /\ vms' \in Seq(Machine) /\ image' \in [Dirs -> Image]
      /\ Apart' /\ Objects' /\ IntactSnapshotIsExact' /\ Stored' /\ Handed'
      /\ DOMAIN guests' = DOMAIN guests
      /\ \A h \in DOMAIN guests : guests'[h].state = "paused" => guests[h].state = "paused"
  BY <1>1, EndingKeeps
<1>3. Typed'
  BY <1>1, <1>2 DEF SnapInv, Typed
<1>4. InCall' /\ PausedOnlyInside'
  BY <1>1, <1>2 DEF SnapInv, InCall, Making, Loading, PausedOnlyInside, Snapshotting
<1>. QED  BY <1>2, <1>3, <1>4 DEF SnapInv

LEMMA RestoreKeeps ==
  ASSUME SnapInv, NEW v \in DOMAIN vms, NEW i \in infos, Restore(v, i)
  PROVE  SnapInv'
<1>1. /\ pc = "idle" /\ Ending(v) /\ vms' = [vms EXCEPT ![v].guest = 0] /\ calls' = calls + 1 /\ pc' = "memory"
      /\ call' = [op |-> "restore", v |-> v, snap |-> i.name, to |-> vms[v].dir, info |-> i, named |-> NoInfo]
      /\ UNCHANGED <<files, backing, infos, registry, writes, failed, touched, crowded>>
  BY DEF Restore, Idle
<1>2. /\ guests' \in Seq(AGuest) /\ vms' \in Seq(Machine) /\ image' \in [Dirs -> Image]
      /\ Apart' /\ Objects' /\ IntactSnapshotIsExact' /\ Stored' /\ Handed'
      /\ DOMAIN guests' = DOMAIN guests /\ DOMAIN vms' = DOMAIN vms
      /\ \A h \in DOMAIN guests : guests'[h].state = "paused" => guests[h].state = "paused"
  BY <1>1, EndingKeeps
<1>3. i \in HandedOut /\ i \in Info /\ i.name \in Snaps
  BY Values DEF SnapInv, Typed, HandedOut
<1>4. call' \in ACall
  <2>1. vms[v].dir \in Dirs /\ v \in Nat
    BY Fields DEF SnapInv
  <2>. QED  BY <1>1, <1>3, <2>1, Values DEF ACall
<1>5. Typed'
  BY <1>1, <1>2, <1>3, <1>4 DEF SnapInv, Typed
<1>6. InCall'
  <2>1. Exact(i)'
    BY <1>1, <1>2 DEF Handed, Exact
  <2>2. Exact(call.info)'
    BY <1>1, <2>1 DEF Exact
  <2>. QED  BY <1>1, <1>2, <2>2 DEF InCall, Making, Loading, Snapshotting
<1>7. PausedOnlyInside'
  BY <1>1, <1>2 DEF SnapInv, PausedOnlyInside, Snapshotting
<1>. QED  BY <1>2, <1>5, <1>6, <1>7 DEF SnapInv

-----------------------------------------------------------------------------
(* A snapshot is made. *)

LEMMA BranchDir ==
  ASSUME NEW d \in Dirs, NEW n \in Names, Len(d) < MaxDepth
  PROVE  Append(d, n) \in Dirs
<1>1. PICK k \in 0..MaxDepth : d \in [1..k -> Names]
  BY DEF Dirs
<1>2. k \in Nat /\ d \in Seq(Names) /\ Len(d) = k
  BY <1>1, LenProperties, SeqDef
<1>3. Append(d, n) \in Seq(Names) /\ Len(Append(d, n)) = k + 1
  BY <1>2, AppendProperties
<1>4. Append(d, n) \in [1..(k + 1) -> Names]
  BY <1>3, LenProperties
<1>5. k + 1 \in 0..MaxDepth
  BY <1>1, <1>2, SnapshotsAssumption
<1>. QED  BY <1>4, <1>5 DEF Dirs

\* A snapshot that is asked for makes nothing of what is on disk inexact.
LEMMA CreateSnapshotKeeps ==
  ASSUME SnapInv, NEW v \in DOMAIN vms, NEW s \in Snaps, NEW op \in {"snapshot", "branch"}, NEW to \in Dirs,
         CreateSnapshot(v, s, op, to)
  PROVE  SnapInv'
<1>. PICK g : g = vms[v].guest
  OBVIOUS
<1>. PICK key : key = <<vms[v].dir, s>>
  OBVIOUS
<1>. PICK i : i = [dir |-> vms[v].dir, name |-> s, rootfs |-> vms[v].rootfs, taken |-> Memory(g), serial |-> calls + 1]
  OBVIOUS
<1>1. /\ pc = "idle" /\ g # 0 /\ files' = [files EXCEPT ![key] = NoFile]
      /\ touched' = [touched EXCEPT ![key] = calls + 1] /\ calls' = calls + 1
      /\ UNCHANGED <<image, backing, vms, infos, registry, writes, crowded>>
  BY DEF CreateSnapshot, Idle
<1>2. \/ /\ guests' = [guests EXCEPT ![g].state = "paused"] /\ pc' = "create" /\ failed' = failed
         /\ call' = [op |-> op, v |-> v, snap |-> s, to |-> to, named |-> registry[s], info |-> i]
      \/ /\ guests' = guests \/ guests' = [guests EXCEPT ![g].state = "paused"]
         /\ call' = call /\ pc' = pc /\ failed \subseteq failed' /\ <<"pause", g>> \in failed'
  BY DEF CreateSnapshot, Pause, Fails
<1>3. vms[v].dir \in Dirs /\ vms[v].rootfs \in Dirs /\ v \in Nat /\ key \in Keys /\ calls \in Nat
  <2>1. vms[v].dir \in Dirs /\ vms[v].rootfs \in Dirs /\ v \in Nat
    BY Fields DEF SnapInv
  <2>. QED  BY <2>1 DEF Keys, SnapInv, Typed
<1>4. g \in Alive /\ g \in DOMAIN guests /\ Memory(g) \in Mem
  BY <1>1 DEF SnapInv, Objects, Alive, Apart
<1>5. i \in HandedOut /\ i \in Info /\ i.serial = calls + 1 /\ i.taken = Memory(g) /\ i.rootfs = vms[v].rootfs
      /\ <<i.dir, i.name>> = key
  <2>1. calls + 1 \in Nat
    BY <1>3
  <2>. QED  BY <1>3, <1>4, <2>1, Values DEF HandedOut
<1>6. /\ files' \in [Keys -> [mem : Mem \cup {NoMem}, drive : Dirs]] /\ touched' \in [Keys -> Nat] /\ calls' \in Nat
      /\ files'[key] = NoFile /\ \A k \in Keys : k # key => files'[k] = files[k]
      /\ touched'[key] = calls + 1 /\ \A k \in Keys : k # key => touched'[k] = touched[k]
  <2>1. NoFile \in [mem : Mem \cup {NoMem}, drive : Dirs]
    BY Values DEF NoFile
  <2>2. files \in [Keys -> [mem : Mem \cup {NoMem}, drive : Dirs]] /\ touched \in [Keys -> Nat]
    BY DEF SnapInv, Typed
  <2>. QED  BY <1>1, <1>3, <2>1, <2>2
<1>7. /\ guests' \in Seq(AGuest) /\ SameGuests
      /\ \A h \in DOMAIN guests : \/ guests'[h].state = guests[h].state
                                  \/ /\ h = g /\ guests'[h].state = "paused"
                                     /\ pc' = "create" \/ <<"pause", g>> \in failed'
      /\ pc' = "create" => guests'[g].state = "paused"
  <2>1. CASE guests' = guests /\ pc' = pc
    BY <1>1, <2>1 DEF SnapInv, Typed, SameGuests, Same
  <2>2. CASE guests' = [guests EXCEPT ![g].state = "paused"] /\ (pc' = "create" \/ <<"pause", g>> \in failed')
    BY <1>4, <2>2, StateSet DEF SnapInv
  <2>. QED  BY <1>2, <2>1, <2>2
<1>8. Alive' = Alive
  BY <1>4, <1>7 DEF Alive, Live, SameGuests
<1>9. Apart'
  <2>1. \A h \in Alive' : guests[h].own = NoMem => backing'[guests[h].back] \in Mem
    BY <1>1, <1>8 DEF SnapInv, Apart, Memory
  <2>. QED  BY <1>1, <1>7, <1>8, <2>1, ApartKept DEF SnapInv
<1>10. Stored'
  BY <1>1, <1>6 DEF SnapInv, Stored
<1>11. Objects'
  BY <1>1, <1>8 DEF SnapInv, Objects
<1>12. Handed'
  <2>. SUFFICES ASSUME NEW j \in infos  PROVE Exact(j)'
    BY <1>1 DEF Handed
  <2>1. j \in HandedOut /\ Exact(j)
    BY DEF SnapInv, Handed, Typed
  <2>2. j.serial \in Nat /\ <<j.dir, j.name>> \in Keys
    BY <2>1 DEF HandedOut, Keys
  <2>3. j.serial <= calls'
    BY <1>1, <1>3, <2>1, <2>2 DEF Exact
  <2>. QED  BY <1>1, <1>6, <2>1, <2>2, <2>3 DEF Exact
<1>13. Typed'
  <2>1. CASE call' = call /\ pc' = pc
    BY <1>1, <1>6, <1>7, <2>1 DEF SnapInv, Typed
  <2>2. CASE /\ call' = [op |-> op, v |-> v, snap |-> s, to |-> to, named |-> registry[s], info |-> i]
             /\ pc' = "create"
    <3>1. call' \in ACall /\ call'.info \in HandedOut
      <4>1. registry[s] \in Info
        BY DEF SnapInv, Typed
      <4>. QED  BY <1>3, <1>5, <2>2, <4>1 DEF ACall
    <3>. QED  BY <1>1, <1>6, <1>7, <2>2, <3>1 DEF SnapInv, Typed
  <2>. QED  BY <1>2, <2>1, <2>2
<1>14. InCall'
  <2>1. CASE pc' = pc
    BY <1>1, <2>1 DEF InCall, Making, Loading, Snapshotting
  <2>2. CASE /\ call' = [op |-> op, v |-> v, snap |-> s, to |-> to, named |-> registry[s], info |-> i]
             /\ pc' = "create"
    <3>1. call'.v = v /\ call'.op = op /\ call'.info = i
      BY <2>2
    <3>2. Exact(call.info)'
      <4>1. i.serial <= calls' /\ image[i.rootfs] # NoImage
        BY <1>1, <1>3, <1>5 DEF SnapInv, Objects
      <4>. QED  BY <1>1, <1>5, <1>6, <3>1, <4>1 DEF Exact
    <3>3. Making'
      <4>1. Caller' = g /\ NewKey' = key
        BY <1>1, <1>5, <3>1 DEF Caller, NewKey
      <4>2. \A j \in infos : j.serial < i.serial
        <5>1. \A j \in infos : j.serial <= calls /\ j \in HandedOut
          BY DEF SnapInv, Typed, Handed, Exact
        <5>2. \A j \in HandedOut : j.serial \in Nat
          BY DEF HandedOut
        <5>3. i.serial = calls + 1 /\ calls \in Nat
          BY <1>3, <1>5
        <5>. QED  BY <5>1, <5>2, <5>3
      <4>3. Memory(g)' = Memory(g)
        BY <1>1, <1>4, <1>7 DEF Memory, SameGuests, Same
      <4>4. Memory(Caller)' = i.taken /\ guests'[Caller'].state = "paused"
        BY <1>5, <1>7, <2>2, <4>1, <4>3 DEF Memory
      <4>. QED  BY <1>1, <1>5, <1>6, <3>1, <4>1, <4>2, <4>4 DEF Making, Snapshotting
    <3>. QED  BY <1>1, <2>2, <3>1, <3>2, <3>3 DEF InCall, Loading
  <2>. QED  BY <1>2, <2>1, <2>2
<1>15. PausedOnlyInside'
  <2>1. \A h \in DOMAIN guests : guests[h].state = "paused" => {<<"pause", h>>, <<"resume", h>>} \cap failed # {}
    BY <1>1 DEF SnapInv, PausedOnlyInside, Snapshotting
  <2>2. failed \subseteq failed' /\ (pc' = "create" => Caller' = g /\ Snapshotting')
    BY <1>1, <1>2 DEF Caller, Snapshotting
  <2>. QED  BY <1>7, <2>1, <2>2 DEF PausedOnlyInside, SameGuests, Snapshotting
<1>. QED  BY <1>7, <1>9, <1>10, <1>11, <1>12, <1>13, <1>14, <1>15, IntactKept DEF SnapInv

\* The files are written: of use or not, they are exact.
LEMMA WrittenKeeps ==
  ASSUME SnapInv, pc = "create", pc' \in {"resume", "unwind"}, failed \subseteq failed', files' = WrittenOut,
         UNCHANGED <<image, backing, guests, vms, infos, registry, call, writes, calls, touched, crowded>>
  PROVE  SnapInv'
<1>. PICK f : f = [mem |-> Memory(Caller), drive |-> guests[Caller].drive]
  OBVIOUS
<1>1. /\ pc = "create" /\ pc' \in {"resume", "unwind"} /\ files' = [files EXCEPT ![NewKey] = f]
      /\ Snapshotting /\ Snapshotting' /\ failed \subseteq failed'
      /\ UNCHANGED <<image, backing, guests, vms, infos, registry, call, writes, calls, touched, crowded>>
  BY DEF WrittenOut, Snapshotting
<1>2. /\ call.v \in DOMAIN vms /\ Caller \in Alive /\ Caller \in DOMAIN guests
      /\ call.info \in HandedOut /\ NewKey \in Keys /\ calls \in Nat
  BY <1>1, CallerLives DEF SnapInv, Typed, NewKey, HandedOut, Keys
<1>3. /\ f.mem = Memory(Caller) /\ Memory(Caller) \in Mem /\ f.mem = call.info.taken
      /\ f.drive = guests[Caller].drive /\ f.drive \in Dirs /\ image[f.drive] # NoImage
  BY <1>1, <1>2, Fields DEF SnapInv, Apart, InCall, Making, Snapshotting
<1>4. f \in [mem : Mem \cup {NoMem}, drive : Dirs]
  BY <1>3
<1>5. /\ files' \in [Keys -> [mem : Mem \cup {NoMem}, drive : Dirs]] /\ files'[NewKey] = f
      /\ \A k \in Keys : k # NewKey => files'[k] = files[k]
  BY <1>1, <1>2, <1>4 DEF SnapInv, Typed
<1>6. Typed'
  BY <1>1, <1>5 DEF SnapInv, Typed
<1>7. Stored'
  BY <1>1, <1>3, <1>5 DEF SnapInv, Stored
<1>8. Objects' /\ IntactSnapshotIsExact'
  BY <1>1 DEF SnapInv, Objects, Alive, Live, IntactSnapshotIsExact
<1>9. Apart'
  BY <1>1 DEF SnapInv, Apart, MachinesApart, Undisturbed, Coherent, Memory, Places, Alive, Live
<1>10. Handed'
  <2>. SUFFICES ASSUME NEW j \in infos  PROVE Exact(j)'
    BY <1>1 DEF Handed
  <2>1. j \in HandedOut /\ Exact(j) /\ <<j.dir, j.name>> \in Keys
    BY DEF SnapInv, Handed, Typed, HandedOut, Keys
  <2>2. touched[NewKey] = call.info.serial /\ j.serial < call.info.serial /\ j.serial \in Nat /\ call.info.serial \in Nat
    BY <1>1, <1>2, <2>1 DEF SnapInv, InCall, Making, HandedOut, Snapshotting
  <2>3. <<j.dir, j.name>> = NewKey => touched[<<j.dir, j.name>>] # j.serial
    BY <2>2
  <2>. QED  BY <1>1, <1>5, <2>1, <2>3 DEF Exact
<1>11. InCall'
  <2>1. Exact(call.info) /\ <<call.info.dir, call.info.name>> = NewKey
    BY <1>1 DEF SnapInv, InCall, NewKey
  <2>2. Exact(call.info)'
    BY <1>1, <1>3, <1>5, <2>1 DEF Exact
  <2>3. Making'
    BY <1>1 DEF SnapInv, InCall, Making, Caller, NewKey, Snapshotting
  <2>. QED  BY <1>1, <1>2, <2>2, <2>3 DEF InCall, Loading
<1>12. PausedOnlyInside'
  BY <1>1 DEF SnapInv, PausedOnlyInside, Caller, Snapshotting
<1>. QED  BY <1>6, <1>7, <1>8, <1>9, <1>10, <1>11, <1>12 DEF SnapInv

LEMMA CreateKeeps ==
  ASSUME SnapInv, Create \/ CreateFails
  PROVE  SnapInv'
<1>1. /\ pc = "create" /\ pc' \in {"resume", "unwind"} /\ failed \subseteq failed'
      /\ files' \in {files, WrittenOut} /\ Snapshotting /\ Snapshotting'
      /\ UNCHANGED <<image, backing, guests, vms, infos, registry, call, writes, calls, touched, crowded>>
  BY DEF Create, CreateFails, AfterFailedCreate, Fails, Snapshotting
<1>2. CASE files' = WrittenOut
  BY <1>1, <1>2, WrittenKeeps
<1>3. CASE files' = files
  <2>1. Typed' /\ Stored' /\ Objects' /\ Handed' /\ IntactSnapshotIsExact'
    BY <1>1, <1>3 DEF SnapInv, Typed, Stored, Objects, Alive, Live, Handed, Exact, IntactSnapshotIsExact
  <2>2. Apart'
    BY <1>1 DEF SnapInv, Apart, MachinesApart, Undisturbed, Coherent, Memory, Places, Alive, Live
  <2>3. InCall' /\ PausedOnlyInside'
    BY <1>1, <1>3 DEF SnapInv, InCall, Exact, Making, Loading, PausedOnlyInside, Caller, NewKey, Snapshotting
  <2>. QED  BY <2>1, <2>2, <2>3 DEF SnapInv
<1>. QED  BY <1>1, <1>2, <1>3

\* The machine goes on, or stays paused when the request fails.
LEMMA CallerSet ==
  ASSUME SnapInv, Snapshotting, NEW s \in {"running", "paused"}, guests' = [guests EXCEPT ![Caller].state = s],
         UNCHANGED <<image, files, backing, vms, call, writes, calls, touched, crowded>>
  PROVE  /\ guests' \in Seq(AGuest) /\ SameGuests /\ Apart' /\ Stored' /\ Objects' /\ IntactSnapshotIsExact'
         /\ \A h \in DOMAIN guests : guests'[h].state = IF h = Caller THEN s ELSE guests[h].state
         /\ \A j : Exact(j) => Exact(j)'
<1>1. Caller \in Alive /\ Caller \in DOMAIN guests
  BY CallerLives
<1>2. /\ guests' \in Seq(AGuest) /\ SameGuests
      /\ \A h \in DOMAIN guests : guests'[h].state = IF h = Caller THEN s ELSE guests[h].state
  BY <1>1, StateSet DEF SnapInv
<1>3. Alive' = Alive
  BY <1>1, <1>2 DEF Alive, Live, SameGuests
<1>4. Apart'
  <2>1. \A h \in Alive' : guests[h].own = NoMem => backing'[guests[h].back] \in Mem
    BY <1>3 DEF SnapInv, Apart, Memory
  <2>. QED  BY <1>2, <1>3, <2>1, ApartKept DEF SnapInv
<1>5. Stored' /\ Objects' /\ \A j : Exact(j) => Exact(j)'
  BY <1>3 DEF SnapInv, Stored, Objects, Exact
<1>. QED  BY <1>2, <1>4, <1>5, IntactKept DEF SnapInv

LEMMA ResumeKeeps ==
  ASSUME SnapInv, Resume \/ Unwind
  PROVE  SnapInv'
<1>1. /\ Snapshotting /\ pc # "idle" /\ guests' = [guests EXCEPT ![Caller].state = "running"]
      /\ UNCHANGED <<image, files, backing, vms, call, writes, calls, failed, touched, crowded>>
      /\ infos' \subseteq infos \cup {call.info} /\ (registry' = registry \/ registry' = [registry EXCEPT ![call.snap] = call.info])
      /\ pc' = "idle" \/ (pc' = "memory" /\ call.op = "branch")
  BY DEF Resume, Unwind, Snapshotting, data
<1>2. /\ guests' \in Seq(AGuest) /\ SameGuests /\ Apart' /\ Stored' /\ Objects' /\ IntactSnapshotIsExact'
      /\ \A h \in DOMAIN guests : guests'[h].state = IF h = Caller THEN "running" ELSE guests[h].state
      /\ \A j : Exact(j) => Exact(j)'
  BY <1>1, CallerSet
<1>3. call.info \in HandedOut /\ call.info \in Info
  BY <1>1, Values DEF SnapInv, Typed
<1>4. registry' \in [Snaps -> Info] /\ infos' \subseteq HandedOut
  BY <1>1, <1>3 DEF SnapInv, Typed
<1>5. Typed'
  BY <1>1, <1>2, <1>3, <1>4 DEF SnapInv, Typed
<1>6. call.v \in DOMAIN vms /\ Exact(call.info)' /\ \A j \in infos : Exact(j)'
  BY <1>1, <1>2 DEF SnapInv, InCall, Handed
<1>7. Handed'
  BY <1>1, <1>6 DEF Handed, Exact
<1>8. InCall'
  <2>1. Making' /\ Loading'
    BY <1>1 DEF Making, Loading, Snapshotting
  <2>2. Exact(call.info)' /\ call'.v \in DOMAIN vms'
    BY <1>1, <1>6
  <2>. QED  BY <2>1, <2>2 DEF InCall
<1>9. PausedOnlyInside'
  BY <1>1, <1>2 DEF SnapInv, PausedOnlyInside, SameGuests, Snapshotting
<1>. QED  BY <1>2, <1>5, <1>7, <1>8, <1>9 DEF SnapInv

LEMMA ResumeFailsKeeps ==
  ASSUME SnapInv, ResumeFails
  PROVE  SnapInv'
<1>1. /\ Snapshotting /\ pc' = "idle" /\ <<"resume", Caller>> \in failed' /\ failed \subseteq failed'
      /\ UNCHANGED <<image, files, backing, vms, infos, registry, call, writes, calls, touched, crowded>>
  BY DEF ResumeFails, Fails, Snapshotting, data
<1>2. PICK s \in {"running", "paused"} : guests' = [guests EXCEPT ![Caller].state = s]
  BY DEF ResumeFails
<1>3. /\ guests' \in Seq(AGuest) /\ SameGuests /\ Apart' /\ Stored' /\ Objects' /\ IntactSnapshotIsExact'
      /\ \A j : Exact(j) => Exact(j)'
  BY <1>1, <1>2, CallerSet
<1>4. Typed'
  BY <1>1, <1>3 DEF SnapInv, Typed
<1>5. Handed'
  <2>1. \A j \in infos : Exact(j)'
    BY <1>3 DEF SnapInv, Handed
  <2>. QED  BY <1>1, <2>1 DEF Handed, Exact
<1>6. InCall'
  BY <1>1 DEF InCall, Making, Loading, Snapshotting
<1>7. \A h \in DOMAIN guests : h # Caller => guests'[h].state = guests[h].state
  BY <1>1, <1>2, StateSet, CallerLives DEF SnapInv
<1>8. PausedOnlyInside'
  BY <1>1, <1>3, <1>7 DEF SnapInv, PausedOnlyInside, SameGuests, Snapshotting
<1>. QED  BY <1>3, <1>4, <1>5, <1>6, <1>8 DEF SnapInv

-----------------------------------------------------------------------------
(* A snapshot is loaded. *)

LEMMA LoadMemoryKeeps ==
  ASSUME SnapInv, LoadMemory
  PROVE  SnapInv'
<1>. PICK m : m = files[NewKey].mem
  OBVIOUS
<1>1. /\ pc = "memory" /\ pc' = "disk" /\ files[NewKey] # NoFile /\ backing' = [backing EXCEPT ![Map] = m]
      /\ crowded' = crowded \cup Meeting(call.to) \cup (IF Isolated THEN {} ELSE Meeting(call.info.rootfs))
      /\ UNCHANGED <<image, files, guests, vms, infos, registry, call, writes, calls, failed, touched>>
  BY DEF LoadMemory
<1>2. /\ call.info \in HandedOut /\ call.to \in Dirs /\ NewKey \in Keys /\ Map \in Keys /\ Map[1] = call.to
      /\ call.v \in DOMAIN vms /\ Exact(call.info) /\ call.op \in {"branch", "restore"}
  <2>1. call.info \in HandedOut /\ call \in ACall
    BY <1>1 DEF SnapInv, Typed
  <2>2. call.v \in DOMAIN vms /\ Exact(call.info) /\ call.op \in {"branch", "restore"}
    BY <1>1 DEF SnapInv, InCall, Loading
  <2>. QED  BY <2>1, <2>2 DEF ACall, HandedOut, NewKey, Map, Keys
<1>3. m \in Mem
  BY <1>1, <1>2 DEF SnapInv, Stored
<1>4. /\ backing' \in [Keys -> Mem \cup {NoMem}] /\ backing'[Map] = m
      /\ \A k \in Keys : k # Map => backing'[k] = backing[k]
  BY <1>1, <1>2, <1>3 DEF SnapInv, Typed
<1>5. /\ crowded \subseteq crowded' /\ \A h \in Alive : Places(h) \cap {call.to, Drive} \subseteq crowded'
  BY <1>1 DEF Meeting, Places, Drive
<1>6. Alive' = Alive /\ SameGuests
  BY <1>1 DEF Alive, Live, SameGuests, Same
<1>7. Apart'
  <2>. SUFFICES ASSUME NEW h \in Alive, guests[h].own = NoMem
                PROVE  /\ backing'[guests[h].back] \in Mem
                       /\ guests[h].dir \notin crowded' => backing'[guests[h].back] = backing[guests[h].back]
    BY <1>1, <1>5, <1>6, ApartKept DEF SnapInv
  <2>1. guests[h].back \in Keys /\ guests[h].back[1] = guests[h].dir /\ backing[guests[h].back] \in Mem
    BY Fields DEF SnapInv, Apart, Alive, Memory
  <2>2. CASE guests[h].back = Map
    <3>1. guests[h].dir \in crowded'
      BY <1>2, <1>5, <2>1, <2>2 DEF Places
    <3>. QED  BY <1>3, <1>4, <2>2, <3>1
  <2>3. CASE guests[h].back # Map
    BY <1>4, <2>1, <2>3
  <2>. QED  BY <2>2, <2>3
<1>8. Typed'
  BY <1>1, <1>4 DEF SnapInv, Typed
<1>9. Stored' /\ Objects' /\ Handed' /\ IntactSnapshotIsExact'
  BY <1>1, <1>6 DEF SnapInv, Stored, Objects, Handed, Exact, IntactSnapshotIsExact
<1>10. InCall'
  <2>1. Exact(call.info)'
    BY <1>1, <1>2 DEF Exact
  <2>2. touched[NewKey] = call.info.serial => m = call.info.taken
    BY <1>1, <1>2 DEF Exact, NewKey
  <2>3. Map' = Map /\ NewKey' = NewKey /\ Drive' = Drive /\ \A h \in Alive : Places(h)' = Places(h)
    BY <1>1 DEF Map, NewKey, Drive, Isolated, Places
  <2>4. Loading'
    BY <1>1, <1>2, <1>3, <1>4, <1>5, <1>6, <2>2, <2>3 DEF Loading
  <2>. QED  BY <1>1, <1>2, <2>1, <2>4 DEF InCall, Making, Snapshotting
<1>11. PausedOnlyInside'
  BY <1>1 DEF SnapInv, PausedOnlyInside, Snapshotting
<1>. QED  BY <1>7, <1>8, <1>9, <1>10, <1>11 DEF SnapInv

LEMMA LoadDiskKeeps ==
  ASSUME SnapInv, LoadDisk
  PROVE  SnapInv'
<1>. PICK x : x = image[call.info.rootfs]
  OBVIOUS
<1>1. /\ pc = "disk" /\ pc' = "boot" /\ image' = IF Isolated THEN [image EXCEPT ![call.to] = x] ELSE image
      /\ UNCHANGED <<files, backing, guests, vms, infos, registry, call, writes, calls, failed, touched, crowded>>
  BY DEF LoadDisk, CopiesDisk
<1>2. /\ call.info \in HandedOut /\ call.to \in Dirs /\ call.info.rootfs \in Dirs /\ call.v \in DOMAIN vms
      /\ Exact(call.info) /\ call.op \in {"branch", "restore"}
      /\ \A h \in Alive : Places(h) \cap {call.to, Drive} \subseteq crowded
  <2>1. call.info \in HandedOut /\ call \in ACall
    BY <1>1 DEF SnapInv, Typed
  <2>2. /\ call.v \in DOMAIN vms /\ Exact(call.info) /\ call.op \in {"branch", "restore"}
        /\ \A h \in Alive : Places(h) \cap {call.to, Drive} \subseteq crowded
    BY <1>1 DEF SnapInv, InCall, Loading
  <2>. QED  BY <2>1, <2>2 DEF ACall, HandedOut
<1>3. x \in Image /\ x # NoImage /\ image \in [Dirs -> Image]
  BY <1>2 DEF SnapInv, Typed, Exact
<1>4. /\ image' \in [Dirs -> Image]
      /\ \A d \in Dirs : image[d] # NoImage => image'[d] # NoImage
      /\ \A d \in Dirs : d # call.to => image'[d] = image[d]
      /\ image'[Drive] # NoImage
  <2>1. CASE Isolated
    BY <1>1, <1>2, <1>3, <2>1 DEF Drive
  <2>2. CASE ~Isolated
    BY <1>1, <1>3, <2>2 DEF Drive
  <2>. QED  BY <2>1, <2>2
<1>5. Alive' = Alive /\ SameGuests
  BY <1>1 DEF Alive, Live, SameGuests, Same
<1>6. Apart'
  <2>1. ASSUME NEW h \in Alive, guests[h].drive \notin crowded  PROVE image'[guests[h].drive] = image[guests[h].drive]
    <3>1. guests[h].drive # call.to /\ guests[h].drive \in Dirs
      BY <1>2, <2>1, Fields DEF SnapInv, Alive, Places
    <3>. QED  BY <1>4, <3>1
  <2>2. \A h \in Alive : guests[h].own = NoMem => backing[guests[h].back] \in Mem
    BY DEF SnapInv, Apart, Memory
  <2>. QED  BY <1>1, <1>4, <1>5, <2>1, <2>2, ApartKept DEF SnapInv
<1>7. /\ Stored' /\ Handed'
      /\ \A j \in HandedOut : Exact(j) => Exact(j)'
  <2>1. calls \in Nat /\ calls' = calls /\ calls' >= calls
    BY <1>1 DEF SnapInv, Typed
  <2>. QED  BY <1>1, <1>4, <2>1, ImagesKept DEF SnapInv
<1>8. Objects' /\ IntactSnapshotIsExact'
  <2>1. \A w \in DOMAIN vms : vms[w].rootfs \in Dirs
    BY Fields DEF SnapInv
  <2>. QED  BY <1>1, <1>4, <1>5, <2>1 DEF SnapInv, Objects, IntactSnapshotIsExact
<1>9. Typed'
  BY <1>1, <1>4 DEF SnapInv, Typed
<1>10. InCall'
  <2>1. Exact(call.info)' /\ call'.v \in DOMAIN vms'
    BY <1>1, <1>2, <1>7
  <2>2. Map' = Map /\ NewKey' = NewKey /\ Drive' = Drive /\ \A h \in Alive : Places(h)' = Places(h)
    BY <1>1 DEF Map, NewKey, Drive, Isolated, Places
  <2>3. Loading'
    <3>1. backing[Map] \in Mem /\ (touched[NewKey] = call.info.serial => backing[Map] = call.info.taken)
      BY <1>1 DEF SnapInv, InCall, Loading
    <3>. QED  BY <1>1, <1>2, <1>4, <1>5, <2>2, <3>1 DEF Loading
  <2>. QED  BY <1>1, <2>1, <2>3 DEF InCall, Making, Snapshotting
<1>11. PausedOnlyInside'
  BY <1>1 DEF SnapInv, PausedOnlyInside, Snapshotting
<1>. QED  BY <1>6, <1>7, <1>8, <1>9, <1>10, <1>11 DEF SnapInv

LEMMA LoadFailsKeeps ==
  ASSUME SnapInv, LoadFails
  PROVE  SnapInv'
<1>1. /\ pc \in {"memory", "disk", "boot"} /\ pc' = "idle" /\ failed \subseteq failed'
      /\ UNCHANGED <<image, files, backing, guests, vms, infos, registry, call, writes, calls, touched, crowded>>
  BY DEF LoadFails, Fails, data
<1>2. Typed' /\ Stored' /\ Objects' /\ Handed' /\ IntactSnapshotIsExact'
  BY <1>1 DEF SnapInv, Typed, Stored, Objects, Alive, Live, Handed, Exact, IntactSnapshotIsExact
<1>3. Apart'
  BY <1>1 DEF SnapInv, Apart, MachinesApart, Undisturbed, Coherent, Memory, Places, Alive, Live
<1>4. InCall' /\ PausedOnlyInside'
  BY <1>1 DEF SnapInv, InCall, Making, Loading, PausedOnlyInside, Snapshotting
<1>. QED  BY <1>2, <1>3, <1>4 DEF SnapInv

-----------------------------------------------------------------------------
(* The invariant, and what follows from it. *)

LEMMA QuietKeeps ==
  ASSUME SnapInv, UNCHANGED vars
  PROVE  SnapInv'
<1>1. UNCHANGED <<image, files, backing, guests, vms, infos, registry, pc, call, writes, calls, failed, touched, crowded>>
  BY DEF vars, data
<1>2. Typed' /\ Stored' /\ Objects' /\ Handed' /\ IntactSnapshotIsExact'
  BY <1>1 DEF SnapInv, Typed, Stored, Objects, Alive, Live, Handed, Exact, IntactSnapshotIsExact
<1>3. Apart'
  BY <1>1 DEF SnapInv, Apart, MachinesApart, Undisturbed, Coherent, Memory, Places, Alive, Live
<1>4. InCall' /\ PausedOnlyInside'
  BY <1>1 DEF SnapInv, InCall, Exact, Making, Loading, PausedOnlyInside, Caller, NewKey, Map, Drive, Isolated, Memory,
              Places, Alive, Live, Snapshotting
<1>. QED  BY <1>2, <1>3, <1>4 DEF SnapInv

LEMMA InitialSnapshots == Init => SnapInv
<1>. SUFFICES ASSUME Init  PROVE SnapInv
  OBVIOUS
<1>1. /\ image = [d \in Dirs |-> IF d = <<>> THEN 0 ELSE NoImage]
      /\ files = [k \in Keys |-> NoFile] /\ backing = [k \in Keys |-> NoMem]
      /\ guests = <<>> /\ vms = <<[dir |-> <<>>, rootfs |-> <<>>, guest |-> 0]>>
      /\ infos = {} /\ registry = [s \in Snaps |-> NoInfo] /\ pc = "idle"
      /\ call = [op |-> "none", v |-> 1, snap |-> "", to |-> <<>>, info |-> NoInfo, named |-> NoInfo]
      /\ writes = 0 /\ calls = 0 /\ touched = [k \in Keys |-> 0]
  BY DEF Init
<1>. DEFINE r == [dir |-> <<>>, rootfs |-> <<>>, guest |-> 0]
<1>2. r \in Machine /\ r.rootfs = <<>> /\ r.guest = 0
  BY Values DEF Machine
<1>10. vms = <<r>>
  BY <1>1
<1>. HIDE DEF r
<1>3. vms \in Seq(Machine) /\ DOMAIN vms = {1} /\ vms[1] = r
  <2>1. Len(vms) = 1 /\ vms[1] = r /\ vms \in Seq(Machine)
    BY <1>2, <1>10
  <2>2. DOMAIN vms = 1..1
    BY <2>1, LenProperties
  <2>. QED  BY <2>1, <2>2
<1>4. guests \in Seq(AGuest) /\ DOMAIN guests = {} /\ Alive = {}
  <2>1. guests \in Seq(AGuest) /\ Len(guests) = 0
    BY <1>1, EmptySeq
  <2>2. DOMAIN guests = 1..0
    BY <2>1, LenProperties
  <2>3. DOMAIN guests = {}
    BY <2>2
  <2>. QED  BY <2>1, <2>3 DEF Alive
<1>5. NoFile \in [mem : Mem \cup {NoMem}, drive : Dirs] /\ 0 \in Image /\ 0 # NoImage /\ NoImage \in Image
  BY Values DEF NoFile, Image
<1>6. Typed
  <2>1. call \in ACall
    BY <1>1, Values DEF ACall
  <2>2. /\ image \in [Dirs -> Image] /\ files \in [Keys -> [mem : Mem \cup {NoMem}, drive : Dirs]]
        /\ backing \in [Keys -> Mem \cup {NoMem}] /\ registry \in [Snaps -> Info] /\ touched \in [Keys -> Nat]
    BY <1>1, <1>5, Values
  <2>. QED  BY <1>1, <1>3, <1>4, <2>1, <2>2, Values DEF Typed
<1>7. Apart /\ Stored
  BY <1>1, <1>4 DEF Apart, MachinesApart, Stored
<1>8. Objects
  <2>1. image[<<>>] # NoImage
    BY <1>1, <1>5, Values
  <2>. QED  BY <1>2, <1>3, <2>1 DEF Objects
<1>9. Handed /\ InCall /\ IntactSnapshotIsExact /\ PausedOnlyInside
  BY <1>1, <1>4 DEF Handed, InCall, Making, Loading, IntactSnapshotIsExact, PausedOnlyInside, Snapshotting
<1>. QED  BY <1>6, <1>7, <1>8, <1>9 DEF SnapInv

LEMMA SnapInductive == SnapInv /\ [Next]_vars => SnapInv'
<1>. SUFFICES ASSUME SnapInv, [Next]_vars  PROVE SnapInv'
  OBVIOUS
<1>1. ASSUME NEW g \in DOMAIN guests, Write(g) \/ Flush(g)  PROVE SnapInv'
  BY <1>1, WriteKeeps, FlushKeeps
<1>2. ASSUME NEW v \in DOMAIN vms, Start(v) \/ Shutdown(v)  PROVE SnapInv'
  BY <1>2, StartKeeps, ShutdownKeeps
<1>3. ASSUME NEW v \in DOMAIN vms, NEW s \in Snaps, Snapshot(v, s)  PROVE SnapInv'
  BY <1>3, CreateSnapshotKeeps, Values DEF Snapshot
<1>4. ASSUME NEW v \in DOMAIN vms, NEW s \in Snaps, NEW n \in Names, Branch(v, n, s)  PROVE SnapInv'
  <2>1. Append(vms[v].dir, n) \in Dirs
    BY <1>4, Fields, BranchDir DEF Branch, SnapInv
  <2>. QED  BY <1>4, <2>1, CreateSnapshotKeeps DEF Branch
<1>5. ASSUME NEW v \in DOMAIN vms, NEW i \in infos, Restore(v, i)  PROVE SnapInv'
  BY <1>5, RestoreKeeps
<1>6. CASE Create \/ CreateFails \/ Resume \/ Unwind \/ ResumeFails
  BY <1>6, CreateKeeps, ResumeKeeps, ResumeFailsKeeps
<1>7. CASE LoadMemory \/ LoadDisk \/ LoadBoot \/ LoadAbandoned \/ LoadFails
  BY <1>7, LoadMemoryKeeps, LoadDiskKeeps, LoadBootKeeps, LoadFailsKeeps
<1>8. CASE Quiet \/ UNCHANGED vars
  BY <1>8, QuietKeeps DEF Quiet
<1>. QED  BY <1>1, <1>2, <1>3, <1>4, <1>5, <1>6, <1>7, <1>8 DEF Next

LEMMA SnapSafe == Spec => []SnapInv
BY InitialSnapshots, SnapInductive, PTL DEF Spec

\* Every live guest has a memory and every stored snapshot a disk image, and a machine that an
\* object stands for is alive (host/axiom/vm.py's start, shutdown and restore_snapshot).
THEOREM SnapshotTypes == Spec => []TypeOK
<1>1. SnapInv => TypeOK
  <2>. SUFFICES ASSUME SnapInv  PROVE TypeOK
    OBVIOUS
  <2>1. \A g \in DOMAIN guests : /\ guests[g].state \in {"running", "paused", "gone"}
                                 /\ Live(g) => Memory(g) \in Mem
    <3>1. \A g \in DOMAIN guests : guests[g].state \in {"running", "paused", "gone"}
      BY Fields DEF SnapInv, AGuest
    <3>2. \A g \in DOMAIN guests : Live(g) => Memory(g) \in Mem
      BY DEF SnapInv, Apart, Alive
    <3>. QED  BY <3>1, <3>2
  <2>2. \A v \in DOMAIN vms : vms[v].guest # 0 => Live(vms[v].guest)
    BY DEF SnapInv, Objects, Alive
  <2>3. Snapshotting => Caller # 0
    BY DEF SnapInv, InCall, Making, Snapshotting
  <2>. QED  BY <2>1, <2>2, <2>3 DEF SnapInv, Typed, Stored, TypeOK, Image
<1>. QED  BY <1>1, SnapSafe, PTL

\* As long as no two guests have met in a directory or on its disk image, a guest's memory is
\* what it wrote itself, and its disk the one it knows: whatever is snapshotted, branched,
\* restored and shut down around it, and whatever of that fails (host/axiom/vm.py).
THEOREM MachinesStayApart == Spec => []MachinesApart
<1>1. SnapInv => MachinesApart
  BY DEF SnapInv, Apart
<1>. QED  BY <1>1, SnapSafe, PTL

\* A guest loaded from a snapshot that no later call has touched begins with the memory of the
\* moment the snapshot was asked for (create_snapshot and load_snapshot).
THEOREM IntactSnapshotsExact == Spec => []IntactSnapshotIsExact
<1>1. SnapInv => IntactSnapshotIsExact
  BY DEF SnapInv
<1>. QED  BY <1>1, SnapSafe, PTL

\* create_snapshot leaves the guest running, also when it fails half way, and for any number of
\* guests, calls and failures: one that stands still outside of a snapshot has had a request to
\* pause or resume it that Firecracker did not answer as expected.
THEOREM ResumedAfterSnapshot == Spec => []PausedOnlyInside
<1>1. SnapInv => PausedOnlyInside
  BY DEF SnapInv
<1>. QED  BY <1>1, SnapSafe, PTL

=============================================================================
