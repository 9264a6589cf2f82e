------------------------------ MODULE Snapshots -----------------------------
(***************************************************************************)
(* Snapshots and branches of machines: MicroVM's start, create_snapshot,   *)
(* load_snapshot, restore_snapshot, branch and shutdown                    *)
(* (host/axiom/vm.py), and the tools axiom_snapshot and axiom_branch       *)
(* (host/axiom/mcp_server.py).  One call runs at a time; guests run        *)
(* concurrently with it, and so write to memory and disk while it goes on. *)
(*                                                                         *)
(* What a guest holds is a version, the number of its latest write, and    *)
(* the version it believes its disk to have.  Directories on the host are  *)
(* the sequence of branch names that leads to them, <<>> the primary's.    *)
(***************************************************************************)
EXTENDS Integers, Sequences, FiniteSets, SequencesExt

CONSTANTS Snaps,     \* names of snapshots
          Names,     \* names of branches
          MaxDepth,  \* bound: branches of branches
          MaxGuests, \* bound: guests booted or loaded
          MaxWrites, \* bound: writes of guests
          MaxCalls,  \* bound: calls of the host
          MaxFaults  \* bound: failures of Firecracker and the host's files

ASSUME SnapshotsAssumption ==
  /\ {MaxDepth, MaxGuests, MaxWrites, MaxCalls, MaxFaults} \subseteq Nat
  /\ MaxGuests > 0 /\ Snaps # {}

Dirs == UNION {[1..n -> Names] : n \in 0..MaxDepth}
Keys == Dirs \X Snaps            \* where a snapshot's files are
Versions == 0..MaxWrites
Mem == [ver : Versions, seen : Versions]
NoImage == -1
NoMem == [ver |-> NoImage, seen |-> NoImage]
NoFile == [mem |-> NoMem, drive |-> <<>>]
NoInfo == [dir |-> <<>>, name |-> "", rootfs |-> <<>>, taken |-> NoMem, serial |-> 0]

VARIABLES
  image,    \* per directory: content of the disk image in it
  files,    \* per key: the .snap and .mem file
  backing,  \* per key: the copy of the .mem file that a loaded guest maps
  guests,   \* Firecracker processes: [dir, drive, state, own, back], and their history
  vms,      \* MicroVM objects, the active one first: [dir, rootfs, guest]
  infos,    \* the SnapshotInfo objects handed out
  registry, \* _snapshots
  pc,       \* of the call: "idle", "create", "resume", "unwind", "memory", "disk", "boot"
  call,     \* [op, v, snap, to, info, named]
  writes, calls,
  failed,   \* history: what has failed, and for which guest
  touched,  \* history, per key: the last call that touched its files
  crowded   \* history: directories that two guests have met in

data == <<image, files, backing>>
vars == <<data, guests, vms, infos, registry, pc, call, writes, calls, failed, touched, crowded>>

\* Pages a loaded guest has not written are still those of the file it maps.
Memory(g) == IF guests[g].own = NoMem THEN backing[guests[g].back] ELSE guests[g].own
Live(g) == guests[g].state # "gone"
Alive == {g \in DOMAIN guests : Live(g)}
Meeting(d) == IF \E g \in Alive : d \in {guests[g].dir, guests[g].drive} THEN {d} ELSE {}

\* A guest with the history of its start: the memory it began with, whether its
\* disk was the one that memory knew, and what it was loaded from.
Guest(kind, d, drive, own, back, mem, named) ==
  [dir |-> d, drive |-> drive, state |-> "running", own |-> own, back |-> back,
   kind |-> kind, first |-> mem, ver |-> mem.ver, fit |-> image[drive] = mem.seen,
   from |-> IF kind = "start" THEN NoInfo ELSE call.info,
   intact |-> kind # "start" /\ touched[<<call.info.dir, call.info.name>>] = call.info.serial,
   named |-> named]

Booted(d) ==
  LET m == [ver |-> image[d], seen |-> image[d]] IN
    Guest("start", d, d, m, <<d, CHOOSE s \in Snaps : TRUE>>, m, NoInfo)

Init ==
  /\ image = [d \in Dirs |-> IF d = <<>> THEN 0 ELSE NoImage]
  /\ files = [k \in Keys |-> NoFile] /\ backing = [k \in Keys |-> NoMem]
  /\ guests = <<>> /\ vms = <<[dir |-> <<>>, rootfs |-> <<>>, guest |-> 0]>>
  /\ infos = {} /\ registry = [s \in Snaps |-> NoInfo]
  /\ pc = "idle" /\ call = [op |-> "none", v |-> 1, snap |-> "", to |-> <<>>, info |-> NoInfo, named |-> NoInfo]
  /\ writes = 0 /\ calls = 0 /\ failed = {} /\ touched = [k \in Keys |-> 0] /\ crowded = {}

-----------------------------------------------------------------------------
(* The guests. *)

Running(g) == guests[g].state = "running"

Write(g) ==
  /\ Running(g) /\ writes < MaxWrites
  /\ writes' = writes + 1
  /\ guests' = [guests EXCEPT ![g].own = [Memory(g) EXCEPT !.ver = writes + 1], ![g].ver = writes + 1]
  /\ UNCHANGED <<data, vms, infos, registry, pc, call, calls, failed, touched, crowded>>

\* The guest's kernel writes back what is in its page cache.
Flush(g) ==
  /\ Running(g) /\ Memory(g).seen # Memory(g).ver
  /\ image' = [image EXCEPT ![guests[g].drive] = Memory(g).ver]
  /\ guests' = [guests EXCEPT ![g].own = [Memory(g) EXCEPT !.seen = Memory(g).ver]]
  /\ UNCHANGED <<files, backing, vms, infos, registry, pc, call, writes, calls, failed, touched, crowded>>

-----------------------------------------------------------------------------
(* Start and end of a machine. *)

Idle == pc = "idle" /\ calls < MaxCalls
Fails(what, g) ==
  /\ Cardinality(failed \cup {<<what, g>>}) <= MaxFaults
  /\ failed' = failed \cup {<<what, g>>}

\* start: boots from the object's disk image.  It is only called on a machine that
\* does not run: by the context manager, or by get_or_create_vm.
Start(v) ==
  /\ Idle /\ vms[v].guest = 0 /\ Len(guests) < MaxGuests
  /\ crowded' = crowded \cup Meeting(vms[v].dir) \cup Meeting(vms[v].rootfs)
  /\ guests' = Append(guests, [Booted(vms[v].rootfs) EXCEPT !.dir = vms[v].dir])
  /\ vms' = [vms EXCEPT ![v].guest = Len(guests) + 1]
  /\ calls' = calls + 1
  /\ UNCHANGED <<data, infos, registry, pc, call, writes, failed, touched>>

\* shutdown: the guest writes back everything and powers off, or it is killed.
Ending(v) ==
  LET g == vms[v].guest IN
    IF g = 0 THEN UNCHANGED <<image, guests>>
    ELSE /\ guests' = [guests EXCEPT ![g].state = "gone"]
         /\ image' \in {image} \cup
              IF Running(g) THEN {[image EXCEPT ![guests[g].drive] = Memory(g).ver]} ELSE {}

Shutdown(v) ==
  /\ Idle /\ vms[v].guest # 0
  /\ Ending(v)
  /\ vms' = [vms EXCEPT ![v].guest = 0]
  /\ calls' = calls + 1
  /\ UNCHANGED <<files, backing, infos, registry, pc, call, writes, failed, touched, crowded>>

-----------------------------------------------------------------------------
(* create_snapshot: an older snapshot of the name is unlinked, the machine *)
(* is paused, written out and resumed, whether that has worked or not.     *)
(* A request fails when Firecracker refuses it or does not answer it in    *)
(* two seconds; it has then been carried out, or not.                      *)

KeepRunning(gs, g) == gs                                 \* mutant: no pause
Pause(gs, g) == [gs EXCEPT ![g].state = "paused"]

CreateSnapshot(v, s, op, to) ==
  LET key == <<vms[v].dir, s>> IN
  /\ Idle /\ vms[v].guest # 0
  /\ files' = [files EXCEPT ![key] = NoFile]
  /\ touched' = [touched EXCEPT ![key] = calls + 1]
  /\ calls' = calls + 1
  /\ \/ /\ guests' = Pause(guests, vms[v].guest)
        /\ call' = [op |-> op, v |-> v, snap |-> s, to |-> to, named |-> registry[s],
                    info |-> [dir |-> vms[v].dir, name |-> s, rootfs |-> vms[v].rootfs,
                              taken |-> Memory(vms[v].guest), serial |-> calls + 1]]
        /\ pc' = "create" /\ UNCHANGED failed
     \/ /\ Fails("pause", vms[v].guest)
        /\ guests' \in {guests, Pause(guests, vms[v].guest)}
        /\ UNCHANGED <<call, pc>>
  /\ UNCHANGED <<image, backing, vms, infos, registry, writes, crowded>>

\* axiom_snapshot, or create_snapshot on any machine.
Snapshot(v, s) == CreateSnapshot(v, s, "snapshot", <<>>)

\* branch, for the active machine by axiom_branch: a new snapshot is always made.
Branch(v, n, s) ==
  /\ Len(vms[v].dir) < MaxDepth
  /\ CreateSnapshot(v, s, "branch", Append(vms[v].dir, n))

Snapshotting == pc \in {"create", "resume", "unwind"}
Caller == vms[call.v].guest
NewKey == <<call.info.dir, call.info.name>>

WrittenOut == [files EXCEPT ![NewKey] = [mem |-> Memory(Caller), drive |-> guests[Caller].drive]]

Create ==
  /\ pc = "create"
  /\ files' = WrittenOut
  /\ pc' = "resume"
  /\ UNCHANGED <<image, backing, guests, vms, infos, registry, call, writes, calls, failed, touched, crowded>>

RaiseAtOnce == "idle"       \* mutant: no finally
AfterFailedCreate == "unwind"

CreateFails ==
  /\ pc = "create" /\ Fails("create", Caller)
  /\ files' \in {files, WrittenOut}
  /\ pc' = AfterFailedCreate
  /\ UNCHANGED <<image, backing, guests, vms, infos, registry, call, writes, calls, touched, crowded>>

\* The info is handed out, to axiom_snapshot for its registry, or to the branch.
Resume ==
  /\ pc = "resume"
  /\ guests' = [guests EXCEPT ![Caller].state = "running"]
  /\ infos' = infos \cup {call.info}
  /\ registry' = IF call.op = "snapshot" /\ call.v = 1
                 THEN [registry EXCEPT ![call.snap] = call.info] ELSE registry
  /\ pc' = IF call.op = "branch" THEN "memory" ELSE "idle"
  /\ UNCHANGED <<data, vms, call, writes, calls, failed, touched, crowded>>

\* The finally of a snapshot that has failed; the exception goes on.
Unwind ==
  /\ pc = "unwind"
  /\ guests' = [guests EXCEPT ![Caller].state = "running"]
  /\ pc' = "idle"
  /\ UNCHANGED <<data, vms, infos, registry, call, writes, calls, failed, touched, crowded>>

\* The request fails, or connect_vsock does, once the machine runs.
ResumeFails ==
  /\ pc \in {"resume", "unwind"} /\ Fails("resume", Caller)
  /\ \E s \in {"paused", "running"} : guests' = [guests EXCEPT ![Caller].state = s]
  /\ pc' = "idle"
  /\ UNCHANGED <<data, vms, infos, registry, call, writes, calls, touched, crowded>>

-----------------------------------------------------------------------------
(* load_snapshot: memory and disk are copied into the work directory, the  *)
(* paths in the state file rewritten, and a guest loaded from them.        *)

\* restore_snapshot: the machine is shut down before anything is looked at.
Restore(v, i) ==
  /\ Idle
  /\ Ending(v)
  /\ vms' = [vms EXCEPT ![v].guest = 0]
  /\ call' = [op |-> "restore", v |-> v, snap |-> i.name, to |-> vms[v].dir, info |-> i, named |-> NoInfo]
  /\ pc' = "memory" /\ calls' = calls + 1
  /\ UNCHANGED <<files, backing, infos, registry, writes, failed, touched, crowded>>

Isolated == call.op = "branch"
CopiesDisk == Isolated
ParentDrive == call.info.rootfs      \* mutant: the branch's image is not put in
Drive == IF Isolated THEN call.to ELSE call.info.rootfs
Map == <<call.to, call.info.name>>

LoadMemory ==
  /\ pc = "memory" /\ files[NewKey] # NoFile
  /\ backing' = [backing EXCEPT ![Map] = files[NewKey].mem]
  /\ crowded' = crowded \cup Meeting(call.to) \cup (IF Isolated THEN {} ELSE Meeting(call.info.rootfs))
  /\ pc' = "disk"
  /\ UNCHANGED <<image, files, guests, vms, infos, registry, call, writes, calls, failed, touched>>

\* The disk is copied as it is now.
LoadDisk ==
  /\ pc = "disk"
  /\ image' = IF CopiesDisk THEN [image EXCEPT ![call.to] = image[call.info.rootfs]] ELSE image
  /\ pc' = "boot"
  /\ UNCHANGED <<files, backing, guests, vms, infos, registry, call, writes, calls, failed, touched, crowded>>

\* update_snapshot_state finds the path of the disk that is to be replaced.
Rewritable == files[NewKey].drive = call.info.rootfs

Loaded == Guest(call.op, call.to, Drive, NoMem, Map, backing[Map], call.named)

LoadBoot ==
  /\ pc = "boot" /\ Rewritable /\ Len(guests) < MaxGuests
  /\ guests' = Append(guests, Loaded)
  /\ vms' = IF Isolated
            THEN Append(vms, [dir |-> call.to, rootfs |-> call.to, guest |-> Len(guests) + 1])
            ELSE [vms EXCEPT ![call.v].guest = Len(guests) + 1]
  /\ pc' = "idle"
  /\ UNCHANGED <<data, infos, registry, call, writes, calls, failed, touched, crowded>>

\* The guest runs, but connect_vsock fails: no object knows of it.
LoadAbandoned ==
  /\ pc = "boot" /\ Rewritable /\ Len(guests) < MaxGuests /\ Fails("load", 0)
  /\ guests' = Append(guests, Loaded)
  /\ pc' = "idle"
  /\ UNCHANGED <<data, vms, infos, registry, call, writes, calls, touched, crowded>>

\* A file is missing, a path is not found in the state, or something else fails.
LoadFails ==
  /\ pc \in {"memory", "disk", "boot"}
  /\ IF files[NewKey] = NoFile \/ (pc = "boot" /\ ~Rewritable)
     THEN UNCHANGED failed
     ELSE Fails("load", 0)
  /\ pc' = "idle"
  /\ UNCHANGED <<data, guests, vms, infos, registry, call, writes, calls, touched, crowded>>

\* Nothing more is asked for, or the bound on guests is reached.
Quiet == (pc = "idle" \/ Len(guests) = MaxGuests) /\ UNCHANGED vars

Next ==
  \/ \E g \in DOMAIN guests : Write(g) \/ Flush(g)
  \/ \E v \in DOMAIN vms :
       \/ Start(v) \/ Shutdown(v)
       \/ \E s \in Snaps : Snapshot(v, s) \/ \E n \in Names : Branch(v, n, s)
       \/ \E i \in infos : Restore(v, i)
  \/ Create \/ CreateFails \/ Resume \/ Unwind \/ ResumeFails
  \/ LoadMemory \/ LoadDisk \/ LoadBoot \/ LoadAbandoned \/ LoadFails \/ Quiet

Spec == Init /\ [][Next]_vars

-----------------------------------------------------------------------------
TypeOK ==
  /\ image \in [Dirs -> Versions \cup {NoImage}]
  /\ \A k \in Keys : files[k] # NoFile => files[k].mem \in Mem /\ image[files[k].drive] # NoImage
  /\ \A g \in DOMAIN guests :
       /\ guests[g].state \in {"running", "paused", "gone"}
       /\ Live(g) => Memory(g) \in Mem
  /\ \A v \in DOMAIN vms : vms[v].guest # 0 => Live(vms[v].guest)
  /\ pc \in {"idle", "create", "resume", "unwind", "memory", "disk", "boot"}
  /\ Snapshotting => Caller # 0

Undisturbed(g) == Memory(g).ver = guests[g].ver
Coherent(g) == image[guests[g].drive] = Memory(g).seen

\* Machines are isolated: as long as no two guests have met in a directory or
\* on its disk image, a guest's memory is what it wrote itself since its start,
\* and its disk changes under it by its own writes only, whatever is
\* snapshotted, branched, restored and shut down around it.
MachinesApart ==
  \A g \in Alive : {guests[g].dir, guests[g].drive} \cap crowded = {} =>
    Undisturbed(g) /\ (guests[g].fit => Coherent(g))

\* A guest loaded from a snapshot that no later call has touched begins with the
\* memory of the moment the snapshot was asked for.
IntactSnapshotIsExact ==
  \A g \in DOMAIN guests : guests[g].intact => guests[g].first = guests[g].from.taken

\* create_snapshot leaves the guest running, and so does one that fails, also when it has
\* failed to write the files: a guest stands still outside of it only if the answer to a
\* request to pause or to resume that very guest has failed.
PausedOnlyInside ==
  \A g \in DOMAIN guests : guests[g].state = "paused" =>
    (Snapshotting /\ Caller = g) \/ {<<"pause", g>>, <<"resume", g>>} \cap failed # {}

\* What the finally of create_snapshot (host/axiom/vm.py:797) is there for. The pause is
\* asked for outside the try, so a pause that was carried out but not answered is not undone.
NeverLeftPaused ==
  \A g \in DOMAIN guests : guests[g].state = "paused" =>
    (Snapshotting /\ Caller = g) \/ <<"resume", g>> \in failed

\* "Verifies in-place microVM state rollback from an execution snapshot"
\* (tests/integration/test_snapshot_e2e.py:122): the machine is again what it
\* was, its disk included,
RolledBack == \A g \in DOMAIN guests : guests[g].kind = "restore" => guests[g].fit

\* and "from a saved execution snapshot" (host/axiom/vm.py:901) means the one
\* that the caller was handed.
RestoresWhatWasSaved ==
  \A g \in DOMAIN guests : guests[g].kind = "restore" => guests[g].first = guests[g].from.taken

\* "Captures a complete execution snapshot (state + memory)." (host/axiom/
\* vm.py:774): a branch made from it finds the disk that its memory knows.
BranchFindsItsDisk == \A g \in DOMAIN guests : guests[g].kind = "branch" => guests[g].fit

\* "Creates an independent copy-on-write execution branch of this microVM."
\* (host/axiom/vm.py:924): nothing but its own writes changes a machine.
BranchesIndependent == \A g \in Alive : Undisturbed(g)

\* "Restores or branches from a named snapshot state" (README.md:90): a branch
\* begins as the snapshot that axiom_snapshot has made under the name.
BranchesFromSnapshot ==
  \A g \in DOMAIN guests :
    guests[g].kind = "branch" /\ guests[g].named # NoInfo =>
      guests[g].first = guests[g].named.taken

=============================================================================
