-------------------------------- MODULE Vfs ---------------------------------
(***************************************************************************)
(* The virtual file system: the mount list of sys/kern/mount.c, the device *)
(* list of sys/fs/devfs/devfs_dev.c, the archive of sys/fs/tar/tar_parse.c *)
(* and module_init of sys/kern/module.c, which fills it.                   *)
(*                                                                         *)
(* heap[b] is what the heap's block b holds: both lists are linked through *)
(* it, so a pointer to a block that was freed, or handed out again, is     *)
(* seen for what it is.  A path is a sequence of names and slashes.        *)
(*                                                                         *)
(* A call runs in a process and can be preempted between any two steps on  *)
(* the list it walks, and around open, read and close; call[p] is where    *)
(* the call of process p is.  "wild" stands for everything that may happen *)
(* after the use of a pointer that is not one.                             *)
(***************************************************************************)
EXTENDS Tar, SequencesExt

CONSTANTS Blocks,     \* blocks of the heap, as numbers: kmalloc takes the first
          Procs,      \* the processes
          Archives,   \* what the boot module may hold: [files, mem]
          Paths,      \* paths that are read and written
          ReadSizes,  \* buffer sizes
          Entries,    \* arguments of vfs_mount: [device, target, fs]
          MaxCalls    \* bound: calls made by the processes

NULL == 0
NullPath == <<"NULL">>

ASSUME VfsAssumption ==
  /\ Blocks \subseteq Nat \ {NULL} /\ IsFiniteSet(Blocks) /\ MaxCalls \in Nat
  /\ Paths \subseteq Seq(STRING)
  /\ Entries \subseteq [device : STRING, target : Seq(STRING) \ {NullPath}, fs : STRING]

(* ended says of an archive that blocks of zeros follow its last file. *)
ASSUME ArchiveAssumption ==
  \A a \in Archives : IsFiniteSet(DOMAIN a.mem) /\ (a.ended => WalkEnds(a.mem))

VARIABLES phase,             \* "module", "devfs", "run", "panic", "wild"
          archive, modules,  \* what Limine loaded, and how it answered
          tar_files, heap, mountpoints_root, devfs_root,
          lost,              \* blocks nobody has a pointer to any more
          call, calls,
          result             \* what the call that has just ended returned

bootVars == <<archive, modules, tar_files>>
listVars == <<mountpoints_root, devfs_root, lost>>
vars == <<phase, bootVars, heap, listVars, call, calls, result>>

-----------------------------------------------------------------------------
(* The heap                                                                *)

Free == [kind |-> "free"]
Other == [kind |-> "other"]   \* a block of some other part of the kernel

FreeBlocks(h) == {b \in Blocks : h[b] = Free}

kmalloc(h) == IF FreeBlocks(h) = {} THEN NULL
              ELSE CHOOSE b \in FreeBlocks(h) : \A c \in FreeBlocks(h) : b <= c

Holds(h, b, kind) == b \in Blocks /\ h[b].kind = kind

(* The blocks of a list, in order; one that runs in a circle comes out     *)
(* longer than there are blocks.                                           *)
Chain(h, root, kind) ==
  LET next == [b \in Blocks \cup {NULL} |-> IF Holds(h, b, kind) THEN h[b].next ELSE NULL]
      at[n \in 0 .. Cardinality(Blocks)] == IF n = 0 THEN root ELSE next[at[n - 1]]
      len == Cardinality({n \in DOMAIN at : at[n] # NULL})
  IN  [i \in 1 .. len |-> at[i - 1]]

MountList == Chain(heap, mountpoints_root, "mount")
DeviceList == Chain(heap, devfs_root, "device")

(* The mount table a walk without preemption would see. *)
Table == [i \in DOMAIN MountList |-> heap[MountList[i]].entry]

-----------------------------------------------------------------------------
(* Mount points                                                            *)

vfs_create_mountpoint(e) == [kind |-> "mount", entry |-> e, next |-> NULL]

Supported(fs) == fs \in {"ustar", "devfs"}

(* Mutant: the last entry is replaced, not followed, by the new one. *)
vfs_add_mountpointMutant(h, cur, mp) ==
  IF cur = NULL THEN h ELSE [h EXCEPT ![cur].entry = h[mp].entry, ![cur].next = mp]

(* The write that links mp behind the entry the walk ended at. *)
vfs_add_mountpoint(h, cur, mp) ==
  IF cur = NULL THEN h ELSE [h EXCEPT ![cur].next = mp]

Unlinked(h, mp) ==
  [b \in Blocks |-> IF Holds(h, b, "mount") /\ h[b].next = mp
                    THEN [h[b] EXCEPT !.next = h[mp].next] ELSE h[b]]

(* Mutant: the entry is not freed. *)
vfs_remove_mountpointMutant(h, mp) == Unlinked(h, mp)

vfs_remove_mountpoint(h, mp) == [Unlinked(h, mp) EXCEPT ![mp] = Free]

(* Mutant: a mount point need not end at a slash. *)
MatchesMutant(target, path) ==
  Len(target) <= Len(path) /\ SubSeq(path, 1, Len(target)) = target

(* The mount point is a prefix of the path and ends where a name ends. *)
Matches(target, path) ==
  LET n == Len(target)
  IN  /\ n <= Len(path) /\ SubSeq(path, 1, n) = target
      /\ n = Len(path) \/ path[n + 1] = "/"

Relative(target, path) ==
  LET rest == SubSeq(path, Len(target) + 1, Len(path))
  IN  IF rest # <<>> /\ Head(rest) = "/" THEN Tail(rest) ELSE rest

-----------------------------------------------------------------------------
(* devfs                                                                   *)

(* The operations the drivers' tables offer; only write() on the console. *)
DeviceOps == [kbd |-> {"read"}, console |-> {"write"}, random |-> {"read"}]

(* A new node in front of the list; panic when there is no memory. *)
devfs_register(s, name) ==
  LET b == kmalloc(s.heap)
  IN  IF b = NULL THEN [s EXCEPT !.ok = FALSE]
      ELSE [s EXCEPT !.root = b,
              !.heap[b] = [kind |-> "device", name |-> name, next |-> s.root]]

(* Mutant: the loop ends before the last node. *)
devfs_lookupMutant(name) ==
  \E i \in 1 .. (Len(DeviceList) - 1) : <<heap[DeviceList[i]].name>> = name

(* Whether a device of that name is registered. *)
devfs_lookup(name) ==
  \E i \in DOMAIN DeviceList : <<heap[DeviceList[i]].name>> = name


CanDo(name, op) == name[1] \in DOMAIN DeviceOps /\ op \in DeviceOps[name[1]]

-----------------------------------------------------------------------------
(* module_init, devfs_init                                                 *)

(* vfs_mount during boot, where nothing else runs; without memory it only  *)
(* prints.                                                                 *)
BootMount(h, e) ==
  LET mp == kmalloc(h)
      list == Chain(h, mountpoints_root, "mount")
      cur == IF list = <<>> THEN NULL ELSE list[Len(list)]
  IN  IF mp = NULL THEN [heap |-> h, root |-> mountpoints_root]
      ELSE [heap |-> vfs_add_mountpoint([h EXCEPT ![mp] = vfs_create_mountpoint(e)], cur, mp),
            root |-> IF cur = NULL THEN mp ELSE mountpoints_root]

(* Without an answer from the boot loader the answer is used all the same. *)
module_init ==
  /\ phase = "module"
  /\ \/ /\ modules = "none" /\ phase' = "panic"
        /\ UNCHANGED <<tar_files, heap, mountpoints_root>>
     \/ /\ modules = "no response" /\ phase' = "wild"
        /\ UNCHANGED <<tar_files, heap, mountpoints_root>>
     \/ /\ modules = "loaded"
        /\ tar_files' = tarfs_init(archive.mem)
        /\ phase' = IF WalkEnds(archive.mem) THEN "devfs" ELSE "wild"
        /\ LET m == BootMount(heap, [device |-> "initrd", target |-> <<"/">>, fs |-> "ustar"])
           IN  heap' = m.heap /\ mountpoints_root' = m.root
  /\ UNCHANGED <<archive, modules, devfs_root, lost, call, calls, result>>

devfs_init ==
  /\ phase = "devfs"
  /\ LET m == BootMount(heap, [device |-> "devfs", target |-> <<"/", "dev">>, fs |-> "devfs"])
         none == [ok |-> TRUE, heap |-> m.heap, root |-> devfs_root]
         s == devfs_register(devfs_register(devfs_register(none, "kbd"), "console"), "random")
     IN  /\ mountpoints_root' = m.root
         /\ heap' = s.heap /\ devfs_root' = s.root
         /\ phase' = IF s.ok THEN "run" ELSE "panic"
  /\ UNCHANGED <<bootVars, lost, call, calls, result>>

-----------------------------------------------------------------------------
(* The calls.  pc is "walk" on the list, "search" for the last resort,     *)
(* "link" and "remove" before the write that changes the list, "read" and  *)
(* "close" with an open handle, "wait" for a key, and "done".  node is the *)
(* block the call has allocated; before the mount table when it began.     *)

NoData == <<"none">>
NoResult == [val |-> 0, src |-> NoData]
Failed == [val |-> -1, src |-> NoData]
Idle == [op |-> "none", pc |-> "done"]

InCall(p) == call[p].pc # "done"

Goes(p, c) == call' = [call EXCEPT ![p] = c] /\ result' = NoResult

Returns(p, res) == call' = [call EXCEPT ![p] = Idle] /\ result' = res

Wild == phase' = "wild" /\ result' = NoResult /\ UNCHANGED <<heap, listVars, call>>

(* What callers must see to: the list is changed by one call at a time,    *)
(* and unmounted from only while no other call walks it.                   *)
MayStart(p, op) ==
  /\ phase = "run" /\ ~InCall(p) /\ calls < MaxCalls
  /\ \A q \in Procs : InCall(q) => /\ op # "umount" /\ call[q].op # "umount"
                                   /\ ~(op = "mount" /\ call[q].op = "mount")

(* vfs_write alone looks whether there is a path. *)
StartAccess(p, op, path, size) ==
  /\ MayStart(p, op)
  /\ IF op = "write" /\ path = NullPath THEN Returns(p, Failed)
     ELSE Goes(p, [op |-> op, pc |-> "walk", cur |-> mountpoints_root, path |-> path,
                   size |-> size, node |-> NULL, before |-> Table])
  /\ calls' = calls + 1
  /\ UNCHANGED <<phase, bootVars, heap, listVars>>

(* An entry of an unsupported type is allocated and forgotten. *)
StartMount(p, e) ==
  LET mp == kmalloc(heap)
  IN  /\ MayStart(p, "mount")
      /\ heap' = IF mp = NULL THEN heap ELSE [heap EXCEPT ![mp] = vfs_create_mountpoint(e)]
      /\ lost' = IF mp = NULL \/ Supported(e.fs) THEN lost ELSE lost \cup {mp}
      /\ IF mp = NULL \/ ~Supported(e.fs) THEN Returns(p, Failed)
         ELSE Goes(p, [op |-> "mount", pc |-> "walk", cur |-> mountpoints_root, node |-> mp])
      /\ calls' = calls + 1
      /\ UNCHANGED <<phase, bootVars, mountpoints_root, devfs_root>>

StartUnmount(p, device, target) ==
  /\ MayStart(p, "umount")
  /\ Goes(p, [op |-> "umount", pc |-> "walk", cur |-> mountpoints_root,
               device |-> device, target |-> target])
  /\ calls' = calls + 1
  /\ UNCHANGED <<phase, bootVars, heap, listVars>>

(* Mutant: mp = mp->next is missing. *)
AdvancedMutant(p) == call[p].cur

Advanced(p) == heap[call[p].cur].next

(* Whether the walk stops at the entry it is at. *)
Stops(p) ==
  LET c == call[p]
      node == heap[c.cur]
  IN  \/ c.op \in {"read", "write", "find"} /\ Matches(node.entry.target, c.path)
      \/ c.op = "mount" /\ node.next = NULL
      \/ c.op = "umount" /\ (node.entry.device = c.device \/ node.entry.target = c.target)

(* One turn of a loop over the list. *)
WalkOn(p) ==
  LET c == call[p]
  IN  /\ phase = "run" /\ c.pc = "walk" /\ c.cur # NULL
      /\ IF ~Holds(heap, c.cur, "mount") \/ (c.op \in {"read", "find"} /\ c.path = NullPath)
         THEN Wild
         ELSE /\ ~Stops(p)
              /\ Goes(p, [c EXCEPT !.cur = Advanced(p)])
              /\ UNCHANGED <<phase, heap, listVars>>
      /\ UNCHANGED <<bootVars, calls>>

(* The end of the list: vfs_read has its last resort, a mount found the    *)
(* list empty, the others give up.                                         *)
WalkEnd(p) ==
  /\ phase = "run" /\ call[p].pc = "walk" /\ call[p].cur = NULL
  /\ \/ /\ call[p].op = "read"
        /\ Goes(p, [call[p] EXCEPT !.pc = "search", !.cur = mountpoints_root])
     \/ call[p].op = "mount" /\ Goes(p, [call[p] EXCEPT !.pc = "link"])
     \/ call[p].op \in {"write", "find", "umount"} /\ Returns(p, Failed)
  /\ UNCHANGED <<phase, bootVars, heap, listVars, calls>>

AtStop(p, op) == /\ phase = "run" /\ call[p].pc = "walk" /\ call[p].op = op
                 /\ Holds(heap, call[p].cur, "mount") /\ Stops(p)

-----------------------------------------------------------------------------
(* Changing the list                                                       *)

ListFound(p) ==
  /\ \/ AtStop(p, "mount") /\ Goes(p, [call[p] EXCEPT !.pc = "link"])
     \/ AtStop(p, "umount") /\ Goes(p, [call[p] EXCEPT !.pc = "remove"])
  /\ UNCHANGED <<phase, bootVars, heap, listVars, calls>>

MountLink(p) ==
  LET c == call[p]
  IN  /\ phase = "run" /\ c.pc = "link"
      /\ heap' = vfs_add_mountpoint(heap, c.cur, c.node)
      /\ mountpoints_root' = IF c.cur = NULL THEN c.node ELSE mountpoints_root
      /\ Returns(p, NoResult)
      /\ UNCHANGED <<phase, bootVars, devfs_root, lost, calls>>

UnmountRemove(p) ==
  LET mp == call[p].cur
  IN  /\ phase = "run" /\ call[p].pc = "remove"
      /\ heap' = vfs_remove_mountpoint(heap, mp)
      /\ mountpoints_root' = IF mountpoints_root = mp THEN heap[mp].next
                             ELSE mountpoints_root
      /\ Returns(p, NoResult)
      /\ UNCHANGED <<phase, bootVars, devfs_root, lost, calls>>

-----------------------------------------------------------------------------
(* Dispatch                                                                *)

(* tarfs_open: a handle, or nothing for a name that is missing, is not a   *)
(* file, or when there is no memory.                                       *)
Opens(name) ==
  LET i == tarfs_find(tar_files, name)
  IN  i # 0 /\ tar_files[i].type = "TAR_FILE" /\ kmalloc(heap) # NULL

tarfs_open(p, name) ==
  LET b == kmalloc(heap)
  IN  /\ heap' = [heap EXCEPT ![b] = [kind |-> "handle", offset |-> 0,
                                      file |-> tarfs_find(tar_files, name)]]
      /\ Goes(p, [call[p] EXCEPT !.pc = "read", !.node = b])
      /\ UNCHANGED <<phase, listVars>>

(* devfs_read uses what devfs_lookup returns, NULL included. *)
devfs_read(p, name) ==
  IF ~devfs_lookup(name) THEN Wild
  ELSE /\ IF ~CanDo(name, "read") THEN Returns(p, Failed)
          ELSE IF name = <<"kbd">> /\ call[p].size > 0 THEN Goes(p, [call[p] EXCEPT !.pc = "wait"])
          ELSE Returns(p, [val |-> call[p].size, src |-> <<"device", name>>])
       /\ UNCHANGED <<phase, heap, listVars>>

Fs(p) == heap[call[p].cur].entry.fs
Name(p) == Relative(heap[call[p].cur].entry.target, call[p].path)

ReadFound(p) ==
  /\ AtStop(p, "read")
  /\ \/ Fs(p) = "ustar" /\ Opens(Name(p)) /\ tarfs_open(p, Name(p))
     \/ /\ Fs(p) = "ustar" /\ ~Opens(Name(p))
        /\ Returns(p, Failed)
        /\ UNCHANGED <<phase, heap, listVars>>
     \/ Fs(p) = "devfs" /\ devfs_read(p, Name(p))
  /\ UNCHANGED <<bootVars, calls>>

(* The search of every file system ends at the first one: where open       *)
(* fails, or is missing, read is called with the path.  tarfs_read takes   *)
(* the path's characters for a handle.                                     *)
ReadSearch(p) ==
  LET c == call[p]
  IN  /\ phase = "run" /\ c.pc = "search"
      /\ \/ /\ c.cur = NULL
            /\ Returns(p, Failed)
            /\ UNCHANGED <<phase, heap, listVars>>
         \/ /\ c.cur # NULL /\ Fs(p) = "ustar"
            /\ IF Opens(c.path) THEN tarfs_open(p, c.path) ELSE Wild
         \/ c.cur # NULL /\ Fs(p) = "devfs" /\ devfs_read(p, c.path)
      /\ UNCHANGED <<bootVars, calls>>

(* devfs_write looks whether the device is there; tar has no write.  A     *)
(* console prints and returns 0.                                           *)
WriteFound(p) ==
  /\ AtStop(p, "write")
  /\ Returns(p, IF Fs(p) = "devfs" /\ devfs_lookup(Name(p)) /\ CanDo(Name(p), "write")
               THEN [val |-> 0, src |-> <<"device", Name(p)>>] ELSE Failed)
  /\ UNCHANGED <<phase, bootVars, heap, listVars, calls>>

(* vfs_find_node: only devfs can look up. *)
FindFound(p) ==
  /\ AtStop(p, "find")
  /\ Returns(p, IF Fs(p) = "devfs" /\ devfs_lookup(Name(p))
               THEN [val |-> 0, src |-> <<"device", Name(p)>>] ELSE Failed)
  /\ UNCHANGED <<phase, bootVars, heap, listVars, calls>>

-----------------------------------------------------------------------------
(* With a handle                                                           *)

tarfs_read(h, size) == [n |-> Clamp(tar_files[h.file], h.offset, size),
                        from |-> h.offset]

ReadData(p) ==
  LET c == call[p]
      h == heap[c.node]
      r == tarfs_read(h, c.size)
  IN  /\ phase = "run" /\ c.pc = "read"
      /\ heap' = [heap EXCEPT ![c.node].offset = @ + r.n]
      /\ Goes(p, [op |-> "read", pc |-> "close", path |-> c.path, size |-> c.size,
                   node |-> c.node, before |-> c.before,
                   res |-> [val |-> r.n, src |-> <<"file", tar_files[h.file].addr + r.from>>]])
      /\ UNCHANGED <<phase, bootVars, listVars, calls>>

tarfs_close(p) ==
  /\ phase = "run" /\ call[p].pc = "close"
  /\ heap' = [heap EXCEPT ![call[p].node] = Free]
  /\ Returns(p, call[p].res)
  /\ UNCHANGED <<phase, bootVars, listVars, calls>>

(* Somebody types as many characters as atkbd_read asked for. *)
KeysTyped(p) ==
  /\ phase = "run" /\ call[p].pc = "wait"
  /\ Returns(p, [val |-> call[p].size, src |-> <<"device", <<"kbd">> >>])
  /\ UNCHANGED <<phase, bootVars, heap, listVars, calls>>

-----------------------------------------------------------------------------
Init ==
  /\ phase = "module"
  /\ archive \in Archives
  /\ modules \in {"no response", "none", "loaded"}
  /\ tar_files = <<>>
  /\ \E used \in 0 .. Cardinality(Blocks) :
       heap = [b \in Blocks |-> IF b <= used THEN Other ELSE Free]
  /\ mountpoints_root = NULL /\ devfs_root = NULL /\ lost = {}
  /\ call = [p \in Procs |-> Idle] /\ calls = 0 /\ result = NoResult

Step(p) == \/ WalkOn(p) \/ WalkEnd(p)
           \/ ListFound(p) \/ MountLink(p) \/ UnmountRemove(p)
           \/ ReadFound(p) \/ ReadSearch(p) \/ WriteFound(p) \/ FindFound(p)
           \/ ReadData(p) \/ tarfs_close(p)

Start(p) ==
  \/ \E path \in Paths, size \in ReadSizes : StartAccess(p, "read", path, size)
  \/ \E path \in Paths, op \in {"write", "find"} : StartAccess(p, op, path, 0)
  \/ \E e \in Entries : StartMount(p, e)
  \/ \E d, e \in Entries : StartUnmount(p, d.device, e.target)

Halted == phase \in {"panic", "wild"} /\ UNCHANGED vars

Next == \/ module_init \/ devfs_init \/ Halted
        \/ \E p \in Procs : Start(p) \/ Step(p) \/ KeysTyped(p)

Spec == Init /\ [][Next]_vars

(* Every process gets to run (Proc's EveryProcessRuns). *)
FairSpec == Spec /\ \A p \in Procs : WF_vars(Step(p))

-----------------------------------------------------------------------------
(* Properties.                                                             *)

(* The table of the archive's files is not written past its end.           *)
TypeOK ==
  /\ phase \in {"module", "devfs", "run", "panic", "wild"}
  /\ Len(tar_files) <= MAX_TAR_FILES
  /\ \A b \in Blocks : heap[b].kind \in {"free", "other", "mount", "device", "handle"}
  /\ {mountpoints_root, devfs_root} \subseteq Blocks \cup {NULL}
  /\ lost \subseteq Blocks /\ calls \in 0 .. MaxCalls

Live(kind) == {b \in Blocks : heap[b].kind = kind}

Pending == {p \in Procs : InCall(p) /\ call[p].op = "mount"}
Reading == {p \in Procs : call[p].pc \in {"read", "close"}}

(* Every block has exactly one owner, whatever calls are under way: a list *)
(* it is linked in once, a mount call that has yet to link it, or a read   *)
(* that will close it; what vfs_mount forgets on an unsupported type is    *)
(* all that is ever lost, and no call stands on a block that was freed.    *)
Owned ==
  LET mounts == MountList
      devices == DeviceList
      pending == {call[p].node : p \in Pending}
  IN  /\ IsInjective(mounts) /\ IsInjective(devices)
      /\ ToSet(devices) = Live("device")
      /\ ToSet(mounts) \cup pending \cup lost = Live("mount")
      /\ ToSet(mounts) \cap pending = {}
      /\ lost \cap (ToSet(mounts) \cup pending) = {}
      /\ {call[p].node : p \in Reading} = Live("handle")
      /\ \A p, q \in Reading : p # q => call[p].node # call[q].node
      /\ \A p \in Procs : call[p].pc \in {"walk", "search", "link", "remove"} =>
           call[p].cur \in ToSet(mounts) \cup {NULL}

(* The first entry of the table that the path lies under; 0 for none. *)
Covering(t, path) ==
  LET over == {i \in DOMAIN t : path = t[i].target \/ IsPrefix(t[i].target \o <<"/">>, path)}
  IN  IF over = {} THEN 0 ELSE CHOOSE i \in over : \A j \in over : i <= j

(* What a file system must return for a name: of a file of the archive (of *)
(* the first of that name) its first bytes, of a device what it reads.     *)
FileAnswer(res, name, size) ==
  LET named == {i \in DOMAIN archive.files : archive.files[i].name = name}
      i == CHOOSE i \in named : \A j \in named : i <= j
      len == archive.files[i].size
  IN  IF named = {} \/ i > MAX_TAR_FILES \/ archive.files[i].dir THEN res = Failed
      ELSE /\ res.val = IF size < 0 \/ size > len THEN len ELSE size
           /\ \A o \in 0 .. (res.val - 1) :
                LET a == res.src[2] + o
                IN  /\ a % TAR_BLOCK_SIZE = o % TAR_BLOCK_SIZE
                    /\ archive.mem[a - (a % TAR_BLOCK_SIZE)] = Data(i, o \div TAR_BLOCK_SIZE)

DeviceAnswer(res, name, size) ==
  IF name \in {<<"kbd">>, <<"random">>}
  THEN res = [val |-> size, src |-> <<"device", name>>] ELSE res = Failed

IsAnswer(res, t, path, size) ==
  LET i == Covering(t, path)
      fs == t[IF i = 0 THEN 1 ELSE i].fs
      name == IF i = 0 THEN path ELSE Relative(t[i].target, path)
  IN  IF t = <<>> THEN res = Failed
      ELSE IF fs = "ustar" THEN FileAnswer(res, name, size)
      ELSE DeviceAnswer(res, name, size)

(* A read that is preempted between any two steps of vfs_read, while       *)
(* others mount, read and write, returns what an uninterrupted one would   *)
(* have returned at its beginning or its end: the bytes of the right file, *)
(* or the right device's, through the first mount point over the path.  It *)
(* fails otherwise only when there is no memory for the handle.            *)
ReadsRight ==
  [][\A p \in Procs :
       InCall(p) /\ call[p].op = "read" /\ call'[p].pc = "done" =>
         \/ \E t \in {call[p].before, Table} :
              IsAnswer(result', t, call[p].path, call[p].size)
         \/ result' = Failed /\ FreeBlocks(heap) = {}]_vars

Answerable(t, path) ==
  LET i == Covering(t, path)
  IN  /\ i # 0
      /\ t[i].fs = "devfs" => /\ Len(Relative(t[i].target, path)) = 1
                              /\ Relative(t[i].target, path)[1] \in DOMAIN DeviceOps

(* A pointer that is not one is used only for a path that no mount point   *)
(* is over or a device that was never registered; at boot, only for a      *)
(* missing answer of the boot loader or an archive without an end.         *)
DerailsOnlyOutside ==
  phase = "wild" =>
    \/ devfs_root = NULL /\ (modules = "no response" \/ ~archive.ended)
    \/ \E p \in Procs : /\ InCall(p) /\ call[p].op \in {"read", "find"}
                        /\ ~Answerable(call[p].before, call[p].path)

BootEntries == {[device |-> "initrd", target |-> <<"/">>, fs |-> "ustar"],
                [device |-> "devfs", target |-> <<"/", "dev">>, fs |-> "devfs"]}

Abstract == INSTANCE MountTable WITH table <- Table, Entries <- Entries \cup BootEntries

(* The linked list, changed write by write, implements a table that        *)
(* changes by one whole entry: appended last, or the first match removed.  *)
ImplementsTable == Abstract!TableSpec

(* Every call comes back, unless it waits for somebody to type or the      *)
(* machine has stopped: no walk runs in circles however the list changes.  *)
CallsReturn ==
  \A p \in Procs : InCall(p) ~> (~InCall(p) \/ call[p].pc = "wait" \/ phase # "run")

(* What vfs_read's last resort is for: a path under no mount point is      *)
(* looked for in every file system, so a name that some mounted one has is *)
(* not a reason to derail.                                                 *)
LastResortSearchesAll ==
  phase = "wild" =>
    ~\E p \in Procs : /\ InCall(p) /\ call[p].pc = "search"
                      /\ \E i \in DOMAIN Table : Table[i].fs = "devfs"
                      /\ devfs_lookup(call[p].path)
=============================================================================
