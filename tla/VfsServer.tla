----------------------------- MODULE VfsServer ------------------------------
(***************************************************************************)
(* The virtual file system server, src/core/vfs_server: namespaces and the *)
(* processes that share them, mount points, the descriptors handed out for *)
(* directories, and the bit maps that say which table slots are in use.    *)
(*                                                                         *)
(* The server has one thread.  It handles a message to the end, calls to   *)
(* file system servers included, before it receives the next one, so a     *)
(* message is one step.  What others decide is an input of the step: the   *)
(* message, the answers of file system servers, whether the client takes a *)
(* capability, and which allocations fail (oom).                           *)
(*                                                                         *)
(* The address of a table slot is its number, SIZE_MAX is none.  A table   *)
(* is a function from the slots that hold a capability.                    *)
(***************************************************************************)
EXTENDS Naturals, Sequences, FiniteSets, FiniteSetsExt, SequencesExt

CONSTANTS
  SIZE_MAX,
  SIZE_BITS,              \* bits in a word of a bit map
  MAX_NAMESPACES, MAX_MOUNT_POINTS, MAX_MOUNTED_FS, MAX_OPEN_DIRECTORIES,
  Pid,                    \* processes that the process server announces
  Inode,                  \* inodes that file systems report
  Bucket,                 \* buckets of a namespace's hash table
  hash,                   \* Inode -> Bucket
  Calls                   \* situations that are told apart, see AllCalls

(***************************************************************************)
(* late_failure    an allocation or open fails whose slot is not in the    *)
(*                 first word of the bit map                               *)
(* full_map        a slot is wanted and the bit map has none               *)
(* directory_oom   memory runs out while a directory is opened             *)
(* refused         a file system server does not take all capabilities of  *)
(*                 a message that is passed on to it                       *)
(* as_tested       messages for proxied directories reach the handler that *)
(*                 is meant for them, as only the server's tests arrange   *)
(*                                                                         *)
(* After the others the server works on what it finds at a wrong address,  *)
(* and the model ends:                                                     *)
(*                                                                         *)
(* misdirected     a message for a proxied directory, whose badge          *)
(*                 main_loop takes for that of a mount point               *)
(* mount_proxied   FD_MOUNT for a proxied directory                        *)
(* unset_root      FD_OPEN, FD_LINK or FD_UNLINK before a root is mounted  *)
(***************************************************************************)
LostCalls == {"misdirected", "mount_proxied", "unset_root"}
AllCalls == {"late_failure", "full_map", "directory_oom", "refused", "as_tested"} \cup LostCalls

MAX(kind) == CASE kind = "namespaces"   -> MAX_NAMESPACES
               [] kind = "mount_points" -> MAX_MOUNT_POINTS
               [] kind = "lists"        -> MAX_MOUNTED_FS
               [] kind = "infos"        -> MAX_OPEN_DIRECTORIES
Kind == {"namespaces", "mount_points", "lists", "infos"}

ASSUME VfsAssumption ==
  /\ SIZE_BITS \in Nat \ {0}
  /\ \A k \in Kind : MAX(k) \in Nat \ {0} /\ MAX(k) % SIZE_BITS = 0
  /\ \A k \in Kind : SIZE_MAX \notin 0..MAX(k)
  /\ 0 \in Inode /\ 1 \in Pid
  /\ hash \in [Inode -> Bucket]
  /\ Calls \subseteq AllCalls

VARIABLES
  vfs,   \* the server's memory, and what it did for the last message: the
         \* replies sent and the situations of Calls met
  held   \* the descriptors given to clients: badges of the server's endpoint
vars == <<vfs, held>>

Id(kind) == 0..(MAX(kind) - 1)
Optional(S) == S \cup {SIZE_MAX}

(***************************************************************************)
(* A directory's id is a slot of two tables: infos (DIRECTORY_INFO_SLOT)   *)
(* and fds (DIRECTORY_NODE_SLOT); one bit map, that of infos, is for both. *)
(* An open directory of the root or a mount point has no entry in fds.     *)
(* mount_point stands for the union of enclosing_filesystem and            *)
(* mount_point_address.                                                    *)
(***************************************************************************)
ProcessData == [fs_namespace : Id("namespaces"), can_modify : BOOLEAN]
Namespace == [references : Nat, root : Optional(Id("mount_points")),
                buckets : [Bucket -> Optional(Id("mount_points"))]]
MountPoint == [previous : Optional(Id("mount_points")), next : Optional(Id("mount_points")),
                enclosing : Optional(Id("mount_points")), inode : Inode, list : Id("lists")]
MountedList == Seq([create : BOOLEAN])
DirectoryInfo == [namespace : Id("namespaces"), can_modify : BOOLEAN, inode : Inode,
                  mount_point : Optional(Id("mount_points"))]

(* The badge of a descriptor: the address of a directory info, or the     *)
(* number of a directory's slot.                                           *)
Descriptor == [of : {"info", "slot"}, id : Id("infos")]
Info(d) == [of |-> "info", id |-> d]
SlotNr(d) == [of |-> "slot", id |-> d]

Table(S, T) == UNION {[D -> T] : D \in SUBSET S}
Put(table, i, x) == [j \in DOMAIN table \cup {i} |-> IF j = i THEN x ELSE table[j]]
Drop(table, i) == [j \in DOMAIN table \ {i} |-> table[j]]

-----------------------------------------------------------------------------
(***************************************************************************)
(* Memory locks (UNTYPED_LOCK, UNTYPED_UNLOCK) are not counted.            *)
(***************************************************************************)
Lock(v, kind, i) == [v EXCEPT !.locked = @ \cup {<<kind, i>>}]
Unlock(v, kind, i) == [v EXCEPT !.locked = @ \ {<<kind, i>>}]
WithValue(v, x) == [vfs |-> v, value |-> x]
Unlocked(r, kind, i) == WithValue(Unlock(r.vfs, kind, i), r.value)

(***************************************************************************)
(* structures.c.  find_slot_for sets the first clear bit and calls its     *)
(* callback with the bit's number, or with 0 if there is none.  When the   *)
(* callback fails it clears a bit relative to the word it has come to:     *)
(* Cleared is that bit, which may lie behind the map.                      *)
(***************************************************************************)
FreeIds(v, kind) == Id(kind) \ v.used[kind]
SlotFor(v, kind) == IF FreeIds(v, kind) = {} THEN 0 ELSE Min(FreeIds(v, kind))
Cleared(v, kind) ==
  LET id == SlotFor(v, kind)
      word == IF FreeIds(v, kind) = {} THEN MAX(kind) \div SIZE_BITS ELSE id \div SIZE_BITS
  IN  id + word * SIZE_BITS
(* Notes a situation that is told apart. *)
Meet(v, p, call) == [v EXCEPT !.met = IF p THEN @ \cup {call} ELSE @]
SlotTaken(v, kind) ==
  Meet([v EXCEPT !.used[kind] = @ \cup {SlotFor(v, kind)}],
       FreeIds(v, kind) = {}, "full_map")
(* Mutant: the bit of a failed callback stays set. *)
SlotKept(v, kind) == SlotTaken(v, kind)
SlotFailed(v, kind) ==
  Meet([SlotTaken(v, kind) EXCEPT !.used[kind] = @ \ {Cleared(v, kind)}],
       FreeIds(v, kind) # {} /\ Cleared(v, kind) # SlotFor(v, kind), "late_failure")

(* Mutant: the shift uses the number of the word. *)
mark_slot_unused_first(v, kind, i) == [v EXCEPT !.used[kind] = @ \ {(i \div SIZE_BITS) * SIZE_BITS}]
mark_slot_unused(v, kind, i) == [v EXCEPT !.used[kind] = @ \ {i}]

(* The value is the structure's slot, SIZE_MAX if it cannot be allocated:  *)
(* ADDRESS_SPACE_ALLOC needs memory and an empty slot.                     *)
AllocFails(v, kind, oom) == kind \in oom \/ SlotFor(v, kind) \in DOMAIN v[kind]
alloc_structure(v, kind, x, oom) ==
  LET i == SlotFor(v, kind)
  IN  IF AllocFails(v, kind, oom)
      THEN WithValue(SlotFailed(v, kind), SIZE_MAX)
      ELSE WithValue([SlotTaken(v, kind) EXCEPT ![kind] = Put(@, i, x)], i)

(* Deletes the capability first; if the slot is empty the bit stays. *)
free_structure(v, kind, i) ==
  IF i \in DOMAIN v[kind]
  THEN mark_slot_unused([Unlock(v, kind, i) EXCEPT ![kind] = Drop(@, i)], kind, i)
  ELSE v

-----------------------------------------------------------------------------
(***************************************************************************)
(* utils.c.  A reply is what the client reads: an error or "ok", and the   *)
(* descriptor that comes with it.                                          *)
(***************************************************************************)
FileDescriptor == [of |-> "file", id |-> 0]   \* of a file system server itself
Reply(v, status, gives) == [v EXCEPT !.replies = Append(@, [status |-> status, gives |-> gives])]
return_value(v, e) == Reply(v, e, {})
(* Handlers that succeed have replied; errors are replied by their callers. *)
ReplyError(r) == IF r.value = "ok" THEN r.vfs ELSE return_value(r.vfs, r.value)
(* The copy in the temporary slot is deleted whether it was taken or not. *)
badge_and_send(v, badge) == Reply(v, "ok", {badge})

(***************************************************************************)
(* namespaces.c                                                            *)
(***************************************************************************)
NewNamespace == [references |-> 1, root |-> SIZE_MAX, buckets |-> [b \in Bucket |-> SIZE_MAX]]
alloc_namespace(v, oom) == alloc_structure(v, "namespaces", NewNamespace, oom)

(* Mutant: freed with the last but one reference. *)
free_namespace_early(v, n) ==
  IF v.namespaces[n].references <= 2 THEN free_structure(Unlock(v, "namespaces", n), "namespaces", n)
  ELSE [Unlock(v, "namespaces", n) EXCEPT !.namespaces[n].references = @ - 1]
free_namespace(v, n) ==
  LET unlocked == Unlock(v, "namespaces", n)
  IN  IF v.namespaces[n].references <= 1
      THEN free_structure(unlocked, "namespaces", n)
      ELSE [unlocked EXCEPT !.namespaces[n].references = @ - 1]

(* directories.c.  The namespace stays locked when there is no memory. *)
open_root(v, n, can_modify, oom) ==
  LET locked == Lock(v, "namespaces", n)
      root == [namespace |-> n, can_modify |-> can_modify, inode |-> 0,
               mount_point |-> v.namespaces[n].root]
      a == alloc_structure(locked, "infos", root, oom)
  IN  IF a.value = SIZE_MAX
      THEN WithValue(a.vfs, "ENOMEM")
      ELSE WithValue(Unlock(badge_and_send(a.vfs, Info(a.value)), "namespaces", n), "ok")

(* Takes a reference to the creator's namespace, or makes a new one; the   *)
(* value is the namespace.                                                 *)
NamespaceFor(v, creator, flags, oom) ==
  LET n == v.processes[creator].fs_namespace
  IN  IF "VFS_SHARE_NAMESPACE" \in flags
      THEN WithValue([v EXCEPT !.namespaces[n].references = @ + 1], n)
      ELSE alloc_namespace(v, oom)

(* Mutant: the creator's right is not looked at. *)
CanModifyUnlessAsked(v, creator, flags) == "VFS_READ_ONLY_NAMESPACE" \notin flags
CanModify(v, creator, flags) ==
  /\ "VFS_SHARE_NAMESPACE" \in flags => v.processes[creator].can_modify
  /\ "VFS_READ_ONLY_NAMESPACE" \notin flags

(* Mutant: the reference is kept when there is no memory for the process. *)
set_up_filesystem_keeping(v, creator, new, flags, oom) ==
  LET n    == NamespaceFor(v, creator, flags, oom)
      data == [fs_namespace |-> n.value, can_modify |-> CanModify(v, creator, flags)]
  IN  IF n.value = SIZE_MAX \/ "process" \in oom \/ new \in DOMAIN v.processes
      THEN WithValue(n.vfs, "ENOMEM")
      ELSE open_root([n.vfs EXCEPT !.processes = Put(@, new, data)], n.value, data.can_modify, oom)
set_up_filesystem_for_process(v, creator, new, flags, oom) ==
  LET n    == NamespaceFor(v, creator, flags, oom)
      data == [fs_namespace |-> n.value, can_modify |-> CanModify(v, creator, flags)]
      root == open_root([n.vfs EXCEPT !.processes = Put(@, new, data)], n.value, data.can_modify, oom)
  IN  IF n.value = SIZE_MAX THEN WithValue(n.vfs, "ENOMEM")
      ELSE IF "process" \in oom \/ new \in DOMAIN v.processes
      THEN WithValue(free_namespace(n.vfs, n.value), "ENOMEM")
      ELSE IF root.value # "ok"
      THEN WithValue([free_namespace(root.vfs, n.value) EXCEPT !.processes = Drop(@, new)], root.value)
      ELSE root

(* The first mount of a namespace is its root; others go to the front of   *)
(* their bucket.                                                           *)
(* Mutant: the old first mount point of the bucket is not linked back. *)
add_mount_point_unlinked(v, n, mp, oom) ==
  LET b == hash[mp.inode]
      asRoot == v.namespaces[n].root = SIZE_MAX
      a == alloc_structure(v, "mount_points",
             IF asRoot THEN mp ELSE [mp EXCEPT !.next = v.namespaces[n].buckets[b]], oom)
  IN  IF a.value = SIZE_MAX THEN WithValue(a.vfs, "ENOMEM")
      ELSE IF asRoot
      THEN WithValue([a.vfs EXCEPT !.namespaces[n].root = a.value], "ok")
      ELSE WithValue([a.vfs EXCEPT !.namespaces[n].buckets[b] = a.value], "ok")
add_mount_point_to_namespace(v, n, mp, oom) ==
  LET b     == hash[mp.inode]
      first == v.namespaces[n].buckets[b]
      asRoot == v.namespaces[n].root = SIZE_MAX
      a     == alloc_structure(v, "mount_points", IF asRoot THEN mp ELSE [mp EXCEPT !.next = first], oom)
      m     == a.value
  IN  IF m = SIZE_MAX THEN WithValue(a.vfs, "ENOMEM")
      ELSE IF asRoot
      THEN WithValue([a.vfs EXCEPT !.namespaces[n].root = m], "ok")
      ELSE WithValue([a.vfs EXCEPT !.namespaces[n].buckets[b] = m,
                                   !.mount_points = [i \in DOMAIN @ |->
                                      IF i = first THEN [@[i] EXCEPT !.previous = m] ELSE @[i]]], "ok")

(* The mount points of a bucket, one behind the other, and the first of    *)
(* them for a directory.                                                   *)
Chain(v, first) ==
  LET walk[i \in 0..MAX_MOUNT_POINTS] ==
        IF i = 0 THEN first
        ELSE IF walk[i - 1] = SIZE_MAX THEN SIZE_MAX ELSE v.mount_points[walk[i - 1]].next
  IN  walk
(* The walk unlocks what it visits and then the namespace, whoever had     *)
(* locked them.                                                            *)
find_mount_point(v, n, inode, enclosing) ==
  LET chain   == Chain(v, v.namespaces[n].buckets[hash[inode]])
      Hit(i)  == /\ v.mount_points[chain[i]].inode = inode
                 /\ v.mount_points[chain[i]].enclosing = enclosing
      onChain == {i \in DOMAIN chain : chain[i] # SIZE_MAX}
      visited == {i \in onChain : \A j \in 0..(i - 1) : ~Hit(j)}
      hits    == {i \in visited : Hit(i)}
  IN  WithValue([v EXCEPT !.locked = @ \ ({<<"namespaces", n>>} \cup {<<"mount_points", chain[i]>> : i \in visited})],
                IF hits = {} THEN SIZE_MAX ELSE chain[Min(hits)])

-----------------------------------------------------------------------------
(***************************************************************************)
(* mount_lists.c.  A list is the sequence of its used slots in order, each *)
(* a file system's directory with its MOUNT_CREATE flag.  mount starts a   *)
(* new list every time, so a list has one entry and no link to another.    *)
(***************************************************************************)
create_mounted_list_entry(v, oom) ==
  LET a == alloc_structure(v, "lists", <<>>, oom)
  IN  IF a.value # SIZE_MAX /\ "list_node" \in oom
      THEN WithValue(free_structure(a.vfs, "lists", a.value), SIZE_MAX)
      ELSE a

(* NODE_MOVE takes the descriptor out of the thread's storage. *)
mounted_list_insert(v, l, create) ==
  [v EXCEPT !.lists[l] = Append(@, [create |-> create]), !.storage = @ \ {1}]

(***************************************************************************)
(* mount_points.c                                                          *)
(***************************************************************************)
(* Mutant: an error returns before the namespace is unlocked. *)
mount_locked(v, info, create, oom) ==
  LET l == create_mounted_list_entry(Lock(v, "namespaces", info.namespace), oom)
      mp == [previous |-> SIZE_MAX, next |-> SIZE_MAX, enclosing |-> info.mount_point,
             inode |-> info.inode, list |-> l.value]
      added == add_mount_point_to_namespace(mounted_list_insert(l.vfs, l.value, create),
                                            info.namespace, mp, oom)
  IN  IF ~info.can_modify THEN WithValue(v, "EPERM")
      ELSE IF l.value = SIZE_MAX THEN WithValue(l.vfs, "ENOMEM")
      ELSE WithValue(Unlock(added.vfs, "namespaces", info.namespace), added.value)
mount(v, info, create, oom) ==
  LET n   == info.namespace
      l   == create_mounted_list_entry(Lock(v, "namespaces", n), oom)
      mp  == [previous |-> SIZE_MAX, next |-> SIZE_MAX, enclosing |-> info.mount_point,
              inode |-> info.inode, list |-> l.value]
      added == add_mount_point_to_namespace(mounted_list_insert(l.vfs, l.value, create), n, mp, oom)
      r   == IF l.value = SIZE_MAX THEN WithValue(l.vfs, "ENOMEM") ELSE added
  IN  IF ~info.can_modify
      THEN WithValue(v, "EPERM")
      ELSE WithValue(Unlock(r.vfs, "namespaces", n), r.value)

-----------------------------------------------------------------------------
(***************************************************************************)
(* directories.c.  A file system server's answer to fd_open and to the     *)
(* fd_stat that follows; taken says if the client has room for a           *)
(* descriptor of a file.                                                   *)
(***************************************************************************)
Answer == {a \in [result : {"open_fails", "stat_fails", "file", "directory"},
                   inode : Inode, taken : BOOLEAN] :
             /\ a.taken => a.result = "file"
             /\ a.inode # 0 => a.result = "directory"}

(* The info of a directory id is allocated in that slot. *)
AllocInfo(v, d, info, oom) ==
  IF "infos" \in oom \/ d \in DOMAIN v.infos
  THEN WithValue(Meet(v, TRUE, "directory_oom"), SIZE_MAX)
  ELSE WithValue([v EXCEPT !.infos = Put(@, d, info)], d)

(* Both return what AllocInfo does, having replied if it succeeded. *)
open_mount_point(v, d, m, info, inode, oom) ==
  LET a == AllocInfo(v, d, [info EXCEPT !.inode = inode, !.mount_point = m], oom)
  IN  IF a.value = SIZE_MAX THEN a
      ELSE WithValue(badge_and_send([a.vfs EXCEPT !.fds = @ \ {d}], Info(d)), d)
proxy_directory(v, d, info, inode, oom) ==
  LET a == AllocInfo(v, d, [info EXCEPT !.inode = inode], oom)
  IN  IF a.value = SIZE_MAX THEN a ELSE WithValue(badge_and_send(a.vfs, SlotNr(d)), d)

(* free_structure for the node of descriptors: nothing if the slot is empty. *)
FreeDirectory(v, d) ==
  IF d \in v.fds THEN mark_slot_unused([v EXCEPT !.fds = @ \ {d}], "infos", d) ELSE v

(* A failure to make a descriptor is returned as success: the result that  *)
(* goes with it is that of fd_stat.                                        *)
Made(made, d) == WithValue(IF made.value = SIZE_MAX THEN FreeDirectory(made.vfs, d) ELSE made.vfs, "ok")
Replied(v, d, taken) ==
  [Reply(v, "ok", {FileDescriptor}) EXCEPT !.fds = IF taken THEN @ \ {d} ELSE @]
OpenFound(v, m, d, info, answer, oom) ==
  CASE m # SIZE_MAX -> Made(open_mount_point(v, d, m, info, answer.inode, oom), d)
    [] m = SIZE_MAX /\ answer.result = "file" -> WithValue(FreeDirectory(Replied(v, d, answer.taken), d), "ok")
    [] OTHER -> Made(proxy_directory(v, d, info, answer.inode, oom), d)
OpenSent(v, d, info, answer, oom) ==
  LET opened == [SlotTaken(v, "infos") EXCEPT !.fds = @ \cup {d}]
      Found(r) == OpenFound(r.vfs, r.value, d, info, answer, oom)
  IN  CASE answer.result = "open_fails" -> WithValue(SlotFailed(v, "infos"), "ENOMEM")
        [] answer.result = "stat_fails" -> WithValue(FreeDirectory(opened, d), "EIO")
        [] OTHER -> Found(find_mount_point(opened, info.namespace, answer.inode, info.mount_point))
(* fd_open moves the name out of the thread's storage. *)
open_file(v, info, answer, oom) ==
  OpenSent([v EXCEPT !.storage = @ \ {1}], SlotFor(v, "infos"), info, answer, oom)

pass_thru_directory_message(v, moved) ==
  LET out == [v EXCEPT !.storage = @ \ moved, !.transferred = {}]
  IN  Meet(IF 0 \in moved THEN Reply(out, "passed", {}) ELSE out, moved # v.transferred, "refused")

directory_open(v, d, env) ==
  ReplyError(Unlocked(open_file(Lock(v, "infos", d), v.infos[d], env.first, env.oom), "infos", d))

-----------------------------------------------------------------------------
(***************************************************************************)
(* Messages for mount points.  flags are those of FD_OPEN; env has the     *)
(* answers to the first and the second call of a file system server, and   *)
(* what cannot be allocated.                                               *)
(***************************************************************************)
Env == [first : Answer, second : Answer, oom : SUBSET (Kind \cup {"process", "list_node"})]
Done(r) == WithValue(r.vfs, IF r.value = "ok" THEN "ok" ELSE "ENOENT")

(* FD_LINK and FD_UNLINK: the directories are asked one after the other    *)
(* until one says yes, only the ones flagged for creation if required.     *)
link_callback(entry, requires_create_flag, answer) ==
  (entry.create \/ ~requires_create_flag) /\ answer.result # "open_fails"
LinkAll(v, m, requires_create_flag, answer) ==
  LET l == v.lists[v.mount_points[m].list]
      done == \E i \in DOMAIN l : link_callback(l[i], requires_create_flag, answer)
  IN  return_value(Unlock(Lock(v, "mount_points", m), "mount_points", m), IF done THEN "ok" ELSE "ENOENT")
mount_point_link(v, m, answer) == LinkAll(v, m, TRUE, answer)
mount_point_unlink(v, m, answer) == LinkAll(v, m, FALSE, answer)

open_callback(v, entry, args) ==
  IF entry.create /\ ~args.allow_create THEN WithValue(v, "ENOENT")
  ELSE Done(open_file(v, args.info, args.answer, args.oom))

(* Runs the callback on one entry after the other until one says it is done. *)
iterate_over_mounted_list(v, l, args) ==
  FoldLeft(LAMBDA acc, entry : IF acc.value = "ok" THEN acc ELSE open_callback(acc.vfs, entry, args),
           WithValue(v, "ENOENT"), v.lists[l])
iterate_over_mount_point(v, m, args) ==
  Unlocked(iterate_over_mounted_list(Lock(v, "mount_points", m), v.mount_points[m].list, args),
           "mount_points", m)
OpenIn(v, m, info, allow_create, answer, oom) ==
  iterate_over_mount_point(v, m, [info |-> info, allow_create |-> allow_create,
                                  answer |-> answer, oom |-> oom])

mount_point_open(v, info, flags, env) ==
  LET m      == info.mount_point
      locked == Lock(v, "mount_points", m)
      inside == [info EXCEPT !.mount_point = v.mount_points[m].enclosing]
      Retry(once) == IF once.value # "ok" /\ "OPEN_CREATE" \in flags
                     THEN OpenIn(once.vfs, m, inside, TRUE, env.second, env.oom)
                     ELSE once
  IN  ReplyError(IF {"OPEN_CREATE", "OPEN_EXCLUSIVE"} \subseteq flags
                 THEN OpenIn(locked, m, inside, TRUE, env.first, env.oom)
                 ELSE Retry(OpenIn(Unlock(locked, "mount_points", m), m, inside, FALSE, env.first, env.oom)))

(* A descriptor made before the root was mounted learns of it with the     *)
(* next message.                                                           *)
Entered(v, d) ==
  LET n == v.infos[d].namespace
      unset == v.infos[d].mount_point = SIZE_MAX
      locked == Lock(v, "infos", d)
  IN  IF unset
      THEN Unlock([locked EXCEPT !.infos[d].mount_point = v.namespaces[n].root], "namespaces", n)
      ELSE locked
Left(v, d) == Unlock(v, "infos", d)

-----------------------------------------------------------------------------
(***************************************************************************)
(* main_loop: the capabilities of a message are received in the thread's   *)
(* storage, where a slot is empty, and those flagged as transferred are    *)
(* deleted after the message was handled.                                  *)
(***************************************************************************)
Capabilities(call) == CASE call = "link" -> {0, 1, 2}
                        [] call \in {"open", "unlink", "mount", "read", "write"} -> {0, 1}
                        [] OTHER -> {0}
Received(call) ==
  [vfs EXCEPT !.storage = @ \cup Capabilities(call), !.transferred = Capabilities(call) \ vfs.storage,
              !.replies = <<>>, !.met = {}]
Handled(handled) ==
  /\ vfs.met \cap LostCalls = {}
  /\ \E v \in {handled} :      \* handled, evaluated once
    /\ v.met \subseteq Calls
    /\ vfs' = [v EXCEPT !.storage = @ \ v.transferred, !.transferred = {}]
    /\ held' = held \cup ((UNION {v.replies[i].gives : i \in DOMAIN v.replies}) \ {FileDescriptor})

(* After init_vfs_structures, and after _start: the process server has the *)
(* endpoint and the descriptor of the root directory of process 1, both of *)
(* which it waited for.                                                    *)
Empty ==
  [used |-> [k \in Kind |-> {}],
   processes |-> [p \in {} |-> {}], namespaces |-> [n \in {} |-> {}],
   mount_points |-> [m \in {} |-> {}], lists |-> [l \in {} |-> {}], infos |-> [d \in {} |-> {}],
   fds |-> {}, locked |-> {}, storage |-> {}, transferred |-> {}, replies |-> <<>>, met |-> {}]
Init ==
  /\ vfs = set_up_filesystem_for_process(Empty, 1, 1, {}, {}).vfs
  /\ held = {Info(0)}

Flags == {"VFS_SHARE_NAMESPACE", "VFS_READ_ONLY_NAMESPACE"}
OpenFlags == {"OPEN_CREATE", "OPEN_EXCLUSIVE"}
(* What cannot be allocated: one thing at most, since the first failure    *)
(* ends the work on a message.                                             *)
Oom(S) == {{}} \cup {{x} : x \in S}
DirectoryOom == IF "directory_oom" \in Calls THEN {{}, {"infos"}} ELSE {{}}

(* handle_vfs_message, for the process server.  The creator is a process   *)
(* that the server knows.                                                  *)
NewProcess(creator, new, flags, oom) ==
  Handled(ReplyError(set_up_filesystem_for_process(Received("new_process"), creator, new, flags, oom)))
UnknownVfsMessage == Handled(return_value(Received("other"), "EBADMSG"))

(* handle_mount_point_message, for the descriptor of info d. *)
MountPointRefusal(call) == CASE call \in {"read", "unmount"}   -> "ENOSYS"
                             [] call \in {"write", "truncate"} -> "ENOTSUP"
                             [] call = "other"                 -> "EBADMSG"
MountPointRefuse(d, call) ==
  Handled(Left(return_value(Entered(Received(call), d), MountPointRefusal(call)), d))
MountPointStat(d) == Handled(Left(return_value(Entered(Received("stat"), d), "ok"), d))
(* Before a root is mounted these look for it at address SIZE_MAX: what     *)
(* they lock there is the reply endpoint of a worker thread, for ever.     *)
AtRoot(v, d, handled) == IF v.infos[d].mount_point = SIZE_MAX
                         THEN Meet(v, TRUE, "unset_root") ELSE handled
MountPointLink(d, answer) ==
  LET v == Entered(Received("link"), d)
  IN  Handled(AtRoot(v, d, Left(mount_point_link(v, v.infos[d].mount_point, answer), d)))
MountPointUnlink(d, answer) ==
  LET v == Entered(Received("unlink"), d)
  IN  Handled(AtRoot(v, d, Left(mount_point_unlink(v, v.infos[d].mount_point, answer), d)))
MountPointOpen(d, flags, env) ==
  LET v == Entered(Received("open"), d)
  IN  Handled(AtRoot(v, d, Left(mount_point_open(v, v.infos[d], flags, env), d)))
MountPointMount(d, create, oom) ==
  \E v \in {Entered(Received("mount"), d)} : \E r \in {mount(v, v.infos[d], create, oom)} :
    Handled(Left(return_value(r.vfs, r.value), d))

(* handle_directory_message, for a proxied directory d.  proxy_directory   *)
(* badges it as a mount point, so main_loop calls the other handler, which *)
(* takes the slot's number for an address.  So does FD_MOUNT here.         *)
Directed(call, handled) == IF "as_tested" \in Calls THEN handled
                           ELSE Meet(Received(call), TRUE, "misdirected")
DirectoryPassThru(d, call, moved) ==
  Handled(Directed(call, pass_thru_directory_message(Received(call), moved)))
DirectoryOpen(d, env) == Handled(Directed("open", directory_open(Received("open"), d, env)))
DirectoryRefusal(call) == CASE call = "unmount" -> "ENOSYS"
                            [] call = "other"   -> "EBADMSG"
                            [] OTHER            -> "ENOTSUP"
DirectoryRefuse(d, call) ==
  Handled(Directed(call, IF call = "mount" THEN Meet(Received(call), TRUE, "mount_proxied")
                         ELSE return_value(Received(call), DirectoryRefusal(call))))

Next ==
  \/ \E creator \in DOMAIN vfs.processes, new \in Pid, flags \in SUBSET Flags,
        oom \in Oom({"namespaces", "process", "infos"}) :
       /\ "VFS_SHARE_NAMESPACE" \notin flags => creator = 1   \* it is not looked at
       /\ NewProcess(creator, new, flags, oom)
  \/ UnknownVfsMessage
  \/ \E b \in held :
       /\ b.of = "info"
       /\ \/ \E call \in {"read", "unmount", "write", "truncate", "other"} : MountPointRefuse(b.id, call)
          \/ MountPointStat(b.id)
          \/ \E answer \in Answer : MountPointLink(b.id, answer) \/ MountPointUnlink(b.id, answer)
          \/ \E flags \in SUBSET OpenFlags, first, second \in Answer, oom \in DirectoryOom :
               /\ \/ second = first
                  \/ flags = {"OPEN_CREATE"} /\ first.result \in {"open_fails", "stat_fails"}
               /\ MountPointOpen(b.id, flags, [first |-> first, second |-> second, oom |-> oom])
          \/ \E create \in BOOLEAN, oom \in Oom({"lists", "list_node", "mount_points"}) :
               MountPointMount(b.id, create, oom)
  \/ \E b \in held :
       /\ b.of = "slot"
       /\ \/ \E call \in {"read", "stat", "link", "unlink"} :
               \E moved \in SUBSET Capabilities(call) : DirectoryPassThru(b.id, call, moved)
          \/ \E answer \in Answer, oom \in DirectoryOom :
               DirectoryOpen(b.id, [first |-> answer, second |-> answer, oom |-> oom])
          \/ \E call \in {"write", "truncate", "mount", "unmount", "other"} : DirectoryRefuse(b.id, call)

Spec == Init /\ [][Next]_vars

-----------------------------------------------------------------------------
(* The tables hold what the structs of the server can hold. *)
TypeOK ==
  /\ vfs.used \in [Kind -> SUBSET UNION {Id(k) : k \in Kind}]
  /\ vfs.processes \in Table(Pid, ProcessData)
  /\ DOMAIN vfs.namespaces \subseteq Id("namespaces")
  /\ \A n \in DOMAIN vfs.namespaces : vfs.namespaces[n] \in Namespace
  /\ DOMAIN vfs.mount_points \subseteq Id("mount_points")
  /\ \A m \in DOMAIN vfs.mount_points : vfs.mount_points[m] \in MountPoint
  /\ DOMAIN vfs.lists \subseteq Id("lists")
  /\ \A l \in DOMAIN vfs.lists : vfs.lists[l] \in MountedList
  /\ DOMAIN vfs.infos \subseteq Id("infos")
  /\ \A d \in DOMAIN vfs.infos : vfs.infos[d] \in DirectoryInfo
  /\ vfs.fds \subseteq Id("infos")
  /\ held \subseteq Descriptor

(***************************************************************************)
(* The tables hold what the structs can hold, and a slot that holds a      *)
(* structure is marked in its bit map, after every failure on the way:     *)
(* find_slot_for never offers it to another.                               *)
(***************************************************************************)
UsedCoversOccupied ==
  /\ TypeOK
  /\ \A k \in Kind : DOMAIN vfs[k] \subseteq vfs.used[k]
  /\ vfs.fds \subseteq vfs.used["infos"]

(***************************************************************************)
(* A namespace lives exactly as long as a process uses it, and its count   *)
(* is the number of those processes, whichever step of setting up a        *)
(* process failed.                                                         *)
(***************************************************************************)
UsersOf(n) == {p \in DOMAIN vfs.processes : vfs.processes[p].fs_namespace = n}
ReferencesExact ==
  /\ \A p \in DOMAIN vfs.processes : vfs.processes[p].fs_namespace \in DOMAIN vfs.namespaces
  /\ \A n \in DOMAIN vfs.namespaces :
       /\ UsersOf(n) # {}
       /\ vfs.namespaces[n].references = Cardinality(UsersOf(n))

(***************************************************************************)
(* The buckets of the namespaces are doubly linked lists of the mount      *)
(* points that belong there; every mount point is the root of one          *)
(* namespace or in one of its buckets, and has a list of its own.  What is *)
(* in a bucket is what the next of one mount point after the other leads   *)
(* to, the least set with the first that is closed under next.             *)
(***************************************************************************)
IsClosed(v, S) ==
  \A m \in S \cap DOMAIN v.mount_points : v.mount_points[m].next \in S \cup {SIZE_MAX}
Reached(v, first) ==
  {m \in Id("mount_points") :
     \A S \in SUBSET Id("mount_points") : first \in S \cup {SIZE_MAX} /\ IsClosed(v, S) => m \in S}
BucketOf(v, n, b) == Reached(v, v.namespaces[n].buckets[b])
MountsOf(v, n) == (UNION {BucketOf(v, n, b) : b \in Bucket}) \cup ({v.namespaces[n].root} \ {SIZE_MAX})
MountsWellFormed ==
  LET mp == vfs.mount_points
  IN  /\ \A n \in DOMAIN vfs.namespaces : MountsOf(vfs, n) \subseteq DOMAIN mp
      /\ \A n \in DOMAIN vfs.namespaces, b \in Bucket : \A m \in BucketOf(vfs, n, b) :
           /\ hash[mp[m].inode] = b
           /\ m # vfs.namespaces[n].root
           /\ IF mp[m].previous = SIZE_MAX THEN vfs.namespaces[n].buckets[b] = m
              ELSE mp[m].previous \in BucketOf(vfs, n, b) /\ mp[mp[m].previous].next = m
           /\ mp[m].next # SIZE_MAX => mp[mp[m].next].previous = m
      /\ \A m \in DOMAIN mp : Cardinality({n \in DOMAIN vfs.namespaces : m \in MountsOf(vfs, n)}) = 1
      /\ \A m, o \in DOMAIN mp : mp[m].list = mp[o].list => m = o
      /\ \A m \in DOMAIN mp : mp[m].list \in DOMAIN vfs.lists /\ Len(vfs.lists[mp[m].list]) = 1

(***************************************************************************)
(* Whatever fails later, a descriptor that a client holds leads to an info *)
(* in a namespace that still exists; a root's info names that namespace's  *)
(* root, or nothing as long as it was not used since the root was mounted; *)
(* a proxied directory has the descriptor that its messages go to.         *)
(***************************************************************************)
DescriptorsValid ==
  \A b \in held :
    /\ b.id \in DOMAIN vfs.infos
    /\ vfs.infos[b.id].namespace \in DOMAIN vfs.namespaces
    /\ b.of = "info" => vfs.infos[b.id].mount_point
                          \in {SIZE_MAX, vfs.namespaces[vfs.infos[b.id].namespace].root}
    /\ b.of = "slot" => b.id \in vfs.fds

(***************************************************************************)
(* Between messages no memory is locked, which an error path that forgets  *)
(* to unlock would pin for good, and no capability is left in the thread's *)
(* storage, where it would keep the capabilities of later messages out.    *)
(***************************************************************************)
NothingHeld == vfs.locked = {} /\ vfs.storage = {}

(***************************************************************************)
(* Where no process may modify a namespace its mounts stay as they are,    *)
(* and so do the rights: no chain of shared namespaces, opened roots and   *)
(* descriptors gives back a right that was taken away.                     *)
(***************************************************************************)
ReadOnly(n) == \A p \in UsersOf(n) : ~vfs.processes[p].can_modify
MountsIn(v, n) == <<v.namespaces[n].root, v.namespaces[n].buckets>>
ReadOnlyStaysFixed ==
  [][\A n \in DOMAIN vfs.namespaces \cap DOMAIN vfs'.namespaces :
       ReadOnly(n) => ReadOnly(n)' /\ MountsIn(vfs', n) = MountsIn(vfs, n)]_vars

(***************************************************************************)
(* What structures.h promises of find_slot_for: when the callback fails    *)
(* its bit is cleared.  A message that is answered with an error marks no  *)
(* slot that holds nothing, and so does not use the tables up.             *)
(***************************************************************************)
MarkedEmpty(v, k) == v.used[k] \ (DOMAIN v[k] \cup (IF k = "infos" THEN v.fds ELSE {}))
FailureUnmarks ==
  [][(\A i \in DOMAIN vfs'.replies : vfs'.replies[i].status \notin {"ok", "passed"})
       => \A k \in Kind : MarkedEmpty(vfs', k) \subseteq MarkedEmpty(vfs, k)]_vars
=============================================================================
