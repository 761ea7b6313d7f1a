------------------------------ MODULE UserLand ------------------------------
(***************************************************************************)
(* How the user land starts: the process server (src/core/process_server)  *)
(* runs the VFS server and then the file system server of the initial RAM  *)
(* disk, which mounts itself as the root.  The VFS server's part is        *)
(* VfsServer, the binaries are loaded by Bflt.                             *)
(*                                                                         *)
(* An endpoint is a rendezvous, as module Rendezvous has it: who sends     *)
(* waits for a receiver and the other way round, so a message is a joint   *)
(* step of the two.  Between two messages a process is alone with its own  *)
(* memory, and that is one step.  What the kernel may refuse for lack of   *)
(* memory is an input (oom).  A failed assertion yields forever.           *)
(***************************************************************************)
EXTENDS VfsServer, Bflt

CONSTANTS
  PID_MAX,
  Initrd,       \* archives: sequences of [name, type, binary]
  ARCHIVE,      \* the address of the archive's first word
  FILE_WORDS,   \* no file of the archive has more words
  HEAP          \* where memory for processes starts, behind the archive

VFS_SERVER == <<"v", "f", "s">>     \* "/lib/core/vfs_server"
INITRD_FS  == <<"f", "s">>          \* "/lib/core/initrd_fs"

ASSUME UserLandAssumption == PID_MAX \in Nat /\ PID_MAX > 3 /\ 2 \in Pid /\ 3 \in Pid

VARIABLES
  initrd,     \* the archive, and whether its magic number is right
  pc,         \* where each process is
  slots,      \* the occupied slots of the process server's root node
  pids,       \* the process server's bit map of process ids
  tables,     \* the ids with a capability in its nodes for data and threads
  processes,  \* what was started: the file, its image and root node
  fds         \* the descriptors in the root nodes of processes
bootVars == <<initrd, pc, slots, pids, tables, processes, fds, vfs, held>>

Process == {"process_server", "vfs_server", "initrd_fs"}
NULL_PID == 0
ENDPOINT_SLOT == 6
ROOT_NODE_ADDRESS == 7
VFS_ENDPOINT_SLOT == 8
ROOT_FD_SLOT == 9

Goto(p, label) == pc' = [pc EXCEPT ![p] = label]
Move(p, label, q, other) == pc' = [pc EXCEPT ![p] = label, ![q] = other]

-----------------------------------------------------------------------------
(***************************************************************************)
(* processes.c                                                             *)
(***************************************************************************)
(* The first id whose bit is clear, 0 if there is none; 0 and 1 are set    *)
(* from the beginning.                                                     *)
allocate_pid(used) == LET free == 0..(PID_MAX - 1) \ used
                      IN  IF free = {} THEN NULL_PID ELSE Min(free)

(* jax.c: the first regular file whose name starts with what is looked for *)
(* (0 for none).                                                           *)
jax_find(r, name) ==
  LET hits == {i \in DOMAIN r : r[i].type = "regular" /\ IsPrefix(name, r[i].name)}
  IN  IF hits = {} THEN 0 ELSE Min(hits)
FileAddress(i) == ARCHIVE + (i - 1) * FILE_WORDS

(***************************************************************************)
(* The archives of a build: no file whose name only starts with that of a  *)
(* server comes before it, and a server that the loader accepts is as the  *)
(* tools make it, with room on its stack for two arguments and a return    *)
(* address.                                                                *)
(***************************************************************************)
ASSUME ArchiveAssumption ==
  /\ ARCHIVE \in Nat /\ FILE_WORDS \in Nat /\ HEAP \in Nat \ {0}
  /\ \A r \in Initrd :
       /\ Len(r) \in Nat /\ DOMAIN r = 1..Len(r)
       /\ ARCHIVE + Len(r) * FILE_WORDS <= HEAP
       /\ \A name \in {VFS_SERVER, INITRD_FS} :
            LET i == jax_find(r, name)
                b == r[i].binary
            IN  i # 0 => /\ r[i].name = name
                         /\ bflt_verify(b.header) =>
                              /\ IsBinary(b) /\ b.header.data_end <= FILE_WORDS
                              /\ b.header.stack_size >= 3

(* Where the kernel puts the memory of a process. *)
Allocation(pid) == HEAP + pid * FILE_WORDS
Image(p) == Allocation(p)..(Allocation(p) + bflt_allocation_size(processes[p].binary.header) - 1)

(***************************************************************************)
(* exec_from_initrd: its error, "ok" if none, and what it has done.  The   *)
(* error paths delete what was allocated before.  refuse is what the       *)
(* kernel refuses: data, thread, or lock, or nothing.                      *)
(***************************************************************************)
(* Mutant: the thread's data is kept when there is no thread. *)
ExecTablesKeeping(pid, refuse) ==
  IF refuse = "data" THEN tables
  ELSE IF refuse = "thread" THEN [tables EXCEPT !.data = @ \cup {pid}]
  ELSE IF refuse = "lock" THEN tables
  ELSE [data |-> tables.data \cup {pid}, threads |-> tables.threads \cup {pid}]
ExecTables(pid, refuse) ==
  LET data   == [tables EXCEPT !.data = @ \cup {pid}]
      thread == [data EXCEPT !.threads = @ \cup {pid}]
  IN  CASE refuse = "data"   -> tables
        [] refuse = "thread" -> [data EXCEPT !.data = @ \ {pid}]
        [] refuse = "lock"   -> [thread EXCEPT !.data = @ \ {pid}, !.threads = @ \ {pid}]
        [] OTHER             -> thread
exec_from_initrd(pid, name, arguments, refuse) ==
  LET i == jax_find(initrd.files, name)
      b == initrd.files[i].binary
      loaded == bflt_load(b, FileAddress(i), Allocation(pid))
      new == [file |-> i, binary |-> b,
              loaded |-> IF arguments = <<>> THEN loaded ELSE WithArguments(loaded, arguments)]
  IN  IF i = 0
      THEN [value |-> "ENOENT", tables |-> tables, processes |-> processes]
      ELSE IF ~bflt_verify(b.header)
      THEN [value |-> "ENOEXEC", tables |-> tables, processes |-> processes]
      ELSE IF refuse \in {"data", "thread", "lock"}
      THEN [value |-> "ENOMEM", tables |-> ExecTables(pid, refuse), processes |-> processes]
      ELSE [value |-> "ok", tables |-> ExecTables(pid, refuse), processes |-> Put(processes, pid, new)]

-----------------------------------------------------------------------------
(***************************************************************************)
(* early_init.c.  start_process takes an id and makes a root node in slot  *)
(* ROOT_NODE_ADDRESS, which must be empty; exec_from_initrd moves it into  *)
(* the thread with THREAD_SET_ROOT_NODE.                                   *)
(***************************************************************************)
CanPrepare(refuse) == refuse \notin {"endpoint", "node", "copy"} /\ ROOT_NODE_ADDRESS \notin slots
(* The end of start_process: the archive's magic number is looked at first. *)
Started(pid, name, arguments, refuse) ==
  IF initrd.valid THEN exec_from_initrd(pid, name, arguments, refuse)
  ELSE [value |-> "invalid", tables |-> tables, processes |-> processes]

(* The endpoint is allocated, and the VFS server started; its root node    *)
(* has a copy of the endpoint.                                             *)
StartVfsServer(refuse) ==
  LET pid == allocate_pid(pids)
      e   == Started(pid, VFS_SERVER, <<>>, refuse)
      ok  == CanPrepare(refuse) /\ e.value = "ok"
  IN  /\ pc["process_server"] = "start_vfs"
      /\ IF ok THEN Move("process_server", "receive_endpoint", "vfs_server", "start")
         ELSE Goto("process_server", "failed")
      /\ slots' = slots \cup (IF refuse = "endpoint" THEN {} ELSE {ENDPOINT_SLOT})
                      \cup (IF refuse \in {"endpoint", "node"} \/ ok THEN {} ELSE {ROOT_NODE_ADDRESS})
      /\ pids' = IF refuse = "endpoint" THEN pids ELSE pids \cup {pid}
      /\ tables' = IF CanPrepare(refuse) THEN e.tables ELSE tables
      /\ processes' = IF ok THEN e.processes ELSE processes
      /\ UNCHANGED <<initrd, fds, vfs, held>>

(* For the second process the node stays in its slot while the VFS server  *)
(* is asked for the process's root descriptor.                             *)
PrepareInitrdFs(refuse) ==
  /\ pc["process_server"] = "start_fs"
  /\ pids' = pids \cup {allocate_pid(pids)}
  /\ IF CanPrepare(refuse)
     THEN Goto("process_server", "call_new_process")
     ELSE Goto("process_server", "failed")
  /\ slots' = slots \cup (IF refuse = "node" THEN {} ELSE {ROOT_NODE_ADDRESS})
  /\ UNCHANGED <<initrd, tables, processes, fds, vfs, held>>

(* The address and end of the archive are its arguments. *)
ExecInitrdFs(refuse) ==
  LET pid == Max(pids)
      e   == Started(pid, INITRD_FS, <<ARCHIVE, HEAP>>, refuse)
  IN  /\ pc["process_server"] = "exec_fs"
      /\ IF e.value = "ok"
         THEN Move("process_server", "idle", "initrd_fs", "start")
         ELSE Goto("process_server", "failed")
      /\ slots' = IF e.value = "ok" THEN slots \ {ROOT_NODE_ADDRESS} ELSE slots
      /\ tables' = e.tables
      /\ processes' = e.processes
      /\ UNCHANGED <<initrd, pids, fds, vfs, held>>

-----------------------------------------------------------------------------
(***************************************************************************)
(* The VFS server's _start and main_loop.  It has one descriptor at a time *)
(* to send, the one of the last reply.                                     *)
(***************************************************************************)
VfsStart(refuse) ==
  /\ pc["vfs_server"] = "start"
  /\ Goto("vfs_server", IF refuse = "structures" THEN "failed" ELSE "send_endpoint")
  /\ UNCHANGED <<initrd, slots, pids, tables, processes, fds, vfs, held>>

(* Mutant: the process server does not wait for the root's descriptor. *)
SendEndpointOnly ==
  /\ pc["vfs_server"] = "send_endpoint" /\ pc["process_server"] = "receive_endpoint"
  /\ Move("vfs_server", "set_up", "process_server", "start_fs")
  /\ slots' = slots \cup {VFS_ENDPOINT_SLOT}
  /\ UNCHANGED <<initrd, pids, tables, processes, fds, vfs, held>>
SendEndpoint ==
  /\ pc["vfs_server"] = "send_endpoint" /\ pc["process_server"] = "receive_endpoint"
  /\ Move("vfs_server", "set_up", "process_server", "receive_root")
  /\ slots' = slots \cup {VFS_ENDPOINT_SLOT}
  /\ UNCHANGED <<initrd, pids, tables, processes, fds, vfs, held>>

VfsSetUp(oom) ==
  LET r == set_up_filesystem_for_process(vfs, 1, 1, {}, oom)
  IN  /\ pc["vfs_server"] = "set_up"
      /\ Goto("vfs_server", IF r.value = "ok" THEN "send_root" ELSE "failed")
      /\ Handled(r.vfs)
      /\ UNCHANGED <<initrd, slots, pids, tables, processes, fds>>

Sent == vfs.replies[1]
SendRoot ==
  /\ pc["vfs_server"] = "send_root" /\ pc["process_server"] = "receive_root"
  /\ Move("vfs_server", "receive", "process_server", "start_fs")
  /\ slots' = slots \cup {ROOT_FD_SLOT}
  /\ fds' = [fds EXCEPT !["process_server"] = Sent.gives]
  /\ UNCHANGED <<initrd, pids, tables, processes, vfs, held>>

(* handle_vfs_message for VFS_NEW_PROCESS. *)
(* Mutant: a new namespace for the process. *)
NewProcessFlagsNone == {}
NewProcessFlags == {"VFS_SHARE_NAMESPACE"}
CallNewProcess(oom) ==
  /\ pc["process_server"] = "call_new_process" /\ pc["vfs_server"] = "receive"
  /\ LET v == ReplyError(set_up_filesystem_for_process(Received("new_process"), 1, Max(pids),
                                                       NewProcessFlags, oom))
     IN  /\ Handled(v)
         /\ Move("process_server", "receive_fd", "vfs_server", IF v.replies = <<>> THEN "receive" ELSE "reply")
  /\ UNCHANGED <<initrd, slots, pids, tables, processes, fds>>

(* The descriptor is received in slot 2 of the new process's root node. *)
ReplyNewProcess ==
  /\ pc["vfs_server"] = "reply" /\ pc["process_server"] = "receive_fd"
  /\ Move("vfs_server", "receive", "process_server", IF Sent.status = "ok" THEN "exec_fs" ELSE "failed")
  /\ fds' = [fds EXCEPT !["initrd_fs"] = Sent.gives]
  /\ UNCHANGED <<initrd, slots, pids, tables, processes, vfs, held>>

-----------------------------------------------------------------------------
(***************************************************************************)
(* initrd_fs: _start yields forever if the archive is none; otherwise      *)
(* mount_to_root sends the descriptor of its root, and main_loop receives. *)
(***************************************************************************)
InitrdFsStart(refuse) ==
  /\ pc["initrd_fs"] = "start"
  /\ Goto("initrd_fs", IF ~initrd.valid THEN "yielding"
                       ELSE IF refuse = "structures" THEN "failed" ELSE "call_mount")
  /\ UNCHANGED <<initrd, slots, pids, tables, processes, fds, vfs, held>>

(* handle_mount_point_message for FD_MOUNT, with MOUNT_REPLACE. *)
CallMount(oom) ==
  /\ pc["initrd_fs"] = "call_mount" /\ pc["vfs_server"] = "receive"
  /\ \E b \in fds["initrd_fs"] : MountPointMount(b.id, FALSE, oom)
  /\ Move("initrd_fs", "receive_mounted", "vfs_server", "reply")
  /\ UNCHANGED <<initrd, slots, pids, tables, processes, fds>>

ReplyMount ==
  /\ pc["vfs_server"] = "reply" /\ pc["initrd_fs"] = "receive_mounted"
  /\ Move("vfs_server", "receive", "initrd_fs", IF Sent.status = "ok" THEN "receive" ELSE "failed")
  /\ UNCHANGED <<initrd, slots, pids, tables, processes, fds, vfs, held>>

-----------------------------------------------------------------------------
(***************************************************************************)
(* After init_process_table, which looks at none of its results, with all  *)
(* of them good.  A refused table of threads or of data shows as the       *)
(* refusal of what is to be put into it; when the memory of the ids is     *)
(* refused, the code writes through the error number, which is no state of *)
(* this model.                                                             *)
(***************************************************************************)
BootInit ==
  /\ initrd \in [files : Initrd, valid : BOOLEAN]
  /\ pc = [p \in Process |-> IF p = "process_server" THEN "start_vfs" ELSE "none"]
  /\ slots = {}
  /\ pids = {0, 1}
  /\ tables = [data |-> {}, threads |-> {}]
  /\ processes = [p \in {} |-> {}]
  /\ fds = [p \in Process |-> {}]
  /\ vfs = Empty
  /\ held = {}

ProcessServerStep ==
  \/ \E refuse \in {"nothing", "endpoint", "node", "copy", "data", "thread", "lock"} : StartVfsServer(refuse)
  \/ \E refuse \in {"nothing", "node", "copy"} : PrepareInitrdFs(refuse)
  \/ \E refuse \in {"nothing", "data", "thread", "lock"} : ExecInitrdFs(refuse)
VfsServerStep ==
  \/ \E refuse \in {"nothing", "structures"} : VfsStart(refuse)
  \/ \E oom \in Oom({"namespaces", "process", "infos"}) : VfsSetUp(oom)
InitrdFsStep == \E refuse \in {"nothing", "structures"} : InitrdFsStart(refuse)
(* Messages between the process server and the VFS server, and between the *)
(* VFS server and initrd_fs.                                               *)
ProcessServerMessage ==
  \/ SendEndpoint \/ SendRoot \/ ReplyNewProcess
  \/ \E oom \in Oom({"namespaces", "process", "infos"}) : CallNewProcess(oom)
InitrdFsMessage ==
  \/ \E oom \in Oom({"lists", "list_node", "mount_points"}) : CallMount(oom)
  \/ ReplyMount

BootNext ==
  \/ ProcessServerStep \/ VfsServerStep \/ InitrdFsStep
  \/ ProcessServerMessage \/ InitrdFsMessage

(***************************************************************************)
(* The scheduler is round-robin and every process yields or waits in the   *)
(* end, so who can go on does (Ipc's NoStarvation); and two that wait      *)
(* for each other at an endpoint meet.                                     *)
(***************************************************************************)
BootFairness ==
  /\ WF_bootVars(ProcessServerStep) /\ WF_bootVars(VfsServerStep) /\ WF_bootVars(InitrdFsStep)
  /\ WF_bootVars(ProcessServerMessage) /\ WF_bootVars(InitrdFsMessage)
BootSpec == BootInit /\ [][BootNext]_bootVars /\ BootFairness

-----------------------------------------------------------------------------
(***************************************************************************)
(* exec_from_initrd leaves a process with a thread and memory, or with     *)
(* neither, whichever of its steps was refused.  The id of one that has    *)
(* them is marked; nobody unmarks the id of one that was refused.          *)
(***************************************************************************)
ExecAllOrNothing ==
  /\ tables.data = tables.threads
  /\ tables.threads = DOMAIN processes
  /\ tables.threads \subseteq pids /\ pids \subseteq 0..(PID_MAX - 1)

(***************************************************************************)
(* Whichever ids they get, the processes run the files that were asked     *)
(* for, in that order, loaded and relocated as the binary says, with the   *)
(* stack in their own memory.  The stack of initrd_fs is what its          *)
(* _start(initrd_start, initrd_end) expects: the arguments above a word    *)
(* for the return address.                                                 *)
(***************************************************************************)
ImagesRight ==
  \A p \in DOMAIN processes :
    LET process == processes[p]
        loaded  == process.loaded
        h == process.binary.header
    IN  /\ initrd.files[process.file].type = "regular"
        /\ initrd.files[process.file].name = IF p = 2 THEN VFS_SERVER ELSE INITRD_FS
        /\ LoadedRight(process.binary, FileAddress(process.file), Allocation(p), loaded)
        /\ loaded.stack_pointer >= Allocation(p) + bflt_allocation_size(h) - h.stack_size
        /\ p # 2 => /\ loaded.stack_pointer \in Image(p)
                    /\ loaded.memory[loaded.stack_pointer + 1] = ARCHIVE
                    /\ loaded.memory[loaded.stack_pointer + 2] = HEAP

(***************************************************************************)
(* Once initrd_fs serves, its root directory is the root of the namespace  *)
(* that the process server's descriptor is for: what the process server    *)
(* opens from then on is found in the archive.                             *)
(***************************************************************************)
RootShared ==
  pc["initrd_fs"] = "receive" =>
    \A b \in fds["process_server"] : vfs.namespaces[vfs.infos[b.id].namespace].root # SIZE_MAX

(***************************************************************************)
(* Nobody is left waiting: unless an assertion failed somewhere or the     *)
(* archive is none, the process server gets to its end, and both servers   *)
(* get to their main loops and stay there.                                 *)
(***************************************************************************)
Failed == \E p \in Process : pc[p] = "failed"
Booted == /\ pc["process_server"] = "idle"
          /\ pc["vfs_server"] = "receive" /\ pc["initrd_fs"] = "receive"
EventuallyBoots == <>[](Booted \/ Failed)
=============================================================================
