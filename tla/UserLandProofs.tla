--------------------------- MODULE UserLandProofs ---------------------------
(***************************************************************************)
(* Proofs about UserLand: exec_from_initrd is all or nothing, whatever the *)
(* kernel refuses, and the root that initrd_fs mounts is the one of the    *)
(* process server.  The second rests on what VfsServerProofs has about the *)
(* VFS server's handlers: the boot sends it some of its messages.  The     *)
(* third part is about the loader: whatever binaries the archive holds,    *)
(* every process runs the image that its binary describes.                 *)
(***************************************************************************)
EXTENDS UserLand, VfsServerProofs

(***************************************************************************)
(* Which ids are taken, and which processes run (D), where the process     *)
(* server is; the tables are those of the running processes.               *)
(***************************************************************************)
PidsAt(place, used, D) ==
  /\ D \subseteq used /\ used \subseteq {0, 1, 2, 3}
  /\ place = "start_vfs" => used = {0, 1} /\ D = {}
  /\ place \in {"receive_endpoint", "receive_root", "start_fs"} => used = {0, 1, 2} /\ D = {2}
  /\ place \in {"call_new_process", "receive_fd", "exec_fs"} => used = {0, 1, 2, 3} /\ D = {2}
PidsInv ==
  /\ DOMAIN pc = Process
  /\ tables = [data |-> DOMAIN processes, threads |-> DOMAIN processes]
  /\ PidsAt(pc["process_server"], pids, DOMAIN processes)

(***************************************************************************)
(* Who has got how far when another one is where it is.                    *)
(***************************************************************************)
PlacesAt(ps, vs, fs) ==
  /\ ps = "start_vfs" => vs = "none"
  /\ ps \in {"start_fs", "call_new_process", "receive_fd", "exec_fs", "idle"} => vs \in {"receive", "reply"}
  /\ ps # "idle" => fs = "none"

(***************************************************************************)
(* Process 1 is the process server, for which the VFS server makes the     *)
(* first namespace.  The descriptors of S were given out, and are for the  *)
(* root of that namespace.                                                 *)
(***************************************************************************)
Leads(v, h, S) ==
  /\ 1 \in DOMAIN v.processes
  /\ \A b \in S : /\ b \in h /\ b = Info(b.id)
                  /\ v.infos[b.id].namespace = v.processes[1].fs_namespace
Root(v) == v.namespaces[v.processes[1].fs_namespace].root

(***************************************************************************)
(* The VFS server's memory is empty before it has set up process 1, and    *)
(* then its invariant holds; all descriptors of this start are for the     *)
(* root of process 1; and initrd_fs serves what is mounted there.          *)
(***************************************************************************)
MemoryAt(ps, vs, fs, v, h, given) ==
  /\ given \in [Process -> SUBSET h]
  /\ vs \in {"none", "start", "send_endpoint", "set_up"} => v = Empty /\ h = {}
  /\ vs \notin {"receive", "reply"} => \A p \in Process : given[p] = {}
  /\ vs \in {"send_root", "receive", "reply"} =>
       TablesInv(v) /\ HeldInv(v, h) /\ \A p \in Process : Leads(v, h, given[p])
  /\ vs = "send_root" \/ (vs = "reply" /\ ps = "receive_fd") => Leads(v, h, v.replies[1].gives)
  /\ fs = "receive_mounted" /\ v.replies[1].status = "ok" => Root(v) # SIZE_MAX
  /\ fs = "receive" => Root(v) # SIZE_MAX

(* The inductive invariant of BootSpec. *)
BootInv ==
  /\ PidsInv
  /\ PlacesAt(pc["process_server"], pc["vfs_server"], pc["initrd_fs"])
  /\ MemoryAt(pc["process_server"], pc["vfs_server"], pc["initrd_fs"], vfs, held, fds)

-----------------------------------------------------------------------------
(***************************************************************************)
(* Ids and tables.                                                         *)
(***************************************************************************)
(* start_process ends with a process more in all tables, or with none.     *)
StartedOk(e, pid) ==
  /\ e.tables = [data |-> DOMAIN e.processes, threads |-> DOMAIN e.processes]
  /\ DOMAIN e.processes = IF e.value = "ok" THEN DOMAIN processes \cup {pid} ELSE DOMAIN processes
LEMMA StartedTables ==
  ASSUME tables = [data |-> DOMAIN processes, threads |-> DOMAIN processes],
         NEW pid, pid \notin DOMAIN processes, NEW name, NEW arguments, NEW refuse
  PROVE  StartedOk(Started(pid, name, arguments, refuse), pid)
<1> DEFINE D == DOMAIN processes
           i == jax_find(initrd.files, name)
           b == initrd.files[i].binary
           loaded == bflt_load(b, FileAddress(i), Allocation(pid))
           new == [file |-> i, binary |-> b,
                   loaded |-> IF arguments = <<>> THEN loaded ELSE WithArguments(loaded, arguments)]
           more == Put(processes, pid, new)
           e == Started(pid, name, arguments, refuse)
<1>1. ExecTables(pid, refuse) = IF refuse \in {"data", "thread", "lock"} THEN tables
                                ELSE [data |-> D \cup {pid}, threads |-> D \cup {pid}]
  <2> DEFINE E == D \cup {pid}
             data == [tables EXCEPT !.data = @ \cup {pid}]
             thread == [data EXCEPT !.threads = @ \cup {pid}]
  <2>1. E \ {pid} = D
    OBVIOUS
  <2>2. tables = [data |-> D, threads |-> D]
    OBVIOUS
  <2> HIDE DEF D
  <2>3. data = [data |-> E, threads |-> D]
    BY <2>2
  <2> HIDE DEF data, E
  <2>4. thread = [data |-> E, threads |-> E]
    BY <2>3 DEF E
  <2>5. [data EXCEPT !.data = @ \ {pid}] = [data |-> E \ {pid}, threads |-> D]
    BY <2>3
  <2> HIDE DEF thread
  <2>6. [thread EXCEPT !.data = @ \ {pid}, !.threads = @ \ {pid}] = [data |-> E \ {pid}, threads |-> E \ {pid}]
    <3> DEFINE S == E \ {pid}
    <3>1. thread.data \ {pid} = S /\ thread.threads \ {pid} = S
      BY <2>4
    <3> HIDE DEF S
    <3>2. [thread EXCEPT !.data = S, !.threads = S] = [data |-> S, threads |-> S]
      <4> DEFINE x == [thread EXCEPT !.data = S]
                 y == [x EXCEPT !.threads = S]
      <4>1. y = [thread EXCEPT !.data = S, !.threads = S]
        OBVIOUS
      <4>2. x = [data |-> S, threads |-> E]
        BY <2>4
      <4> HIDE DEF x
      <4>3. y = [data |-> S, threads |-> S]
        BY <4>2
      <4> QED
        BY <4>1, <4>3
    <3> QED
      BY <3>1, <3>2, Zenon DEF S
  <2>7. ExecTables(pid, refuse) = CASE refuse = "data"   -> tables
                                    [] refuse = "thread" -> [data EXCEPT !.data = @ \ {pid}]
                                    [] refuse = "lock"   -> [thread EXCEPT !.data = @ \ {pid}, !.threads = @ \ {pid}]
                                    [] OTHER             -> thread
    BY DEF ExecTables, data, thread
  <2> QED
    BY <2>1, <2>2, <2>4, <2>5, <2>6, <2>7 DEF E
<1>2. DOMAIN more = D \cup {pid}
  BY DEF Put
<1>3. \/ \E x \in {"invalid", "ENOENT", "ENOEXEC"} : e = [value |-> x, tables |-> tables, processes |-> processes]
      \/ /\ refuse \in {"data", "thread", "lock"}
         /\ e = [value |-> "ENOMEM", tables |-> ExecTables(pid, refuse), processes |-> processes]
      \/ /\ refuse \notin {"data", "thread", "lock"}
         /\ e = [value |-> "ok", tables |-> ExecTables(pid, refuse), processes |-> more]
  BY DEF Started, exec_from_initrd
<1> HIDE DEF more, e
<1>4. StartedOk(e, pid)
  BY <1>1, <1>2, <1>3 DEF StartedOk
<1> QED
  BY <1>4 DEF e

(* The first two ids that are given out, and the last one.                 *)
LEMMA PidsGiven ==
  /\ allocate_pid({0, 1}) = 2 /\ allocate_pid({0, 1, 2}) = 3
  /\ Max({0, 1, 2, 3}) = 3
<1>1. PID_MAX \in Nat /\ PID_MAX > 3
  BY UserLandAssumption
<1>2. ASSUME NEW n \in Nat, n < PID_MAX, NEW used, \A x \in Nat : x \in used <=> x < n
      PROVE  allocate_pid(used) = n
  <2> DEFINE free == 0..(PID_MAX - 1) \ used
  <2>1. n \in free /\ \A y \in free : y \in Nat /\ n <= y
    BY <1>1, <1>2
  <2>2. \A x \in free : (\A y \in free : x <= y) => x = n
    BY <2>1
  <2> HIDE DEF free
  <2>3. Min(free) = n
    BY <2>1, <2>2 DEF Min
  <2> QED
    BY <2>1, <2>3 DEF allocate_pid, free
<1>3. /\ \A x \in Nat : x \in {0, 1} <=> x < 2
      /\ \A x \in Nat : x \in {0, 1, 2} <=> x < 3
  OBVIOUS
<1>4. Max({0, 1, 2, 3}) = 3
  <2>1. \A x \in {0, 1, 2, 3} : (\A y \in {0, 1, 2, 3} : x >= y) <=> x = 3
    OBVIOUS
  <2> QED
    BY <2>1 DEF Max
<1>5. allocate_pid({0, 1}) = 2
  BY <1>1, <1>2, <1>3
<1>6. allocate_pid({0, 1, 2}) = 3
  BY <1>1, <1>2, <1>3
<1> QED
  BY <1>4, <1>5, <1>6

(* Where a step takes the processes.                                       *)
Are(f, ps, vs, fs) ==
  DOMAIN f = Process /\ f["process_server"] = ps /\ f["vfs_server"] = vs /\ f["initrd_fs"] = fs
LEMMA Places ==
  ASSUME DOMAIN pc = Process
  PROVE  LET ps == pc["process_server"]
             vs == pc["vfs_server"]
             fs == pc["initrd_fs"]
         IN  /\ \A x : Goto("process_server", x) => Are(pc', x, vs, fs)
             /\ \A x : Goto("vfs_server", x) => Are(pc', ps, x, fs)
             /\ \A x : Goto("initrd_fs", x) => Are(pc', ps, vs, x)
             /\ \A x, y : Move("process_server", x, "vfs_server", y) => Are(pc', x, y, fs)
             /\ \A x, y : Move("vfs_server", x, "process_server", y) => Are(pc', y, x, fs)
             /\ \A x, y : Move("process_server", x, "initrd_fs", y) => Are(pc', x, vs, y)
             /\ \A x, y : Move("initrd_fs", x, "vfs_server", y) => Are(pc', ps, y, x)
             /\ \A x, y : Move("vfs_server", x, "initrd_fs", y) => Are(pc', ps, x, y)
  BY DEF Goto, Move, Are, Process

(* No step breaks it: the ids and tables change where processes start.     *)
LEMMA PidsStep ==
  ASSUME PidsInv, [BootNext]_bootVars
  PROVE  PidsInv'
<1> DEFINE ps == pc["process_server"]
           D == DOMAIN processes
<1>0. /\ DOMAIN pc = Process /\ tables = [data |-> D, threads |-> D]
      /\ PidsAt(ps, pids, D)
  BY DEF PidsInv
<1>2. ASSUME UNCHANGED <<pids, tables, processes>>, DOMAIN pc' = Process, PidsAt(ps', pids, D)
      PROVE  PidsInv'
  BY <1>0, <1>2 DEF PidsInv
<1>3. ASSUME NEW refuse, StartVfsServer(refuse) PROVE PidsInv'
  <2> DEFINE e == Started(2, VFS_SERVER, <<>>, refuse)
             ok == CanPrepare(refuse) /\ e.value = "ok"
  <2>1. ps = "start_vfs"
    BY <1>3 DEF StartVfsServer
  <2>2. pids = {0, 1} /\ D = {}
    BY <1>0, <2>1 DEF PidsAt
  <2>3. allocate_pid(pids) = 2
    BY <2>2, PidsGiven
  <2>4. /\ e.tables = [data |-> DOMAIN e.processes, threads |-> DOMAIN e.processes]
        /\ DOMAIN e.processes = IF e.value = "ok" THEN D \cup {2} ELSE D
    <3>1. 2 \notin DOMAIN processes
      BY <2>2
    <3>2. tables = [data |-> DOMAIN processes, threads |-> DOMAIN processes]
      BY <1>0
    <3>3. StartedOk(Started(2, VFS_SERVER, <<>>, refuse), 2)
      BY <3>1, <3>2, StartedTables
    <3> QED
      BY <3>3 DEF StartedOk
  <2>5. /\ pids' = IF refuse = "endpoint" THEN pids ELSE pids \cup {2}
        /\ tables' = IF CanPrepare(refuse) THEN e.tables ELSE tables
        /\ processes' = IF ok THEN e.processes ELSE processes
        /\ IF ok THEN Move("process_server", "receive_endpoint", "vfs_server", "start")
           ELSE Goto("process_server", "failed")
    BY <1>3, <2>3 DEF StartVfsServer
  <2>6. ok => refuse # "endpoint"
    BY DEF CanPrepare
  <2> HIDE DEF e
  <2>7. CASE ok
    <3>1. DOMAIN pc' = Process /\ ps' = "receive_endpoint"
      BY <1>0, <2>5, <2>7, Places DEF Are
    <3>2. pids' = {0, 1, 2} /\ D' = {2} /\ tables' = [data |-> D', threads |-> D']
      BY <2>2, <2>4, <2>5, <2>6, <2>7
    <3>3. PidsAt("receive_endpoint", {0, 1, 2}, {2})
      BY DEF PidsAt
    <3> QED
      BY <3>1, <3>2, <3>3 DEF PidsInv
  <2>8. CASE ~ok
    <3>1. DOMAIN pc' = Process /\ ps' = "failed"
      BY <1>0, <2>5, <2>8, Places DEF Are
    <3>2. processes' = processes /\ D' = D
      BY <2>5, <2>8
    <3>3. tables' = [data |-> D, threads |-> D]
      BY <1>0, <2>4, <2>5, <2>8
    <3>4. PidsAt("failed", pids', {})
      BY <2>2, <2>5 DEF PidsAt
    <3> QED
      BY <2>2, <3>1, <3>2, <3>3, <3>4 DEF PidsInv
  <2> QED
    BY <2>7, <2>8
<1>4. ASSUME NEW refuse, PrepareInitrdFs(refuse) PROVE PidsInv'
  <2>1. ps = "start_fs"
    BY <1>4 DEF PrepareInitrdFs
  <2>2. pids = {0, 1, 2} /\ D = {2}
    BY <1>0, <2>1 DEF PidsAt
  <2>3. /\ pids' = pids \cup {allocate_pid(pids)} /\ UNCHANGED <<tables, processes>>
        /\ Goto("process_server", "failed") \/ Goto("process_server", "call_new_process")
    BY <1>4 DEF PrepareInitrdFs
  <2>4. pids' = {0, 1, 2, 3}
    BY <2>2, <2>3, PidsGiven
  <2>5. DOMAIN pc' = Process /\ ps' \in {"failed", "call_new_process"}
    BY <1>0, <2>3, Places DEF Are
  <2>6. PidsAt("failed", {0, 1, 2, 3}, {2}) /\ PidsAt("call_new_process", {0, 1, 2, 3}, {2})
    BY DEF PidsAt
  <2> QED
    BY <1>0, <2>2, <2>3, <2>4, <2>5, <2>6 DEF PidsInv
<1>5. ASSUME NEW refuse, ExecInitrdFs(refuse) PROVE PidsInv'
  <2> DEFINE e == Started(3, INITRD_FS, <<ARCHIVE, HEAP>>, refuse)
  <2>1. ps = "exec_fs"
    BY <1>5 DEF ExecInitrdFs
  <2>2. pids = {0, 1, 2, 3} /\ D = {2}
    BY <1>0, <2>1 DEF PidsAt
  <2>3. Max(pids) = 3
    BY <2>2, PidsGiven
  <2>4. /\ e.tables = [data |-> DOMAIN e.processes, threads |-> DOMAIN e.processes]
        /\ DOMAIN e.processes = IF e.value = "ok" THEN D \cup {3} ELSE D
    <3>1. 3 \notin DOMAIN processes
      BY <2>2
    <3>2. tables = [data |-> DOMAIN processes, threads |-> DOMAIN processes]
      BY <1>0
    <3>3. StartedOk(Started(3, INITRD_FS, <<ARCHIVE, HEAP>>, refuse), 3)
      BY <3>1, <3>2, StartedTables
    <3> QED
      BY <3>3 DEF StartedOk
  <2>5. /\ pids' = pids /\ tables' = e.tables /\ processes' = e.processes
        /\ \/ Move("process_server", "idle", "initrd_fs", "start")
           \/ Goto("process_server", "failed")
    BY <1>5, <2>3 DEF ExecInitrdFs
  <2> HIDE DEF e
  <2>6. DOMAIN pc' = Process /\ ps' \in {"idle", "failed"}
    BY <1>0, <2>5, Places DEF Are
  <2>7. PidsAt(ps', {0, 1, 2, 3}, D')
    BY <2>2, <2>4, <2>5, <2>6 DEF PidsAt
  <2> QED
    BY <2>2, <2>4, <2>5, <2>6, <2>7 DEF PidsInv
<1>6. CASE VfsServerStep
  <2>1. UNCHANGED <<pids, tables, processes>> /\ \E x : Goto("vfs_server", x)
    BY <1>6 DEF VfsServerStep, VfsStart, VfsSetUp
  <2>2. DOMAIN pc' = Process /\ ps' = ps
    BY <1>0, <2>1, Places DEF Are
  <2> QED
    BY <1>0, <1>2, <2>1, <2>2
<1>7. CASE InitrdFsStep
  <2>1. UNCHANGED <<pids, tables, processes>> /\ \E x : Goto("initrd_fs", x)
    BY <1>7 DEF InitrdFsStep, InitrdFsStart
  <2>2. DOMAIN pc' = Process /\ ps' = ps
    BY <1>0, <2>1, Places DEF Are
  <2> QED
    BY <1>0, <1>2, <2>1, <2>2
<1>8. CASE SendEndpoint
  <2>1. /\ UNCHANGED <<pids, tables, processes>> /\ ps = "receive_endpoint"
        /\ Move("vfs_server", "set_up", "process_server", "receive_root")
    BY <1>8 DEF SendEndpoint
  <2>2. DOMAIN pc' = Process /\ ps' = "receive_root"
    BY <1>0, <2>1, Places DEF Are
  <2>3. PidsAt("receive_root", pids, D)
    BY <1>0, <2>1 DEF PidsAt
  <2> QED
    BY <1>2, <2>1, <2>2, <2>3
<1>9. CASE SendRoot
  <2>1. /\ UNCHANGED <<pids, tables, processes>> /\ ps = "receive_root"
        /\ Move("vfs_server", "receive", "process_server", "start_fs")
    BY <1>9 DEF SendRoot
  <2>2. DOMAIN pc' = Process /\ ps' = "start_fs"
    BY <1>0, <2>1, Places DEF Are
  <2>3. PidsAt("start_fs", pids, D)
    BY <1>0, <2>1 DEF PidsAt
  <2> QED
    BY <1>2, <2>1, <2>2, <2>3
<1>10. ASSUME NEW oom, CallNewProcess(oom) PROVE PidsInv'
  <2>1. /\ UNCHANGED <<pids, tables, processes>> /\ ps = "call_new_process"
        /\ \E x : Move("process_server", "receive_fd", "vfs_server", x)
    BY <1>10 DEF CallNewProcess
  <2>2. DOMAIN pc' = Process /\ ps' = "receive_fd"
    BY <1>0, <2>1, Places DEF Are
  <2>3. PidsAt("receive_fd", pids, D)
    BY <1>0, <2>1 DEF PidsAt
  <2> QED
    BY <1>2, <2>1, <2>2, <2>3
<1>11. CASE ReplyNewProcess
  <2>1. /\ UNCHANGED <<pids, tables, processes>> /\ ps = "receive_fd"
        /\ \E x \in {"exec_fs", "failed"} : Move("vfs_server", "receive", "process_server", x)
    BY <1>11 DEF ReplyNewProcess
  <2>2. DOMAIN pc' = Process /\ ps' \in {"exec_fs", "failed"}
    BY <1>0, <2>1, Places DEF Are
  <2>3. PidsAt("exec_fs", pids, D) /\ PidsAt("failed", pids, D)
    BY <1>0, <2>1 DEF PidsAt
  <2> QED
    BY <1>2, <2>1, <2>2, <2>3
<1>12. ASSUME NEW oom, CallMount(oom) PROVE PidsInv'
  <2>1. /\ UNCHANGED <<pids, tables, processes>>
        /\ Move("initrd_fs", "receive_mounted", "vfs_server", "reply")
    BY <1>12 DEF CallMount
  <2>2. DOMAIN pc' = Process /\ ps' = ps
    BY <1>0, <2>1, Places DEF Are
  <2> QED
    BY <1>0, <1>2, <2>1, <2>2
<1>13. CASE ReplyMount
  <2>1. /\ UNCHANGED <<pids, tables, processes>>
        /\ \E x : Move("vfs_server", "receive", "initrd_fs", x)
    BY <1>13 DEF ReplyMount
  <2>2. DOMAIN pc' = Process /\ ps' = ps
    BY <1>0, <2>1, Places DEF Are
  <2> QED
    BY <1>0, <1>2, <2>1, <2>2
<1>14. CASE UNCHANGED bootVars
  BY <1>0, <1>2, <1>14 DEF bootVars
<1> QED
  BY <1>3, <1>4, <1>5, <1>6, <1>7, <1>8, <1>9, <1>10, <1>11, <1>12, <1>13, <1>14
     DEF BootNext, ProcessServerStep, ProcessServerMessage, InitrdFsMessage

(* It holds before the first process is started.                           *)
LEMMA PidsStart == BootInit => PidsInv
<1> SUFFICES ASSUME BootInit PROVE PidsInv
  OBVIOUS
<1>1. DOMAIN processes = {}
  BY DEF BootInit
<1>2. DOMAIN pc = Process /\ pc["process_server"] = "start_vfs"
  BY DEF BootInit, Process
<1>3. PidsAt("start_vfs", {0, 1}, {})
  BY DEF PidsAt
<1>4. pids = {0, 1} /\ tables = [data |-> {}, threads |-> {}]
  BY DEF BootInit
<1> QED
  BY <1>1, <1>2, <1>3, <1>4 DEF PidsInv

(***************************************************************************)
(* Whichever of exec_from_initrd's steps the kernel refuses: a process has *)
(* a thread and memory, or neither.  The ids of those that have them are   *)
(* marked; nothing is said of the ids of those that were refused.          *)
(***************************************************************************)
THEOREM ExecCorrect == BootSpec => []ExecAllOrNothing
<1>1. BootInit => PidsInv
  BY PidsStart
<1>2. PidsInv /\ [BootNext]_bootVars => PidsInv'
  BY PidsStep
<1>3. PidsInv => ExecAllOrNothing
  <2>1. {0, 1, 2, 3} \subseteq 0..(PID_MAX - 1)
    BY UserLandAssumption
  <2> QED
    BY <2>1 DEF PidsInv, PidsAt, ExecAllOrNothing
<1> QED
  BY <1>1, <1>2, <1>3, PTL DEF BootSpec

-----------------------------------------------------------------------------
(***************************************************************************)
(* The VFS server's part.                                                  *)
(***************************************************************************)
(* What main_loop keeps of a handler's memory.                             *)
LEMMA HandledState ==
  ASSUME NEW w \in VfsState, Handled(w)
  PROVE  /\ vfs' \in VfsState /\ SameTables(w, vfs') /\ vfs'.replies = w.replies
         /\ held' = held \cup Given(w) /\ w.met \subseteq Calls
<1> DEFINE x == [w EXCEPT !.storage = @ \ w.transferred, !.transferred = {}]
<1>1. w.met \subseteq Calls /\ vfs' = x /\ held' = held \cup Given(w)
  BY DEF Handled, Given
<1>2. x \in VfsState /\ SameTables(w, x) /\ x.replies = w.replies
  BY DEF VfsState, SameTables
<1> HIDE DEF x
<1> QED
  BY <1>1, <1>2

(* The one descriptor that comes with an answer.                           *)
LEMMA GivenOne ==
  ASSUME NEW w, NEW d, NEW status, w.replies = <<[status |-> status, gives |-> {Info(d)}]>>
  PROVE  Given(w) = {Info(d)} /\ w.replies[1].gives = {Info(d)}
<1>1. DOMAIN w.replies = {1} /\ w.replies[1].gives = {Info(d)}
  OBVIOUS
<1>2. Info(d) # FileDescriptor
  BY DEF Info, FileDescriptor
<1> HIDE DEF Info
<1> QED
  BY <1>1, <1>2 DEF Given

(* The server's first process is set up, and its descriptor is for the     *)
(* root of its namespace.                                                  *)
LEMMA FirstSetUp ==
  ASSUME Calls \cap MapCalls = {}, vfs = Empty, held = {}, NEW oom,
         NEW r, r = set_up_filesystem_for_process(vfs, 1, 1, {}, oom), r.value = "ok", Handled(r.vfs)
  PROVE  VfsInv' /\ Leads(vfs', held', vfs'.replies[1].gives)
<1> DEFINE p == 1
           none == {}
           s == set_up_filesystem_for_process(Empty, p, p, none, oom)
           d == SlotFor(Empty, "infos")
<1>1. r = set_up_filesystem_for_process(Empty, p, p, none, oom)
  OBVIOUS
<1>2. TablesInv(Empty) /\ Empty \in VfsState
  BY EmptyInv DEF TablesInv
<1>3. /\ DOMAIN Empty.namespaces = {} /\ Empty.fds = {} /\ DOMAIN Empty.infos = {} /\ Empty.replies = <<>>
      /\ DOMAIN Empty.processes = {}
  BY DEF Empty
<1>4. p \in Pid /\ "VFS_SHARE_NAMESPACE" \notin none
  BY VfsAssumption
<1>5. \A n \in DOMAIN Empty.namespaces : Empty.namespaces[n].references > 0
  BY <1>3
<1>6. r.vfs.met \cap MapCalls = {}
  BY DEF Handled
<1> HIDE DEF p, none
<1>7. /\ r.vfs \in VfsState
      /\ \/ r.value = "ENOMEM" /\ SameTables(Empty, r.vfs) /\ r.vfs.replies = Empty.replies
         \/ r.value = "ok" /\ \E n \in Id("namespaces") : SetUpDone(Empty, r.vfs, n, p, p, none)
  <2>1. s.vfs.met \cap MapCalls = {}
    BY <1>1, <1>6
  <2>2. /\ s.vfs \in VfsState
        /\ \/ s.value = "ENOMEM" /\ SameTables(Empty, s.vfs) /\ s.vfs.replies = Empty.replies
           \/ s.value = "ok" /\ \E n \in Id("namespaces") : SetUpDone(Empty, s.vfs, n, p, p, none)
    BY <1>2, <1>4, <1>5, <2>1, SetUp
  <2> QED
    BY <1>1, <2>2
<1>8. PICK n \in Id("namespaces") : SetUpDone(Empty, r.vfs, n, p, p, none)
  BY <1>7
<1>9. TablesInv(r.vfs)
  BY <1>2, <1>4, <1>7, <1>8, SetUpInv
<1> DEFINE can == CanModify(Empty, p, none)
<1>10. /\ d \in Id("infos")
       /\ r.vfs.infos = Put(Empty.infos, d, RootOf(n, can, SIZE_MAX))
       /\ r.vfs.processes = Put(Empty.processes, p, [fs_namespace |-> n, can_modify |-> can])
       /\ r.vfs.replies = Append(<<>>, [status |-> "ok", gives |-> {Info(d)}])
       /\ r.vfs.fds = {}
  BY <1>3, <1>4, <1>8 DEF SetUpDone
<1> HIDE DEF d, can
<1>11. /\ d \in DOMAIN r.vfs.infos /\ r.vfs.infos[d].namespace = n
       /\ p \in DOMAIN r.vfs.processes /\ r.vfs.processes[p].fs_namespace = n
  BY <1>10 DEF Put, RootOf
<1>12. r.vfs.replies = <<[status |-> "ok", gives |-> {Info(d)}]>>
  BY <1>10
<1>13. Given(r.vfs) = {Info(d)} /\ r.vfs.replies[1].gives = {Info(d)}
  BY <1>12, GivenOne
<1>14. /\ vfs' \in VfsState /\ SameTables(r.vfs, vfs') /\ vfs'.replies = r.vfs.replies
       /\ held' = {Info(d)}
  BY <1>7, <1>13, HandledState
<1>15. TablesInv(vfs')
  BY <1>9, <1>14, SameInv
<1>16. Info(d) \in Descriptor /\ Info(d).of = "info" /\ Info(d).id = d
  BY <1>10, DescriptorTypes
<1> HIDE DEF Info
<1>17. HeldInv(vfs', held')
  BY <1>10, <1>11, <1>14, <1>16 DEF HeldInv, SameTables
<1>18. Leads(vfs', held', {Info(d)})
  BY <1>11, <1>14, <1>16 DEF Leads, SameTables, p
<1> QED
  BY <1>13, <1>14, <1>15, <1>17, <1>18 DEF VfsInv

(* A process that shares the namespace of the first one gets a descriptor  *)
(* for its root, or none; the descriptors given out before stay what they  *)
(* are.                                                                    *)
LEMMA ProcessAdded ==
  ASSUME VfsInv, Calls \cap MapCalls = {}, 1 \in DOMAIN vfs.processes, NEW new \in Pid, new # 1, NEW oom,
         NewProcess(1, new, NewProcessFlags, oom)
  PROVE  /\ VfsInv'
         /\ \A S : Leads(vfs, held, S) => Leads(vfs', held', S)
         /\ Leads(vfs', held', vfs'.replies[1].gives)
<1> DEFINE p == 1
           v == Received("new_process")
           r == set_up_filesystem_for_process(v, p, new, NewProcessFlags, oom)
           w == ReplyError(r)
<1>1. VfsInv'
  BY ProcessSteps DEF StepOk
<1>2. Handled(w)
  BY DEF NewProcess
<1>3. TablesInv(v) /\ SameTables(vfs, v) /\ v.replies = <<>>
  BY ReceivedState
<1>4. HeldInv(vfs, held)
  BY DEF VfsInv
<1> HIDE DEF v, p
<1>5. v \in VfsState /\ NamespacesInv(v)
  BY <1>3 DEF TablesInv
<1>6. p \in DOMAIN v.processes /\ p # new
  BY <1>3 DEF SameTables, p
<1>7. v.processes[p].fs_namespace \in DOMAIN v.namespaces
  BY <1>5, <1>6 DEF NamespacesInv
<1>8. \A n \in DOMAIN v.namespaces : v.namespaces[n].references > 0
  <2> SUFFICES ASSUME NEW n \in DOMAIN v.namespaces PROVE v.namespaces[n].references > 0
    OBVIOUS
  <2>1. /\ IsFiniteSet(DOMAIN v.processes) /\ Users(v, n) # {}
        /\ v.namespaces[n].references = Cardinality(Users(v, n))
    BY <1>5 DEF NamespacesInv
  <2>2. Users(v, n) \subseteq DOMAIN v.processes
    BY DEF Users
  <2>3. IsFiniteSet(Users(v, n))
    BY <2>1, <2>2, FS_Subset
  <2>4. Cardinality(Users(v, n)) \in Nat /\ Cardinality(Users(v, n)) # 0
    BY <2>1, <2>3, FS_CardinalityType, FS_EmptySet
  <2> QED
    BY <2>1, <2>4
<1>9. r.vfs.met \cap MapCalls = {}
  <2>1. "met" \in DOMAIN v
    BY <1>5 DEF VfsState
  <2>2. Grows(v, r.vfs) /\ Grows(r.vfs, w)
    BY <1>5, HandlersGrow
  <2>3. w.met \subseteq Calls
    BY <1>2 DEF Handled
  <2> HIDE DEF r, w
  <2> QED
    BY <2>1, <2>2, <2>3 DEF Grows
<1>10. /\ r.vfs \in VfsState
       /\ \/ r.value = "ENOMEM" /\ SameTables(v, r.vfs) /\ r.vfs.replies = v.replies
          \/ r.value = "ok" /\ \E n \in Id("namespaces") : SetUpDone(v, r.vfs, n, p, new, NewProcessFlags)
  BY <1>5, <1>7, <1>8, <1>9, SetUp
<1> HIDE DEF r
<1>11. \A b \in held : b.id \in DOMAIN v.infos
  BY <1>3, <1>4 DEF HeldInv, SameTables
<1>12. CASE r.value = "ENOMEM" /\ SameTables(v, r.vfs) /\ r.vfs.replies = v.replies
  <2>1. w = Reply(r.vfs, "ENOMEM", {})
    BY <1>12 DEF ReplyError, return_value
  <2>2. "ENOMEM" \in Status
    BY DEF Status
  <2>3. /\ w \in VfsState /\ SameTables(r.vfs, w)
        /\ w.replies = Append(r.vfs.replies, [status |-> "ENOMEM", gives |-> {}])
    <3>1. {} \in SUBSET (Descriptor \cup {FileDescriptor})
      OBVIOUS
    <3>2. LET x == Reply(r.vfs, "ENOMEM", {})
          IN  /\ x \in VfsState /\ SameTables(r.vfs, x)
              /\ x.replies = Append(r.vfs.replies, [status |-> "ENOMEM", gives |-> {}])
      BY <1>10, <2>2, <3>1, ReplyState
    <3> QED
      BY <2>1, <3>2
  <2> HIDE DEF w
  <2>4. w.replies[1].gives = {}
    BY <1>3, <1>12, <2>3
  <2>5. /\ SameTables(w, vfs') /\ vfs'.replies = w.replies /\ held \subseteq held'
    BY <1>2, <2>3, HandledState
  <2>6. vfs'.processes = vfs.processes /\ vfs'.infos = vfs.infos
    BY <1>3, <1>12, <2>3, <2>5 DEF SameTables
  <2>7. \A S : Leads(vfs, held, S) => Leads(vfs', held', S)
    BY <2>5, <2>6 DEF Leads
  <2>8. Leads(vfs', held', {})
    BY <2>6 DEF Leads
  <2> QED
    BY <1>1, <2>4, <2>5, <2>7, <2>8
<1>13. ASSUME r.value = "ok", NEW n \in Id("namespaces"), SetUpDone(v, r.vfs, n, p, new, NewProcessFlags)
       PROVE  /\ \A S : Leads(vfs, held, S) => Leads(vfs', held', S)
              /\ Leads(vfs', held', vfs'.replies[1].gives)
  <2> DEFINE d == SlotFor(v, "infos")
             can == CanModify(v, p, NewProcessFlags)
             root == v.namespaces[n].root
  <2>1. w = r.vfs
    BY <1>13 DEF ReplyError
  <2>2. "VFS_SHARE_NAMESPACE" \in NewProcessFlags
    BY DEF NewProcessFlags
  <2>3. /\ d \in Id("infos") /\ d \notin DOMAIN v.infos
        /\ n = v.processes[p].fs_namespace
        /\ w.infos = Put(v.infos, d, RootOf(n, can, root))
        /\ w.processes = Put(v.processes, new, [fs_namespace |-> n, can_modify |-> can])
        /\ w.replies = Append(<<>>, [status |-> "ok", gives |-> {Info(d)}])
    BY <1>3, <1>13, <2>1, <2>2 DEF SetUpDone
  <2> HIDE DEF w, d, can, root
  <2>4. /\ w.infos[d].namespace = n /\ \A i \in DOMAIN v.infos : w.infos[i] = v.infos[i]
        /\ p \in DOMAIN w.processes /\ w.processes[p] = v.processes[p]
    BY <1>6, <2>3 DEF Put, RootOf
  <2>5. w.replies = <<[status |-> "ok", gives |-> {Info(d)}]>>
    BY <2>3
  <2>6. Given(w) = {Info(d)} /\ w.replies[1].gives = {Info(d)}
    BY <2>5, GivenOne
  <2>7. /\ SameTables(w, vfs') /\ vfs'.replies = w.replies /\ held' = held \cup {Info(d)}
    BY <1>2, <1>10, <2>1, <2>6, HandledState
  <2>8. Info(d).id = d
    BY DEF Info
  <2>9. vfs'.processes = w.processes /\ vfs'.infos = w.infos /\ v.processes = vfs.processes /\ v.infos = vfs.infos
    BY <1>3, <2>7 DEF SameTables
  <2> HIDE DEF Info
  <2>10. Leads(vfs', held', {Info(d)})
    BY <2>3, <2>4, <2>7, <2>8, <2>9 DEF Leads, p
  <2>11. ASSUME NEW S, Leads(vfs, held, S) PROVE Leads(vfs', held', S)
    BY <1>11, <2>4, <2>7, <2>9, <2>11 DEF Leads, p
  <2> QED
    BY <2>6, <2>7, <2>10, <2>11
<1> QED
  BY <1>1, <1>10, <1>12, <1>13

(* A mount on a descriptor for the root of process 1 gives it a root, if   *)
(* it succeeds, and leaves the descriptors what they are.                  *)
LEMMA RootMounted ==
  ASSUME VfsInv, Calls \cap MapCalls = {}, NEW b, Leads(vfs, held, {b}), NEW oom,
         MountPointMount(b.id, FALSE, oom)
  PROVE  /\ VfsInv'
         /\ \A S : Leads(vfs, held, S) => Leads(vfs', held', S)
         /\ vfs'.replies[1].status = "ok" => Root(vfs') # SIZE_MAX
<1> DEFINE no == FALSE
           d == b.id
           v == Received("mount")
           x == Entered(v, d)
           r == mount(x, x.infos[d], no, oom)
           y == return_value(r.vfs, r.value)
           w == Left(y, d)
<1>1. /\ 1 \in DOMAIN vfs.processes /\ Info(d) \in held
      /\ vfs.infos[d].namespace = vfs.processes[1].fs_namespace
  BY DEF Leads
<1>2. VfsInv'
  BY <1>1, MountSteps DEF StepOk
<1>3. Handled(w)
  BY DEF MountPointMount
<1>4. TablesInv(v) /\ HeldInv(v, held) /\ SameTables(vfs, v) /\ v.replies = <<>>
  BY ReceivedState
<1> HIDE DEF v, d, no
<1>5. d \in DOMAIN v.infos /\ d \notin v.fds /\ d \in Id("infos") /\ d \in Nat
  <2>1. v.infos \in Table(Id("infos"), DirectoryInfo)
    BY <1>4 DEF TablesInv, VfsState
  <2>2. Info(d).id = d /\ Info(d).of # "slot"
    BY DEF Info
  <2>3. d \in DOMAIN v.infos /\ d \notin v.fds
    BY <1>1, <1>4, <2>2 DEF HeldInv
  <2>4. "infos" \in Kind
    BY DEF Kind
  <2>5. d \in Id("infos")
    BY <2>1, <2>3, IsTable
  <2> QED
    BY <2>3, <2>4, <2>5, SlotNumbers
<1>6. /\ TablesInv(x) /\ HeldInv(x, held) /\ SameButInfos(v, x, <<"infos", d>>)
      /\ x.infos[d].namespace = v.infos[d].namespace
      /\ x.infos[d].mount_point = v.namespaces[v.infos[d].namespace].root
      /\ \A j \in DOMAIN v.infos : x.infos[j].namespace = v.infos[j].namespace
  BY <1>4, <1>5, EnteredState
<1> HIDE DEF x
<1>7. /\ x.processes = v.processes /\ x.namespaces = v.namespaces /\ x.replies = <<>>
      /\ DOMAIN x.infos = DOMAIN v.infos
  BY <1>4, <1>6 DEF SameButInfos
<1>8. x \in VfsState /\ InfosInv(x)
  BY <1>6 DEF TablesInv
<1> DEFINE i == x.infos[d]
           n == i.namespace
<1>9. /\ i \in DirectoryInfo /\ i.namespace \in DOMAIN x.namespaces
      /\ i.mount_point = x.namespaces[i.namespace].root
      /\ i.can_modify => \E p \in Users(x, i.namespace) : x.processes[p].can_modify
  <2>1. x.infos \in Table(Id("infos"), DirectoryInfo) /\ d \in DOMAIN x.infos
    BY <1>5, <1>7, <1>8 DEF VfsState
  <2>2. i \in DirectoryInfo
    BY <2>1, IsTable
  <2>3. i.mount_point = x.namespaces[i.namespace].root
    BY <1>6, <1>7
  <2> QED
    BY <1>8, <2>1, <2>2, <2>3 DEF InfosInv
<1> HIDE DEF i
<1>10. r = mount(x, i, no, oom) /\ no \in BOOLEAN
  BY DEF i, no
<1>11. r.vfs.met \cap MapCalls = {}
  <2>1. Grows(x, r.vfs) /\ Grows(r.vfs, y) /\ Grows(y, w)
    BY <1>8, HandlersGrow
  <2>2. w.met \subseteq Calls
    BY <1>3 DEF Handled
  <2>3. "met" \in DOMAIN x
    BY <1>8 DEF VfsState
  <2> HIDE DEF r, y, w
  <2> QED
    BY <2>1, <2>2, <2>3 DEF Grows
<1>12. MountEffect(x, r.vfs, r.value, n)
  <2> DEFINE s == mount(x, i, no, oom)
  <2>1. s.vfs.met \cap MapCalls = {}
    BY <1>10, <1>11
  <2>2. MountEffect(x, s.vfs, s.value, i.namespace)
    BY <1>6, <1>9, <1>10, <2>1, MountResult
  <2> QED
    BY <1>10, <2>2
<1> HIDE DEF r
<1>13. /\ r.vfs \in VfsState /\ r.value \in Status /\ r.vfs.processes = x.processes
       /\ r.vfs.infos = x.infos /\ r.vfs.replies = <<>>
       /\ r.value = "ok" => r.vfs.namespaces[n].root # SIZE_MAX
  BY <1>7, <1>12 DEF MountEffect, TablesInv
<1> HIDE DEF n
<1>14. /\ y \in VfsState /\ SameTables(r.vfs, y)
       /\ y.replies = Append(<<>>, [status |-> r.value, gives |-> {}])
  <2>1. {} \in SUBSET (Descriptor \cup {FileDescriptor})
    OBVIOUS
  <2>2. LET z == Reply(r.vfs, r.value, {})
        IN  /\ z \in VfsState /\ SameTables(r.vfs, z)
            /\ z.replies = Append(r.vfs.replies, [status |-> r.value, gives |-> {}])
    BY <1>13, <2>1, ReplyState
  <2>3. y = Reply(r.vfs, r.value, {})
    BY DEF return_value
  <2> QED
    BY <1>13, <2>2, <2>3
<1> HIDE DEF y
<1>15. w \in VfsState /\ SameTables(y, w) /\ w.replies = y.replies
  <2>1. "infos" \in Kind
    BY DEF Kind
  <2>2. Unlock(y, "infos", d) \in VfsState /\ SameButLocks(y, Unlock(y, "infos", d))
    BY <1>5, <1>14, <2>1, LockState
  <2>3. w = Unlock(y, "infos", d)
    BY DEF Left
  <2> QED
    BY <2>2, <2>3 DEF SameButLocks
<1> HIDE DEF w
<1>16. SameTables(w, vfs') /\ vfs'.replies = w.replies /\ held \subseteq held'
  BY <1>3, <1>15, HandledState
<1>17. /\ vfs'.processes = vfs.processes
       /\ \A j \in DOMAIN vfs.infos : vfs'.infos[j].namespace = vfs.infos[j].namespace
       /\ vfs'.namespaces = r.vfs.namespaces /\ vfs.infos = v.infos
  BY <1>4, <1>6, <1>7, <1>13, <1>14, <1>15, <1>16 DEF SameTables
<1>18. n = vfs'.processes[1].fs_namespace
  BY <1>1, <1>6, <1>17 DEF n, i, d
<1>19. vfs'.replies[1].status = r.value
  BY <1>14, <1>15, <1>16
<1>20. ASSUME NEW S, Leads(vfs, held, S) PROVE Leads(vfs', held', S)
  <2>1. \A c \in held : c.id \in DOMAIN vfs.infos
    BY DEF VfsInv, HeldInv
  <2> QED
    BY <1>16, <1>17, <1>20, <2>1 DEF Leads
<1> QED
  BY <1>2, <1>13, <1>17, <1>18, <1>19, <1>20 DEF Root

-----------------------------------------------------------------------------
(***************************************************************************)
(* The start of the user land.                                             *)
(***************************************************************************)
(* A step that leaves the VFS server's memory alone.                       *)
LEMMA MemoryKept ==
  ASSUME BootInv, UNCHANGED <<vfs, held, fds>>, NEW ps, NEW vs, NEW fs, Are(pc', ps, vs, fs),
         PidsInv', PlacesAt(ps, vs, fs), MemoryAt(ps, vs, fs, vfs, held, fds)
  PROVE  BootInv'
<1>1. pc'["process_server"] = ps /\ pc'["vfs_server"] = vs /\ pc'["initrd_fs"] = fs
  BY DEF Are
<1> QED
  BY <1>1 DEF BootInv

(* Nobody waits for what will not come, and the descriptors are right,     *)
(* after every step.                                                       *)
LEMMA BootStep ==
  ASSUME BootInv, [BootNext]_bootVars, Calls \cap MapCalls = {}
  PROVE  BootInv'
<1> DEFINE ps == pc["process_server"]
           vs == pc["vfs_server"]
           fs == pc["initrd_fs"]
<1>0. /\ DOMAIN pc = Process /\ PlacesAt(ps, vs, fs) /\ MemoryAt(ps, vs, fs, vfs, held, fds)
      /\ PidsInv /\ PidsInv'
  BY PidsStep DEF BootInv, PidsInv
<1>1. ASSUME NEW refuse, StartVfsServer(refuse) PROVE BootInv'
  <2>1. /\ UNCHANGED <<vfs, held, fds>> /\ ps = "start_vfs"
        /\ \/ Move("process_server", "receive_endpoint", "vfs_server", "start")
           \/ Goto("process_server", "failed")
    BY <1>1 DEF StartVfsServer
  <2>2. vs = "none" /\ fs = "none"
    BY <1>0, <2>1 DEF PlacesAt
  <2>3. Are(pc', "receive_endpoint", "start", "none") \/ Are(pc', "failed", "none", "none")
    BY <1>0, <2>1, <2>2, Places
  <2>4. PlacesAt("receive_endpoint", "start", "none") /\ PlacesAt("failed", "none", "none")
    BY DEF PlacesAt
  <2>5. /\ MemoryAt("receive_endpoint", "start", "none", vfs, held, fds)
        /\ MemoryAt("failed", "none", "none", vfs, held, fds)
    BY <1>0, <2>2 DEF MemoryAt
  <2> QED
    BY <1>0, <2>1, <2>3, <2>4, <2>5, MemoryKept
<1>2. ASSUME NEW refuse, PrepareInitrdFs(refuse) PROVE BootInv'
  <2>1. /\ UNCHANGED <<vfs, held, fds>> /\ ps = "start_fs"
        /\ Goto("process_server", "call_new_process") \/ Goto("process_server", "failed")
    BY <1>2 DEF PrepareInitrdFs
  <2>2. vs \in {"receive", "reply"} /\ fs = "none"
    BY <1>0, <2>1 DEF PlacesAt
  <2>3. Are(pc', "call_new_process", vs, "none") \/ Are(pc', "failed", vs, "none")
    BY <1>0, <2>1, <2>2, Places
  <2>4. PlacesAt("call_new_process", vs, "none") /\ PlacesAt("failed", vs, "none")
    BY <2>2 DEF PlacesAt
  <2>5. /\ MemoryAt("call_new_process", vs, "none", vfs, held, fds)
        /\ MemoryAt("failed", vs, "none", vfs, held, fds)
    BY <1>0, <2>2 DEF MemoryAt
  <2> QED
    BY <1>0, <2>1, <2>3, <2>4, <2>5, MemoryKept
<1>3. ASSUME NEW refuse, ExecInitrdFs(refuse) PROVE BootInv'
  <2>1. /\ UNCHANGED <<vfs, held, fds>> /\ ps = "exec_fs"
        /\ Move("process_server", "idle", "initrd_fs", "start") \/ Goto("process_server", "failed")
    BY <1>3 DEF ExecInitrdFs
  <2>2. vs \in {"receive", "reply"} /\ fs = "none"
    BY <1>0, <2>1 DEF PlacesAt
  <2>3. Are(pc', "idle", vs, "start") \/ Are(pc', "failed", vs, "none")
    BY <1>0, <2>1, <2>2, Places
  <2>4. PlacesAt("idle", vs, "start") /\ PlacesAt("failed", vs, "none")
    BY <2>2 DEF PlacesAt
  <2>5. /\ MemoryAt("idle", vs, "start", vfs, held, fds)
        /\ MemoryAt("failed", vs, "none", vfs, held, fds)
    BY <1>0, <2>2 DEF MemoryAt
  <2> QED
    BY <1>0, <2>1, <2>3, <2>4, <2>5, MemoryKept
<1>4. ASSUME NEW refuse, VfsStart(refuse) PROVE BootInv'
  <2>1. /\ UNCHANGED <<vfs, held, fds>> /\ vs = "start"
        /\ Goto("vfs_server", "failed") \/ Goto("vfs_server", "send_endpoint")
    BY <1>4 DEF VfsStart
  <2>2. fs = "none" /\ ps \notin {"start_vfs", "start_fs", "call_new_process", "receive_fd", "exec_fs", "idle"}
    BY <1>0, <2>1 DEF PlacesAt
  <2>3. Are(pc', ps, "send_endpoint", "none") \/ Are(pc', ps, "failed", "none")
    BY <1>0, <2>1, <2>2, Places
  <2>4. PlacesAt(ps, "send_endpoint", "none") /\ PlacesAt(ps, "failed", "none")
    BY <2>2 DEF PlacesAt
  <2>5. /\ MemoryAt(ps, "send_endpoint", "none", vfs, held, fds)
        /\ MemoryAt(ps, "failed", "none", vfs, held, fds)
    BY <1>0, <2>1, <2>2 DEF MemoryAt
  <2> QED
    BY <1>0, <2>1, <2>3, <2>4, <2>5, MemoryKept
<1>5. CASE SendEndpoint
  <2>1. /\ UNCHANGED <<vfs, held, fds>> /\ vs = "send_endpoint" /\ ps = "receive_endpoint"
        /\ Move("vfs_server", "set_up", "process_server", "receive_root")
    BY <1>5 DEF SendEndpoint
  <2>2. fs = "none"
    BY <1>0, <2>1 DEF PlacesAt
  <2>3. Are(pc', "receive_root", "set_up", "none")
    BY <1>0, <2>1, <2>2, Places
  <2>4. PlacesAt("receive_root", "set_up", "none")
    BY DEF PlacesAt
  <2>5. MemoryAt("receive_root", "set_up", "none", vfs, held, fds)
    BY <1>0, <2>1, <2>2 DEF MemoryAt
  <2> QED
    BY <1>0, <2>1, <2>3, <2>4, <2>5, MemoryKept
<1>6. ASSUME NEW refuse, InitrdFsStart(refuse) PROVE BootInv'
  <2>1. /\ UNCHANGED <<vfs, held, fds>> /\ fs = "start"
        /\ \E x \in {"yielding", "failed", "call_mount"} : Goto("initrd_fs", x)
    BY <1>6 DEF InitrdFsStart
  <2>2. PICK x \in {"yielding", "failed", "call_mount"} : Goto("initrd_fs", x)
    BY <2>1
  <2>3. Are(pc', ps, vs, x)
    BY <1>0, <2>2, Places
  <2>4. PlacesAt(ps, vs, x)
    BY <1>0, <2>1 DEF PlacesAt
  <2>5. MemoryAt(ps, vs, x, vfs, held, fds)
    BY <1>0, <2>1, <2>2 DEF MemoryAt
  <2> QED
    BY <1>0, <2>1, <2>3, <2>4, <2>5, MemoryKept
<1>7. CASE ReplyMount
  <2>1. /\ UNCHANGED <<vfs, held, fds>> /\ vs = "reply" /\ fs = "receive_mounted"
        /\ Move("vfs_server", "receive", "initrd_fs", IF vfs.replies[1].status = "ok" THEN "receive" ELSE "failed")
    BY <1>7 DEF ReplyMount, Sent
  <2> DEFINE x == IF vfs.replies[1].status = "ok" THEN "receive" ELSE "failed"
  <2>2. Are(pc', ps, "receive", x)
    BY <1>0, <2>1, Places
  <2>3. PlacesAt(ps, "receive", x)
    BY <1>0, <2>1 DEF PlacesAt
  <2>4. MemoryAt(ps, "receive", x, vfs, held, fds)
    BY <1>0, <2>1 DEF MemoryAt
  <2> HIDE DEF x
  <2> QED
    BY <1>0, <2>1, <2>2, <2>3, <2>4, MemoryKept
<1>8. CASE UNCHANGED bootVars
  BY <1>0, <1>8 DEF BootInv, bootVars
<1>9. ASSUME NEW oom, VfsSetUp(oom) PROVE BootInv'
  <2> DEFINE r == set_up_filesystem_for_process(vfs, 1, 1, {}, oom)
             x == IF r.value = "ok" THEN "send_root" ELSE "failed"
  <2>1. vs = "set_up" /\ Handled(r.vfs) /\ fds' = fds /\ Goto("vfs_server", x)
    BY <1>9 DEF VfsSetUp
  <2>2. fs = "none" /\ ps \notin {"start_vfs", "start_fs", "call_new_process", "receive_fd", "exec_fs", "idle"}
    BY <1>0, <2>1 DEF PlacesAt
  <2>3. vfs = Empty /\ held = {} /\ fds \in [Process -> SUBSET held] /\ \A p \in Process : fds[p] = {}
    BY <1>0, <2>1 DEF MemoryAt
  <2>4. Are(pc', ps, x, "none")
    BY <1>0, <2>1, <2>2, Places
  <2>5. PlacesAt(ps, x, "none")
    BY <2>2 DEF PlacesAt
  <2>6. fds \in [Process -> SUBSET held']
    BY <2>3
  <2>7. CASE r.value = "ok"
    <3>1. VfsInv' /\ Leads(vfs', held', vfs'.replies[1].gives)
      BY <2>1, <2>3, <2>7, FirstSetUp
    <3>2. TablesInv(vfs') /\ HeldInv(vfs', held') /\ \A p \in Process : Leads(vfs', held', fds[p])
      BY <2>3, <3>1 DEF VfsInv, Leads
    <3>3. MemoryAt(ps, "send_root", "none", vfs', held', fds')
      BY <2>1, <2>3, <2>6, <3>1, <3>2 DEF MemoryAt
    <3> QED
      BY <1>0, <2>4, <2>5, <2>7, <3>3 DEF BootInv, Are
  <2>8. CASE r.value # "ok"
    <3>1. MemoryAt(ps, "failed", "none", vfs', held', fds')
      BY <2>1, <2>3, <2>6 DEF MemoryAt
    <3> HIDE DEF r
    <3> QED
      BY <1>0, <2>4, <2>5, <2>8, <3>1 DEF BootInv, Are
  <2> QED
    BY <2>7, <2>8
<1>10. CASE SendRoot
  <2> DEFINE g == vfs.replies[1].gives
             f == [fds EXCEPT !["process_server"] = g]
  <2>1. /\ vs = "send_root" /\ ps = "receive_root" /\ UNCHANGED <<vfs, held>> /\ fds' = f
        /\ Move("vfs_server", "receive", "process_server", "start_fs")
    BY <1>10 DEF SendRoot, Sent
  <2>2. fs = "none"
    BY <1>0, <2>1 DEF PlacesAt
  <2>3. /\ fds \in [Process -> SUBSET held] /\ Leads(vfs, held, g) /\ TablesInv(vfs) /\ HeldInv(vfs, held)
        /\ \A p \in Process : Leads(vfs, held, fds[p])
    BY <1>0, <2>1 DEF MemoryAt
  <2> HIDE DEF g
  <2>4. f \in [Process -> SUBSET held] /\ \A p \in Process : Leads(vfs, held, f[p])
    <3>1. g \subseteq held
      BY <2>3 DEF Leads
    <3> QED
      BY <2>3, <3>1
  <2> HIDE DEF f
  <2>5. MemoryAt("start_fs", "receive", "none", vfs, held, f)
    BY <2>3, <2>4 DEF MemoryAt
  <2>6. PlacesAt("start_fs", "receive", "none")
    BY DEF PlacesAt
  <2>7. Are(pc', "start_fs", "receive", "none")
    BY <1>0, <2>1, <2>2, Places
  <2> QED
    BY <1>0, <2>1, <2>5, <2>6, <2>7 DEF BootInv, Are
<1>11. ASSUME NEW oom, CallNewProcess(oom) PROVE BootInv'
  <2>1. /\ ps = "call_new_process" /\ vs = "receive" /\ fds' = fds
        /\ NewProcess(1, Max(pids), NewProcessFlags, oom)
        /\ \E x \in {"receive", "reply"} : Move("process_server", "receive_fd", "vfs_server", x)
    BY <1>11 DEF CallNewProcess, NewProcess
  <2>2. fs = "none"
    BY <1>0, <2>1 DEF PlacesAt
  <2>3. /\ fds \in [Process -> SUBSET held] /\ VfsInv
        /\ \A p \in Process : Leads(vfs, held, fds[p])
    BY <1>0, <2>1 DEF MemoryAt, VfsInv
  <2>4. Max(pids) = 3 /\ 3 \in Pid /\ 3 # 1
    <3>1. pids = {0, 1, 2, 3}
      BY <1>0, <2>1 DEF PidsInv, PidsAt
    <3> QED
      BY <3>1, PidsGiven, UserLandAssumption
  <2>5. 1 \in DOMAIN vfs.processes
    BY <2>3 DEF Leads, Process
  <2>6. NewProcess(1, 3, NewProcessFlags, oom)
    BY <2>1, <2>4
  <2>7. /\ VfsInv' /\ Leads(vfs', held', vfs'.replies[1].gives)
        /\ \A S : Leads(vfs, held, S) => Leads(vfs', held', S)
    BY <2>3, <2>4, <2>5, <2>6, ProcessAdded
  <2>8. \A p \in Process : Leads(vfs', held', fds[p])
    BY <2>3, <2>7
  <2>9. fds \in [Process -> SUBSET held']
    BY <2>3, <2>8 DEF Leads
  <2>10. TablesInv(vfs') /\ HeldInv(vfs', held')
    BY <2>7 DEF VfsInv
  <2>11. PICK x \in {"receive", "reply"} : Move("process_server", "receive_fd", "vfs_server", x)
    BY <2>1
  <2>12. MemoryAt("receive_fd", x, "none", vfs', held', fds)
    BY <2>7, <2>8, <2>9, <2>10, <2>11 DEF MemoryAt
  <2>13. PlacesAt("receive_fd", x, "none")
    BY <2>11 DEF PlacesAt
  <2>14. Are(pc', "receive_fd", x, "none")
    BY <1>0, <2>2, <2>11, Places
  <2> QED
    BY <1>0, <2>1, <2>12, <2>13, <2>14 DEF BootInv, Are
<1>12. CASE ReplyNewProcess
  <2> DEFINE g == vfs.replies[1].gives
             f == [fds EXCEPT !["initrd_fs"] = g]
  <2>1. /\ vs = "reply" /\ ps = "receive_fd" /\ UNCHANGED <<vfs, held>> /\ fds' = f
        /\ \E x \in {"exec_fs", "failed"} : Move("vfs_server", "receive", "process_server", x)
    BY <1>12 DEF ReplyNewProcess, Sent
  <2>2. fs = "none"
    BY <1>0, <2>1 DEF PlacesAt
  <2>3. /\ fds \in [Process -> SUBSET held] /\ Leads(vfs, held, g) /\ TablesInv(vfs) /\ HeldInv(vfs, held)
        /\ \A p \in Process : Leads(vfs, held, fds[p])
    BY <1>0, <2>1 DEF MemoryAt
  <2> HIDE DEF g
  <2>4. f \in [Process -> SUBSET held] /\ \A p \in Process : Leads(vfs, held, f[p])
    <3>1. g \subseteq held
      BY <2>3 DEF Leads
    <3> QED
      BY <2>3, <3>1
  <2> HIDE DEF f
  <2>5. PICK x \in {"exec_fs", "failed"} : Move("vfs_server", "receive", "process_server", x)
    BY <2>1
  <2>6. MemoryAt(x, "receive", "none", vfs, held, f)
    BY <2>3, <2>4 DEF MemoryAt
  <2>7. PlacesAt(x, "receive", "none")
    BY <2>5 DEF PlacesAt
  <2>8. Are(pc', x, "receive", "none")
    BY <1>0, <2>2, <2>5, Places
  <2> QED
    BY <1>0, <2>1, <2>6, <2>7, <2>8 DEF BootInv, Are
<1>13. ASSUME NEW oom, CallMount(oom) PROVE BootInv'
  <2>1. /\ fs = "call_mount" /\ vs = "receive" /\ fds' = fds
        /\ \E b \in fds["initrd_fs"] : MountPointMount(b.id, FALSE, oom)
        /\ Move("initrd_fs", "receive_mounted", "vfs_server", "reply")
    BY <1>13 DEF CallMount
  <2>2. ps = "idle"
    BY <1>0, <2>1 DEF PlacesAt
  <2>3. /\ fds \in [Process -> SUBSET held] /\ VfsInv
        /\ \A p \in Process : Leads(vfs, held, fds[p])
    BY <1>0, <2>1 DEF MemoryAt, VfsInv
  <2>4. PICK b \in fds["initrd_fs"] : MountPointMount(b.id, FALSE, oom)
    BY <2>1
  <2>5. Leads(vfs, held, {b})
    <3>1. Leads(vfs, held, fds["initrd_fs"])
      BY <2>3 DEF Process
    <3> QED
      BY <2>4, <3>1 DEF Leads
  <2>6. /\ VfsInv' /\ (vfs'.replies[1].status = "ok" => Root(vfs') # SIZE_MAX)
        /\ \A S : Leads(vfs, held, S) => Leads(vfs', held', S)
    BY <2>3, <2>4, <2>5, RootMounted
  <2>7. \A p \in Process : Leads(vfs', held', fds[p])
    BY <2>3, <2>6
  <2>8. fds \in [Process -> SUBSET held']
    BY <2>3, <2>7 DEF Leads
  <2>9. TablesInv(vfs') /\ HeldInv(vfs', held')
    BY <2>6 DEF VfsInv
  <2>10. MemoryAt("idle", "reply", "receive_mounted", vfs', held', fds)
    BY <2>6, <2>7, <2>8, <2>9 DEF MemoryAt
  <2>11. PlacesAt("idle", "reply", "receive_mounted")
    BY DEF PlacesAt
  <2>12. Are(pc', "idle", "reply", "receive_mounted")
    BY <1>0, <2>1, <2>2, Places
  <2> QED
    BY <1>0, <2>1, <2>10, <2>11, <2>12 DEF BootInv, Are
<1> QED
  BY <1>1, <1>2, <1>3, <1>4, <1>5, <1>6, <1>7, <1>8, <1>9, <1>10, <1>11, <1>12, <1>13
     DEF BootNext, ProcessServerStep, VfsServerStep, InitrdFsStep, ProcessServerMessage, InitrdFsMessage

(***************************************************************************)
(* Once initrd_fs serves, the root of the namespace that the process       *)
(* server's descriptor is for is mounted: the process server, initrd_fs    *)
(* and what is mounted are in one namespace.                               *)
(***************************************************************************)
THEOREM RootCorrect ==
  ASSUME Calls \cap MapCalls = {}
  PROVE  BootSpec => []RootShared
<1>1. BootInit => BootInv
  <2> SUFFICES ASSUME BootInit PROVE BootInv
    OBVIOUS
  <2>1. Are(pc, "start_vfs", "none", "none")
    BY DEF BootInit, Are, Process
  <2>2. PidsInv
    BY PidsStart
  <2>3. PlacesAt("start_vfs", "none", "none")
    BY DEF PlacesAt
  <2>4. vfs = Empty /\ held = {} /\ fds = [p \in Process |-> {}]
    BY DEF BootInit
  <2>5. MemoryAt("start_vfs", "none", "none", vfs, held, fds)
    BY <2>4 DEF MemoryAt
  <2> QED
    BY <2>1, <2>2, <2>3, <2>5 DEF BootInv, Are
<1>2. BootInv /\ [BootNext]_bootVars => BootInv'
  BY BootStep
<1>3. BootInv => RootShared
  <2> SUFFICES ASSUME BootInv, pc["initrd_fs"] = "receive", NEW b \in fds["process_server"]
               PROVE  vfs.namespaces[vfs.infos[b.id].namespace].root # SIZE_MAX
    BY DEF RootShared
  <2> DEFINE ps == pc["process_server"]
             vs == pc["vfs_server"]
  <2>1. PlacesAt(ps, vs, "receive") /\ MemoryAt(ps, vs, "receive", vfs, held, fds)
    BY DEF BootInv
  <2>2. vs \in {"receive", "reply"}
    BY <2>1 DEF PlacesAt
  <2>3. Leads(vfs, held, fds["process_server"]) /\ Root(vfs) # SIZE_MAX
    BY <2>1, <2>2 DEF MemoryAt, Process
  <2> QED
    BY <2>3 DEF Leads, Root
<1> QED
  BY <1>1, <1>2, <1>3, PTL DEF BootSpec

-----------------------------------------------------------------------------
(***************************************************************************)
(* The loader.  Where the addresses it computes are: the layout of Home.   *)
(***************************************************************************)

(* The offset in the file of what comes first in the allocation, and the   *)
(* word that is put there for the one at offset o of the image.            *)
First(h) == IF h.gotpic THEN h.data_start ELSE HEADER_SIZE
Place(h, allocation, o) == allocation + o + HEADER_SIZE - First(h)

(* The header of a binary.                                                 *)
HeaderOk(h) ==
  /\ HEADER_SIZE \in Nat /\ UINT32_MAX \in Nat
  /\ h.data_start \in Nat /\ h.data_end \in Nat /\ h.bss_end \in 0..UINT32_MAX
  /\ h.stack_size \in Nat /\ h.entry_point \in Nat
  /\ HEADER_SIZE <= h.data_start /\ h.data_start <= h.data_end /\ h.data_end <= h.bss_end
  /\ h.gotpic \in BOOLEAN
  /\ First(h) \in HEADER_SIZE..h.data_start
  /\ h.gotpic => First(h) = h.data_start
  /\ ~h.gotpic => First(h) = HEADER_SIZE

(* The header of a binary is such a header.                                *)
LEMMA BinaryHeader ==
  ASSUME NEW b, IsBinary(b)
  PROVE  HeaderOk(b.header)
<1> DEFINE h == b.header
<1>1. HEADER_SIZE \in Nat /\ UINT32_MAX \in Nat
  BY BfltAssumption
<1>2. /\ {h.entry_point, h.data_start, h.data_end, h.bss_end, h.stack_size} \subseteq 0..UINT32_MAX
      /\ h.gotpic \in BOOLEAN
      /\ HEADER_SIZE <= h.data_start /\ h.data_start <= h.data_end /\ h.data_end <= h.bss_end
  BY DEF IsBinary
<1> HIDE DEF h
<1>3. HeaderOk(h)
  BY <1>1, <1>2 DEF HeaderOk, First
<1> QED
  BY <1>3 DEF h

(* What the formulas of the loader come to.                                *)
OffsetsAre(h, file, allocation) ==
  \A o \in Nat :
    /\ offset_to_address(h, file, allocation, FALSE, o)
         = IF o + HEADER_SIZE >= First(h) THEN Place(h, allocation, o)
           ELSE file + HEADER_SIZE + o
    /\ offset_to_address(h, file, allocation, h.gotpic, o)
         = IF o + HEADER_SIZE >= First(h) THEN Place(h, allocation, o) ELSE 0

(* The loader's formulas are those of Home: an interval of offsets has as  *)
(* many members as its ends are apart.                                     *)
LEMMA Addresses ==
  ASSUME NEW h, HeaderOk(h), NEW file \in Nat, NEW allocation \in Nat
  PROVE  /\ bflt_allocation_size(h) = h.bss_end - First(h) + h.stack_size
         /\ DataEnd(h, allocation) = allocation + h.data_end - First(h)
         /\ h.gotpic => DataStart(h, allocation) = allocation
         /\ OffsetsAre(h, file, allocation)
<1>1. /\ bflt_allocation_size(h) = h.bss_end - First(h) + h.stack_size
      /\ DataEnd(h, allocation) = allocation + h.data_end - First(h)
      /\ h.gotpic => DataStart(h, allocation) = allocation
  BY DEF bflt_allocation_size, DataEnd, DataStart, HeaderOk
<1>2. ASSUME NEW o \in Nat, NEW deny \in BOOLEAN, deny => h.gotpic
      PROVE  offset_to_address(h, file, allocation, deny, o)
                  = IF o + HEADER_SIZE >= First(h) THEN Place(h, allocation, o)
                    ELSE IF deny THEN 0 ELSE file + HEADER_SIZE + o
  <2> DEFINE x == offset_to_address(h, file, allocation, deny, o)
  <2>1. CASE h.gotpic
    <3>1. x = IF o < h.data_start - HEADER_SIZE
              THEN IF deny THEN 0 ELSE file + HEADER_SIZE + o
              ELSE allocation + o - (h.data_start - HEADER_SIZE)
      BY <2>1 DEF offset_to_address, TextStart, DataStart
    <3> QED
      BY <1>2, <2>1, <3>1 DEF HeaderOk, Place
  <2>2. CASE ~h.gotpic
    <3>1. x = IF o < h.data_start - HEADER_SIZE THEN allocation + o
              ELSE allocation + h.data_start - HEADER_SIZE + o - (h.data_start - HEADER_SIZE)
      BY <1>2, <2>2 DEF offset_to_address, TextStart, DataStart
    <3> QED
      BY <1>2, <2>2, <3>1 DEF HeaderOk, Place
  <2> QED
    BY <2>1, <2>2
<1>3. OffsetsAre(h, file, allocation)
  <2>1. h.gotpic \in BOOLEAN
    BY DEF HeaderOk
  <2>2. ASSUME NEW o \in Nat
        PROVE  ~h.gotpic => o + HEADER_SIZE >= First(h)
    BY DEF HeaderOk
  <2> QED
    BY <1>2, <2>1, <2>2 DEF OffsetsAre
<1> QED
  BY <1>1, <1>3

(* They agree with the layout that Home states.                            *)
LEMMA Homes ==
  ASSUME NEW h, HeaderOk(h), NEW file \in Nat, NEW allocation \in Nat,
         NEW o \in 0..(ImageSize(h) - 1)
  PROVE  /\ o \in Nat
         /\ Home(h, file, allocation, o) = IF o + HEADER_SIZE >= First(h)
                                           THEN Place(h, allocation, o)
                                           ELSE file + HEADER_SIZE + o
<1> DEFINE InText(p) == p + HEADER_SIZE < h.data_start
           InMemory == {p \in 0..(ImageSize(h) - 1) : ~h.gotpic \/ ~InText(p)}
           low == First(h) - HEADER_SIZE
<1>0. /\ HEADER_SIZE \in Nat /\ h.data_start \in Nat /\ h.bss_end \in Nat
      /\ HEADER_SIZE <= h.data_start /\ h.data_start <= h.bss_end
      /\ First(h) \in Nat /\ HEADER_SIZE <= First(h) /\ First(h) <= h.data_start
      /\ h.gotpic \in BOOLEAN
      /\ ~h.gotpic => First(h) = HEADER_SIZE
      /\ h.gotpic => First(h) = h.data_start
  BY DEF HeaderOk
<1>1. o \in Nat /\ low \in Nat
  BY <1>0 DEF ImageSize
<1>2. InMemory = {p \in 0..(ImageSize(h) - 1) : p >= low}
  <2>1. \A p \in 0..(ImageSize(h) - 1) : (~h.gotpic \/ ~InText(p)) <=> p >= low
    <3> TAKE p \in 0..(ImageSize(h) - 1)
    <3>1. p \in Nat
      BY <1>0 DEF ImageSize
    <3>2. CASE h.gotpic
      BY <1>0, <3>1, <3>2
    <3>3. CASE ~h.gotpic
      <4>1. First(h) = HEADER_SIZE
        BY <3>3 DEF HeaderOk
      <4>2. low = 0
        BY <1>0, <4>1
      <4> QED
        BY <3>1, <3>3, <4>2
    <3> QED
      BY <1>0, <3>2, <3>3
  <2> QED
    BY <2>1
<1>3. Home(h, file, allocation, o)
        = IF o \in InMemory THEN allocation + Cardinality({p \in InMemory : p < o})
          ELSE file + HEADER_SIZE + o
  BY DEF Home
<1> HIDE DEF InMemory, low
<1>4. CASE o >= low
  <2>1. o \in InMemory
    BY <1>2, <1>4
  <2>2. {p \in InMemory : p < o} = low..(o - 1)
    BY <1>0, <1>1, <1>2 DEF ImageSize
  <2>3. Cardinality(low..(o - 1)) = o - low
    <3>1. low \in Int /\ o - 1 \in Int
      BY <1>1
    <3>2. Cardinality(low..(o - 1)) = IF low > o - 1 THEN 0 ELSE (o - 1) - low + 1
      BY <3>1, FS_Interval
    <3> QED
      BY <1>1, <1>4, <3>2
  <2>4. Home(h, file, allocation, o) = Place(h, allocation, o)
    <3>1. Home(h, file, allocation, o) = allocation + (o - low)
      BY <1>3, <2>1, <2>2, <2>3, Zenon
    <3> QED
      BY <1>0, <1>1, <3>1 DEF Place, low
  <2>5. o + HEADER_SIZE >= First(h)
    BY <1>0, <1>1, <1>4 DEF low
  <2> QED
    BY <1>1, <2>4, <2>5
<1>5. CASE ~(o >= low)
  <2>1. o \notin InMemory
    BY <1>2, <1>5
  <2>2. ~(o + HEADER_SIZE >= First(h))
    BY <1>0, <1>1, <1>5 DEF low
  <2> QED
    BY <1>1, <1>3, <2>1, <2>2
<1> QED
  BY <1>4, <1>5

-----------------------------------------------------------------------------
(***************************************************************************)
(* The relocations: no word is listed twice, so the loop changes each      *)
(* listed word once, by what the file holds of it.                         *)
(***************************************************************************)

(* Where the loader finds the word that relocation i is for, 0 in text     *)
(* that stays in the file.                                                 *)
Target(b, file, allocation, i) ==
  offset_to_address(b.header, file, allocation, b.header.gotpic, b.relocations[i])

(* What a word becomes that is relocated.                                  *)
Moved(b, file, allocation, v) == offset_to_address(b.header, file, allocation, FALSE, v)

(* Memory after the first k relocations.                                   *)
After(b, file, allocation, memory, k) ==
  [x \in DOMAIN memory |-> IF x # 0 /\ \E i \in 1..k : Target(b, file, allocation, i) = x
                           THEN Moved(b, file, allocation, memory[x]) ELSE memory[x]]

(* Each relocation is of one word, no two of the same.                     *)
LEMMA Targets ==
  ASSUME NEW b, IsBinary(b), NEW file \in Nat, NEW allocation \in Nat \ {0}
  PROVE  /\ Len(b.relocations) \in Nat
         /\ \A i \in 1..Len(b.relocations) :
              LET o == b.relocations[i]
              IN  /\ o \in 0..(b.header.data_end - HEADER_SIZE - 1) /\ o \in Nat
                  /\ Target(b, file, allocation, i) = IF o + HEADER_SIZE >= First(b.header)
                                                      THEN Place(b.header, allocation, o) ELSE 0
         /\ \A i, j \in 1..Len(b.relocations) :
              Target(b, file, allocation, i) = Target(b, file, allocation, j)
                /\ Target(b, file, allocation, i) # 0 => i = j
         /\ \A o : o \in Range(b.relocations) <=> \E i \in 1..Len(b.relocations) : b.relocations[i] = o
<1> DEFINE h == b.header
           n == Len(b.relocations)
           T(i) == Target(b, file, allocation, i)
<1>0. /\ HeaderOk(h) /\ OffsetsAre(h, file, allocation)
      /\ HEADER_SIZE \in Nat /\ First(h) \in Nat
  BY BinaryHeader, Addresses DEF HeaderOk
<1>1. b.relocations \in Seq(Nat) /\ n \in Nat
  BY DEF IsBinary
<1>2. \A o : o \in Range(b.relocations) <=> \E i \in 1..n : b.relocations[i] = o
  <2>1. DOMAIN b.relocations = 1..n
    BY <1>1
  <2> QED
    BY <2>1 DEF Range
<1>3. ASSUME NEW i \in 1..n
      PROVE  LET o == b.relocations[i]
             IN  /\ o \in 0..(b.header.data_end - HEADER_SIZE - 1) /\ o \in Nat
                 /\ T(i) = IF o + HEADER_SIZE >= First(h) THEN Place(h, allocation, o) ELSE 0
  <2>1. b.relocations[i] \in Nat
    BY <1>1
  <2>2. b.relocations[i] \in 0..(b.header.data_end - HEADER_SIZE - 1)
    BY <1>2 DEF IsBinary
  <2>3. T(i) = offset_to_address(h, file, allocation, h.gotpic, b.relocations[i])
    BY DEF Target
  <2> QED
    BY <1>0, <2>1, <2>2, <2>3 DEF OffsetsAre
<1>4. ASSUME NEW i \in 1..n, NEW j \in 1..n, T(i) = T(j), T(i) # 0
      PROVE  i = j
  <2>1. T(i) = Place(h, allocation, b.relocations[i]) /\ T(j) = Place(h, allocation, b.relocations[j])
    BY <1>3, <1>4
  <2>2. b.relocations[i] \in Nat /\ b.relocations[j] \in Nat
    BY <1>3
  <2>3. b.relocations[i] = b.relocations[j]
    <3>1. Place(h, allocation, b.relocations[i]) = Place(h, allocation, b.relocations[j])
      BY <1>4, <2>1, Zenon
    <3>2. ASSUME NEW x \in Nat, NEW y \in Nat, Place(h, allocation, x) = Place(h, allocation, y)
          PROVE  x = y
      BY <1>0, <3>2 DEF Place
    <3> QED
      BY <2>2, <3>1, <3>2
  <2>4. DOMAIN b.relocations = 1..n
    BY <1>1
  <2>5. \A k, l \in DOMAIN b.relocations : b.relocations[k] = b.relocations[l] => k = l
    BY DEF IsBinary
  <2> QED
    BY <2>3, <2>4, <2>5, Zenon
<1> QED
  BY <1>1, <1>2, <1>3, <1>4

(* So the loop over the relocations changes each of these words once.      *)
LEMMA RelocatedIs ==
  ASSUME NEW b, IsBinary(b), NEW file \in Nat, NEW allocation \in Nat \ {0}, NEW D,
         NEW memory, memory = [x \in D |-> memory[x]]
  PROVE  Relocated(b, file, allocation, memory)
           = After(b, file, allocation, memory, Len(b.relocations))
<1> DEFINE n == Len(b.relocations)
           T(k) == Target(b, file, allocation, k)
           M(v) == Moved(b, file, allocation, v)
           Changed(k) == After(b, file, allocation, memory, k)
           Follows(g) == g = [k \in 0..n |-> IF k = 0 THEN memory
                                             ELSE IF T(k) = 0 THEN g[k - 1]
                                             ELSE [g[k - 1] EXCEPT ![T(k)] = M(@)]]
           after == CHOOSE g : Follows(g)
<1>0. n \in Nat
  BY Targets
<1>1. \A i, j \in 1..n : T(i) = T(j) /\ T(i) # 0 => i = j
  BY Targets
<1>2. Relocated(b, file, allocation, memory) = after[n]
  BY DEF Relocated, Target, Moved
<1>a. \A k : Changed(k) = [x \in D |-> IF x # 0 /\ \E i \in 1..k : T(i) = x THEN M(memory[x]) ELSE memory[x]]
  <2>1. DOMAIN memory = D
    OBVIOUS
  <2> QED
    BY <2>1 DEF After
<1> HIDE DEF T, M, Changed
<1>3. Changed(0) = memory
  <2>1. Changed(0) = [x \in D |-> memory[x]]
    <3>1. \A x \in D : ~(\E i \in 1..0 : T(i) = x)
      OBVIOUS
    <3> QED
      BY <1>a, <3>1
  <2> QED
    BY <2>1
<1>4. ASSUME NEW k \in 1..n
      PROVE  Changed(k) = IF T(k) = 0 THEN Changed(k - 1) ELSE [Changed(k - 1) EXCEPT ![T(k)] = M(@)]
  <2>1. \A x : (\E i \in 1..k : T(i) = x) <=> (T(k) = x \/ \E i \in 1..(k - 1) : T(i) = x)
    BY <1>0
  <2>2. CASE T(k) = 0
    <3>1. \A x \in D : (x # 0 /\ \E i \in 1..k : T(i) = x) <=> (x # 0 /\ \E i \in 1..(k - 1) : T(i) = x)
      BY <2>1, <2>2
    <3> QED
      BY <1>a, <2>2, <3>1
  <2>3. CASE T(k) # 0
    <3>1. ~(\E i \in 1..(k - 1) : T(i) = T(k))
      BY <1>0, <1>1, <2>3
    <3>2. \A x \in D : Changed(k)[x] = IF x = T(k) THEN M(memory[x]) ELSE Changed(k - 1)[x]
      BY <1>a, <2>1, <2>3
    <3>3. \A x \in D : x = T(k) => Changed(k - 1)[x] = memory[x]
      BY <1>a, <3>1
    <3>4. /\ DOMAIN Changed(k) = D /\ DOMAIN Changed(k - 1) = D
          /\ Changed(k) = [x \in D |-> Changed(k)[x]] /\ Changed(k - 1) = [x \in D |-> Changed(k - 1)[x]]
      BY <1>a
    <3> QED
      BY <2>3, <3>2, <3>3, <3>4
  <2> QED
    BY <2>2, <2>3
<1>5. Follows([k \in 0..n |-> Changed(k)])
  <2> DEFINE g == [k \in 0..n |-> Changed(k)]
  <2>1. ASSUME NEW k \in 0..n
        PROVE  Changed(k) = IF k = 0 THEN memory
                         ELSE IF T(k) = 0 THEN g[k - 1]
                         ELSE [g[k - 1] EXCEPT ![T(k)] = M(@)]
    <3>1. CASE k = 0
      BY <1>3, <3>1
    <3>2. CASE k # 0
      <4>1. k \in 1..n /\ k - 1 \in 0..n
        BY <1>0, <3>2
      <4>2. g[k - 1] = Changed(k - 1)
        BY <4>1
      <4> QED
        BY <1>4, <3>2, <4>1, <4>2
    <3> QED
      BY <3>1, <3>2
  <2> QED
    BY <2>1
<1>6. Follows(after)
  BY <1>5
<1>7. ASSUME NEW k \in 0..n
      PROVE  after[k] = IF k = 0 THEN memory
                        ELSE IF T(k) = 0 THEN after[k - 1]
                        ELSE [after[k - 1] EXCEPT ![T(k)] = M(@)]
  <2> HIDE DEF after
  <2> QED
    BY <1>6
<1> HIDE DEF after
<1>8. \A k \in 0..n : after[k] = Changed(k)
  <2> DEFINE Bad == {k \in 0..n : after[k] # Changed(k)}
  <2>1. SUFFICES ASSUME Bad # {} PROVE FALSE
    OBVIOUS
  <2>2. Bad \in SUBSET Nat
    BY <1>0
  <2>3. PICK k \in Bad : \A j \in Bad : k <= j
    <3> HIDE DEF Bad
    <3> QED
      BY <2>1, <2>2, LeastNat
  <2>4. k # 0
    BY <1>3, <1>7, <2>3
  <2>5. k \in 1..n /\ k - 1 \in 0..n /\ k - 1 \notin Bad
    BY <1>0, <2>3, <2>4
  <2>6. after[k - 1] = Changed(k - 1)
    BY <2>5
  <2> QED
    BY <1>4, <1>7, <2>3, <2>4, <2>5, <2>6
<1> QED
  BY <1>0, <1>2, <1>8 DEF Changed

-----------------------------------------------------------------------------
(***************************************************************************)
(* Memory: what is there after the copy and after the relocations.         *)
(***************************************************************************)

(* What the loader leaves in memory: for each word of the image that is    *)
(* not text in the file, its value or, if it is relocatable, where what it *)
(* refers to has gone; nothing around the allocation.                      *)
ImageWord(b, o) == IF o + HEADER_SIZE < b.header.data_end THEN b.words[o + HEADER_SIZE] ELSE 0
Memory(b, allocation) ==
  (allocation - MARGIN)..(allocation + bflt_allocation_size(b.header) + MARGIN)
InImage(b, allocation, x) ==
  x \in allocation..(allocation + b.header.bss_end - First(b.header) - 1)
OffsetOf(b, allocation, x) == x - allocation + First(b.header) - HEADER_SIZE
LoadedAs(b, file, allocation, memory, S) ==
  /\ DOMAIN memory = Memory(b, allocation)
  /\ \A x \in Memory(b, allocation) :
       LET o == OffsetOf(b, allocation, x)
       IN  memory[x] = IF ~InImage(b, allocation, x) THEN UNSET
                       ELSE IF o \in S THEN Moved(b, file, allocation, ImageWord(b, o))
                       ELSE ImageWord(b, o)

(* Places and offsets of words.                                            *)
LEMMA PlacesInMemory ==
  ASSUME NEW b, HeaderOk(b.header), NEW allocation \in Nat, NEW x,
         InImage(b, allocation, x)
  PROVE  LET o == OffsetOf(b, allocation, x)
         IN  /\ x \in Memory(b, allocation) /\ x \in Nat /\ x >= allocation
             /\ o \in Nat /\ o \in 0..(ImageSize(b.header) - 1)
             /\ o + HEADER_SIZE >= First(b.header)
             /\ Place(b.header, allocation, o) = x
<1> DEFINE h == b.header
<1>1. /\ HEADER_SIZE \in Nat /\ First(h) \in Nat /\ HEADER_SIZE <= First(h)
      /\ h.bss_end \in Nat /\ h.stack_size \in Nat /\ First(h) <= h.bss_end
  BY DEF HeaderOk
<1>2. bflt_allocation_size(h) = h.bss_end - First(h) + h.stack_size
  BY <1>1, Addresses
<1> HIDE DEF h
<1>3. x \in Nat /\ x >= allocation /\ x < allocation + h.bss_end - First(h)
  BY <1>1 DEF InImage, h
<1> QED
  BY <1>1, <1>2, <1>3 DEF Memory, MARGIN, OffsetOf, ImageSize, Place, h

(* Nor is there a word of the image that has no place there.               *)
LEMMA OffsetsInMemory ==
  ASSUME NEW b, HeaderOk(b.header), NEW allocation \in Nat,
         NEW o \in Nat, o \in 0..(ImageSize(b.header) - 1), o + HEADER_SIZE >= First(b.header)
  PROVE  /\ InImage(b, allocation, Place(b.header, allocation, o))
         /\ OffsetOf(b, allocation, Place(b.header, allocation, o)) = o
         /\ Place(b.header, allocation, o) >= allocation
BY DEF HeaderOk, InImage, OffsetOf, Place, ImageSize

(* memcpy and memset: every word of the image, none relocated.             *)
LEMMA CopiedIs ==
  ASSUME NEW b, HeaderOk(b.header), NEW file \in Nat, NEW allocation \in Nat
  PROVE  LoadedAs(b, file, allocation, Copied(b, allocation), {})
<1> DEFINE h == b.header
           c == Copied(b, allocation)
<1>1. /\ HEADER_SIZE \in Nat /\ First(h) \in Nat
      /\ h.data_end \in Nat /\ h.bss_end \in Nat /\ h.stack_size \in Nat
      /\ First(h) <= h.data_end /\ h.data_end <= h.bss_end
  BY DEF HeaderOk
<1>2. DataEnd(h, allocation) = allocation + h.data_end - First(h)
  BY Addresses
<1>3. c = [x \in Memory(b, allocation) |->
             CASE x \in allocation..(DataEnd(h, allocation) - 1) -> b.words[First(h) + (x - allocation)]
               [] x \in DataEnd(h, allocation)..(DataEnd(h, allocation) + (h.bss_end - h.data_end) - 1) -> 0
               [] OTHER -> UNSET]
  BY DEF Copied, Memory, First
<1>4. bflt_allocation_size(h) \in Int
  <2>1. bflt_allocation_size(h) = h.bss_end - First(h) + h.stack_size
    BY Addresses
  <2> QED
    BY <1>1, <2>1
<1> HIDE DEF c
<1>5. ASSUME NEW x \in Memory(b, allocation)
      PROVE  c[x] = IF ~InImage(b, allocation, x) THEN UNSET
                    ELSE ImageWord(b, OffsetOf(b, allocation, x))
  <2> DEFINE d == DataEnd(h, allocation)
  <2>0. x \in Int /\ d \in Int /\ d = allocation + h.data_end - First(h)
    BY <1>1, <1>2, <1>4 DEF Memory, MARGIN
  <2>1. c[x] = CASE x \in allocation..(d - 1) -> b.words[First(h) + (x - allocation)]
                 [] x \in d..(d + (h.bss_end - h.data_end) - 1) -> 0
                 [] OTHER -> UNSET
    BY <1>3
  <2> HIDE DEF d, h
  <2>2. CASE x \in allocation..(d - 1)
    <3>1. c[x] = b.words[First(h) + (x - allocation)]
      BY <1>1, <2>0, <2>1, <2>2
    <3>2. InImage(b, allocation, x)
      BY <1>1, <2>0, <2>2 DEF InImage, h
    <3>3. /\ OffsetOf(b, allocation, x) + HEADER_SIZE = First(h) + (x - allocation)
          /\ OffsetOf(b, allocation, x) + HEADER_SIZE < h.data_end
      BY <1>1, <2>0, <2>2 DEF OffsetOf, h
    <3> QED
      BY <3>1, <3>2, <3>3 DEF ImageWord, h
  <2>3. CASE x \in d..(d + (h.bss_end - h.data_end) - 1)
    <3>1. c[x] = 0
      BY <1>1, <2>0, <2>1, <2>3
    <3>2. InImage(b, allocation, x)
      BY <1>1, <2>0, <2>3 DEF InImage, h
    <3>3. ~(OffsetOf(b, allocation, x) + HEADER_SIZE < h.data_end)
      BY <1>1, <2>0, <2>3 DEF OffsetOf, h
    <3> QED
      BY <3>1, <3>2, <3>3 DEF ImageWord, h
  <2>4. CASE x \notin allocation..(d - 1) /\ x \notin d..(d + (h.bss_end - h.data_end) - 1)
    <3>1. c[x] = UNSET
      BY <2>1, <2>4
    <3>2. ~InImage(b, allocation, x)
      BY <1>1, <2>0, <2>4 DEF InImage, h
    <3> QED
      BY <3>1, <3>2
  <2> QED
    BY <2>2, <2>3, <2>4
<1>6. DOMAIN c = Memory(b, allocation)
  BY <1>3
<1>7. LoadedAs(b, file, allocation, c, {})
  BY <1>5, <1>6 DEF LoadedAs
<1> QED
  BY <1>7 DEF c

(* The relocations: those in text that is in the file are skipped.         *)
InMemoryOnly(b) == {o \in Range(b.relocations) : o + HEADER_SIZE >= First(b.header)}

(* After the loop over the relocations, the words they list in memory      *)
(* hold where their targets have gone, and the others what the copy put.   *)
LEMMA RelocatedAs ==
  ASSUME NEW b, IsBinary(b), NEW file \in Nat, NEW allocation \in Nat \ {0}
  PROVE  LoadedAs(b, file, allocation,
                  Relocated(b, file, allocation, Copied(b, allocation)), InMemoryOnly(b))
<1> DEFINE h == b.header
           n == Len(b.relocations)
           c == Copied(b, allocation)
           m == Relocated(b, file, allocation, c)
           T(i) == Target(b, file, allocation, i)
           A == Memory(b, allocation)
<1>0. /\ HeaderOk(h)
      /\ HEADER_SIZE \in Nat /\ First(h) \in Nat /\ h.data_end \in Nat /\ h.bss_end \in Nat
      /\ h.data_end <= h.bss_end
  BY BinaryHeader DEF HeaderOk
<1>1. LoadedAs(b, file, allocation, c, {})
  BY <1>0, CopiedIs
<1>2. DOMAIN c = A /\ c = [x \in A |-> c[x]]
  BY <1>1 DEF LoadedAs, Copied, Memory
<1>3. m = After(b, file, allocation, c, n)
  <2> HIDE DEF c, A, n
  <2>1. c = [x \in A |-> c[x]]
    BY <1>2
  <2> QED
    BY <2>1, RelocatedIs DEF m, n
<1>4. \A x \in A : m[x] = IF x # 0 /\ \E i \in 1..n : T(i) = x
                          THEN Moved(b, file, allocation, c[x]) ELSE c[x]
  BY <1>2, <1>3 DEF After
<1>5. DOMAIN m = A
  BY <1>2, <1>3 DEF After
<1>6. \A i \in 1..n :
        LET o == b.relocations[i]
        IN  /\ o \in 0..(h.data_end - HEADER_SIZE - 1) /\ o \in Nat
            /\ T(i) = IF o + HEADER_SIZE >= First(h) THEN Place(h, allocation, o) ELSE 0
  BY Targets
<1>7. \A o : o \in Range(b.relocations) <=> \E i \in 1..n : b.relocations[i] = o
  BY Targets
<1> HIDE DEF c, m, T, A, h, n
<1>8. ASSUME NEW x \in A, InImage(b, allocation, x)
      PROVE  (x # 0 /\ \E i \in 1..n : T(i) = x) <=> OffsetOf(b, allocation, x) \in InMemoryOnly(b)
  <2> DEFINE o == OffsetOf(b, allocation, x)
  <2>1. /\ x \in Nat /\ x >= allocation
        /\ o \in Nat /\ o + HEADER_SIZE >= First(h) /\ Place(h, allocation, o) = x
    BY <1>0, <1>8, PlacesInMemory DEF h
  <2> HIDE DEF o
  <2>2. ASSUME NEW i \in 1..n, T(i) = x
        PROVE  o \in InMemoryOnly(b)
    <3>1. /\ b.relocations[i] \in Nat /\ b.relocations[i] + HEADER_SIZE >= First(h)
          /\ x = Place(h, allocation, b.relocations[i])
      BY <1>6, <2>1, <2>2
    <3>2. b.relocations[i] = o
      BY <1>0, <2>1, <3>1 DEF Place
    <3> QED
      BY <1>7, <2>1, <3>2 DEF InMemoryOnly, h
  <2>3. ASSUME o \in InMemoryOnly(b)
        PROVE  \E i \in 1..n : T(i) = x
    <3>1. PICK i \in 1..n : b.relocations[i] = o
      BY <1>7, <2>3 DEF InMemoryOnly
    <3> QED
      BY <1>6, <2>1, <3>1
  <2>4. x # 0
    BY <2>1
  <2> QED
    BY <2>2, <2>3, <2>4 DEF o
<1>9. ASSUME NEW x \in A, ~InImage(b, allocation, x)
      PROVE  ~(x # 0 /\ \E i \in 1..n : T(i) = x)
  <2> SUFFICES ASSUME x # 0, NEW i \in 1..n, T(i) = x PROVE FALSE
    OBVIOUS
  <2> DEFINE o == b.relocations[i]
  <2>1. /\ o \in Nat /\ o \in 0..(h.data_end - HEADER_SIZE - 1)
        /\ o + HEADER_SIZE >= First(h) /\ x = Place(h, allocation, o)
    BY <1>6
  <2>2. o \in 0..(ImageSize(h) - 1)
    BY <1>0, <2>1 DEF ImageSize
  <2> HIDE DEF o
  <2> QED
    BY <1>0, <1>9, <2>1, <2>2, OffsetsInMemory DEF h
<1>10. LoadedAs(b, file, allocation, m, InMemoryOnly(b))
  <2> SUFFICES ASSUME NEW x \in A
               PROVE  m[x] = IF ~InImage(b, allocation, x) THEN UNSET
                             ELSE IF OffsetOf(b, allocation, x) \in InMemoryOnly(b)
                             THEN Moved(b, file, allocation, ImageWord(b, OffsetOf(b, allocation, x)))
                             ELSE ImageWord(b, OffsetOf(b, allocation, x))
    BY <1>5 DEF LoadedAs, A
  <2>1. c[x] = IF ~InImage(b, allocation, x) THEN UNSET
               ELSE ImageWord(b, OffsetOf(b, allocation, x))
    BY <1>1 DEF LoadedAs, A
  <2> QED
    BY <1>4, <1>8, <1>9, <2>1
<1> QED
  BY <1>10 DEF m, c

-----------------------------------------------------------------------------
(***************************************************************************)
(* The global offset table: the loop over it stops at its end mark.        *)
(***************************************************************************)

(* The global offset table goes on to its end mark.                        *)
GotWords(b) == {i \in b.header.data_start..(b.header.data_end - 1) :
                  \A j \in b.header.data_start..i : b.words[j] # UINT32_MAX}

(* It has an end mark, which no relocation changes: until the loop comes   *)
(* to it, the words of the table hold what the file does.                  *)
LEMMA GotKnown ==
  ASSUME NEW b, IsBinary(b), b.header.gotpic
  PROVE  \E e \in b.header.data_start..(b.header.data_end - 1) :
           /\ b.words[e] = UINT32_MAX /\ e - HEADER_SIZE \notin InMemoryOnly(b)
           /\ GotWords(b) = b.header.data_start..(e - 1)
           /\ \A i \in b.header.data_start..(e - 1) :
                b.words[i] # UINT32_MAX /\ i - HEADER_SIZE \notin InMemoryOnly(b)
<1> DEFINE h == b.header
           Ends == {i \in h.data_start..(h.data_end - 1) : b.words[i] = UINT32_MAX}
<1>0. /\ HEADER_SIZE \in Nat /\ h.data_start \in Nat /\ h.data_end \in Nat
      /\ h.bss_end \in 0..UINT32_MAX /\ UINT32_MAX \in Nat /\ HEADER_SIZE <= h.data_start
      /\ First(h) = h.data_start
  BY BinaryHeader DEF HeaderOk
<1>1. /\ \E i \in h.data_start..(h.data_end - 1) : b.words[i] = UINT32_MAX
      /\ \A i \in h.data_start..(h.data_end - 1) :
           (\A j \in h.data_start..i : b.words[j] # UINT32_MAX)
             => i - HEADER_SIZE \notin Range(b.relocations)
      /\ \A o \in Relocatable(b) : b.words[o + HEADER_SIZE] \in 0..(ImageSize(h) - 1)
  BY DEF IsBinary
<1>2. Ends \in SUBSET Nat /\ Ends # {}
  BY <1>0, <1>1
<1>3. PICK e \in Ends : \A i \in Ends : e <= i
  <2> HIDE DEF Ends
  <2> QED
    BY <1>2, LeastNat
<1>4. e \in h.data_start..(h.data_end - 1) /\ e \in Nat /\ b.words[e] = UINT32_MAX
  BY <1>0, <1>3
<1>5. e - HEADER_SIZE \notin InMemoryOnly(b)
  <2> SUFFICES ASSUME e - HEADER_SIZE \in InMemoryOnly(b) PROVE FALSE
    OBVIOUS
  <2>1. e - HEADER_SIZE \in Relocatable(b)
    BY <1>0, <1>4 DEF InMemoryOnly, Relocatable
  <2>2. (e - HEADER_SIZE) + HEADER_SIZE = e
    BY <1>0, <1>4
  <2>3. UINT32_MAX \in 0..(ImageSize(h) - 1)
    BY <1>1, <1>4, <2>1, <2>2
  <2> QED
    BY <1>0, <2>3 DEF ImageSize
<1>6. \A i \in h.data_start..(e - 1) : b.words[i] # UINT32_MAX /\ i \in h.data_start..(h.data_end - 1)
  BY <1>0, <1>3, <1>4
<1>7. GotWords(b) = h.data_start..(e - 1)
  <2>1. ASSUME NEW i \in h.data_start..(e - 1)
        PROVE  i \in GotWords(b)
    <3>1. \A j \in h.data_start..i : j \in h.data_start..(e - 1)
      BY <1>0, <1>4
    <3> QED
      BY <1>6, <3>1 DEF GotWords
  <2>2. ASSUME NEW i \in GotWords(b)
        PROVE  i \in h.data_start..(e - 1)
    <3>1. /\ i \in h.data_start..(h.data_end - 1)
          /\ \A j \in h.data_start..i : b.words[j] # UINT32_MAX
      BY DEF GotWords
    <3>2. ~(e <= i)
      BY <1>0, <1>4, <3>1
    <3> QED
      BY <1>0, <1>4, <3>1, <3>2
  <2> QED
    BY <2>1, <2>2
<1>8. \A i \in h.data_start..(e - 1) : i - HEADER_SIZE \notin InMemoryOnly(b)
  <2> TAKE i \in h.data_start..(e - 1)
  <2>1. i \in GotWords(b)
    BY <1>7
  <2>2. i - HEADER_SIZE \notin Range(b.relocations)
    BY <1>1, <2>1 DEF GotWords
  <2> QED
    BY <2>2 DEF InMemoryOnly
<1> QED
  BY <1>4, <1>5, <1>6, <1>7, <1>8

(* What has to be relocated: the words that have a relocation, and the GOT. *)
LEMMA RelocatableIs ==
  ASSUME NEW b, IsBinary(b)
  PROVE  Relocatable(b) = InMemoryOnly(b) \cup
           (IF b.header.gotpic THEN {i - HEADER_SIZE : i \in GotWords(b)} ELSE {})
<1> DEFINE h == b.header
<1>0. /\ HEADER_SIZE \in Nat /\ h.data_start \in Nat
      /\ HEADER_SIZE <= h.data_start
      /\ h.gotpic => First(h) = h.data_start
      /\ ~h.gotpic => First(h) = HEADER_SIZE
  <2>1. HeaderOk(h)
    BY BinaryHeader
  <2> HIDE DEF h
  <2> QED
    BY <2>1 DEF HeaderOk
<1>1. \A o \in Range(b.relocations) : o \in Nat
  <2>1. \A o \in Range(b.relocations) : o \in 0..(b.header.data_end - HEADER_SIZE - 1)
    BY DEF IsBinary
  <2>2. b.header.data_end - HEADER_SIZE - 1 \in Int
    BY <1>0, BinaryHeader DEF HeaderOk
  <2> QED
    BY <2>1, <2>2
<1>2. \A o \in Range(b.relocations) :
        (h.gotpic => o >= h.data_start - HEADER_SIZE) <=> o + HEADER_SIZE >= First(h)
  <2> TAKE o \in Range(b.relocations)
  <2>1. CASE h.gotpic
    BY <1>0, <1>1, <2>1
  <2>2. CASE ~h.gotpic
    <3>1. First(h) = HEADER_SIZE
      BY <1>0, <2>2
    <3>2. o + HEADER_SIZE >= HEADER_SIZE
      BY <1>0, <1>1
    <3> QED
      BY <2>2, <3>1, <3>2, Zenon
  <2> QED
    BY <2>1, <2>2
<1>3. {o \in Range(b.relocations) : h.gotpic => o >= h.data_start - HEADER_SIZE} = InMemoryOnly(b)
  BY <1>2 DEF InMemoryOnly
<1> QED
  BY <1>3 DEF Relocatable, GotWords

(* The memory that bflt_load leaves.                                       *)
LEMMA FixedUpAs ==
  ASSUME NEW b, IsBinary(b), NEW file \in Nat, NEW allocation \in Nat \ {0}
  PROVE  LoadedAs(b, file, allocation, bflt_load(b, file, allocation).memory, Relocatable(b))
<1> DEFINE h == b.header
           m == Relocated(b, file, allocation, Copied(b, allocation))
           f == FixedUp(b, file, allocation, m)
           A == Memory(b, allocation)
           off(x) == OffsetOf(b, allocation, x)
<1>0. /\ HeaderOk(h)
      /\ HEADER_SIZE \in Nat /\ First(h) \in Nat /\ h.data_start \in Nat
      /\ h.data_end \in Nat /\ h.bss_end \in Nat /\ h.data_end <= h.bss_end
      /\ HEADER_SIZE <= h.data_start
  BY BinaryHeader DEF HeaderOk
<1>1. LoadedAs(b, file, allocation, m, InMemoryOnly(b))
  BY RelocatedAs
<1>2. bflt_load(b, file, allocation).memory = f
  BY DEF bflt_load
<1> HIDE DEF m
<1>3. CASE ~h.gotpic
  <2>1. f = m
    BY <1>3 DEF FixedUp
  <2>2. Relocatable(b) = InMemoryOnly(b)
    BY <1>3, RelocatableIs
  <2> QED
    BY <1>1, <1>2, <2>1, <2>2
<1>4. CASE h.gotpic
  <2>1. PICK e \in h.data_start..(h.data_end - 1) :
           /\ b.words[e] = UINT32_MAX /\ e - HEADER_SIZE \notin InMemoryOnly(b)
           /\ GotWords(b) = h.data_start..(e - 1)
           /\ \A i \in h.data_start..(e - 1) :
                b.words[i] # UINT32_MAX /\ i - HEADER_SIZE \notin InMemoryOnly(b)
    BY <1>4, GotKnown
  <2> DEFINE end == allocation + e - h.data_start
  <2>2. /\ DataStart(h, allocation) = allocation /\ First(h) = h.data_start
        /\ e \in Nat /\ end \in Nat /\ end >= allocation
    <3>1. DataStart(h, allocation) = allocation
      BY <1>0, <1>4, Addresses
    <3>2. First(h) = h.data_start
      BY <1>0, <1>4 DEF HeaderOk
    <3>3. e \in Nat /\ e >= h.data_start
      BY <1>0
    <3> HIDE DEF h
    <3>4. end \in Nat /\ end >= allocation
      BY <1>0, <3>3
    <3> QED
      BY <3>1, <3>2, <3>3, <3>4
  <2>3. /\ DOMAIN m = A
        /\ \A x \in A : m[x] = IF ~InImage(b, allocation, x) THEN UNSET
                               ELSE IF off(x) \in InMemoryOnly(b)
                               THEN Moved(b, file, allocation, ImageWord(b, off(x)))
                               ELSE ImageWord(b, off(x))
    BY <1>1 DEF LoadedAs
  <2>4. ASSUME NEW x \in allocation..end
        PROVE  /\ InImage(b, allocation, x) /\ x \in A
               /\ off(x) + HEADER_SIZE \in h.data_start..e
               /\ off(x) = (off(x) + HEADER_SIZE) - HEADER_SIZE
               /\ off(x) + HEADER_SIZE = e <=> x = end
               /\ off(x) + HEADER_SIZE < h.data_end
               /\ off(x) \notin InMemoryOnly(b)
               /\ m[x] = b.words[off(x) + HEADER_SIZE]
    <3>0. /\ x \in Nat /\ x >= allocation /\ x <= allocation + e - h.data_start
          /\ e < h.data_end
      BY <1>0, <2>2
    <3>1. InImage(b, allocation, x)
      <4> HIDE DEF h
      <4>1. x \in allocation..(allocation + h.bss_end - First(h) - 1)
        BY <1>0, <2>2, <3>0
      <4> QED
        BY <4>1 DEF InImage, h
    <3>2. x \in A
      BY <1>0, <3>1, PlacesInMemory
    <3>3. /\ off(x) + HEADER_SIZE \in h.data_start..e
          /\ off(x) = (off(x) + HEADER_SIZE) - HEADER_SIZE
          /\ off(x) + HEADER_SIZE = e <=> x = end
          /\ off(x) + HEADER_SIZE < h.data_end
      <4>1. off(x) = x - allocation + First(h) - HEADER_SIZE
        BY DEF OffsetOf
      <4> HIDE DEF off, h
      <4> QED
        BY <1>0, <2>2, <3>0, <4>1
    <3>4. off(x) + HEADER_SIZE # e => off(x) + HEADER_SIZE \in h.data_start..(e - 1)
      BY <1>0, <2>2, <3>3
    <3> DEFINE i == off(x) + HEADER_SIZE
    <3>5. i - HEADER_SIZE \notin InMemoryOnly(b)
      <4> HIDE DEF i
      <4>1. i = e \/ i \in h.data_start..(e - 1)
        BY <3>4 DEF i
      <4> QED
        BY <2>1, <4>1
    <3>6. off(x) \notin InMemoryOnly(b)
      BY <3>3, <3>5, Zenon
    <3>7. ImageWord(b, off(x)) = b.words[off(x) + HEADER_SIZE]
      BY <3>3 DEF ImageWord
    <3> QED
      BY <2>3, <3>1, <3>2, <3>3, <3>6, <3>7
  <2> HIDE DEF off
  <2>5. m[end] = UINT32_MAX /\ end \in A
    BY <2>1, <2>2, <2>4
  <2>6. \A x \in allocation..(end - 1) : m[x] # UINT32_MAX
    <3> TAKE x \in allocation..(end - 1)
    <3>1. x \in allocation..end /\ x # end
      BY <2>2
    <3>2. off(x) + HEADER_SIZE \in h.data_start..(e - 1)
      BY <1>0, <2>2, <2>4, <3>1
    <3> QED
      BY <2>1, <2>4, <3>1, <3>2
  <2>7. GotLength(m, allocation) = e - h.data_start
    <3> DEFINE Marks == {x \in DOMAIN m : x >= allocation /\ m[x] = UINT32_MAX}
    <3>0. \A x \in A : x \in Int
      <4>1. bflt_allocation_size(h) \in Int
        <5>1. bflt_allocation_size(h) = h.bss_end - First(h) + h.stack_size
          BY <1>0, Addresses
        <5>2. h.stack_size \in Nat
          BY <1>0 DEF HeaderOk
        <5> QED
          BY <1>0, <5>1, <5>2
      <4> QED
        BY <4>1 DEF Memory, MARGIN
    <3>1. end \in Marks
      BY <2>2, <2>3, <2>5
    <3>2. \A x \in Marks : x \in Int /\ end <= x
      <4> TAKE x \in Marks
      <4>1. x \in Int /\ x >= allocation /\ m[x] = UINT32_MAX
        BY <2>3, <3>0
      <4>2. x \notin allocation..(end - 1)
        BY <2>6, <4>1
      <4> QED
        BY <2>2, <4>1, <4>2
    <3> HIDE DEF Marks
    <3>3. \A x \in Marks : (\A y \in Marks : x <= y) => x = end
      BY <2>2, <3>1, <3>2
    <3>4. Min(Marks) = end
      BY <3>1, <3>2, <3>3 DEF Min
    <3> QED
      BY <1>0, <2>2, <3>4 DEF GotLength, Marks
  <2>8. /\ DOMAIN f = A
        /\ \A x \in A : f[x] = IF x \in allocation..(end - 1)
                               THEN Moved(b, file, allocation, m[x]) ELSE m[x]
    <3>1. allocation + GotLength(m, allocation) - 1 = end - 1
      BY <1>0, <2>2, <2>7
    <3> QED
      BY <1>4, <2>2, <2>3, <3>1 DEF FixedUp, Moved
  <2>9. ASSUME NEW x \in A
        PROVE  f[x] = IF ~InImage(b, allocation, x) THEN UNSET
                      ELSE IF off(x) \in Relocatable(b)
                      THEN Moved(b, file, allocation, ImageWord(b, off(x)))
                      ELSE ImageWord(b, off(x))
    <3>1. Relocatable(b) = InMemoryOnly(b) \cup {i - HEADER_SIZE : i \in h.data_start..(e - 1)}
      BY <1>4, <2>1, RelocatableIs
    <3>2. CASE x \in allocation..(end - 1)
      <4>1. x \in allocation..end /\ x # end
        BY <2>2, <3>2
      <4>2. /\ InImage(b, allocation, x)
            /\ off(x) = (off(x) + HEADER_SIZE) - HEADER_SIZE
            /\ off(x) + HEADER_SIZE \in h.data_start..(e - 1)
            /\ m[x] = ImageWord(b, off(x))
        BY <1>0, <2>2, <2>3, <2>4, <4>1
      <4>3. off(x) \in Relocatable(b)
        BY <3>1, <4>2
      <4> QED
        BY <2>8, <3>2, <4>2, <4>3
    <3>3. CASE x \notin allocation..(end - 1) /\ InImage(b, allocation, x)
      <4>1. off(x) \notin {i - HEADER_SIZE : i \in h.data_start..(e - 1)}
        <5>1. x \in Nat /\ x >= end
          BY <1>0, <2>2, <3>3, PlacesInMemory
        <5>2. off(x) >= e - HEADER_SIZE /\ off(x) \in Int
          BY <1>0, <2>2, <5>1 DEF off, OffsetOf
        <5> QED
          BY <1>0, <2>2, <5>2
      <4>2. off(x) \in Relocatable(b) <=> off(x) \in InMemoryOnly(b)
        BY <3>1, <4>1
      <4> QED
        BY <2>3, <2>8, <3>3, <4>2
    <3>4. CASE ~InImage(b, allocation, x)
      <4>1. x \notin allocation..(end - 1)
        <5>1. \A y \in allocation..(end - 1) : y \in allocation..end
          BY <2>2
        <5> QED
          BY <2>4, <3>4, <5>1
      <4> QED
        BY <2>3, <2>8, <3>4, <4>1
    <3> QED
      BY <3>2, <3>3, <3>4
  <2>10. LoadedAs(b, file, allocation, f, Relocatable(b))
    BY <2>8, <2>9 DEF LoadedAs, off
  <2> QED
    BY <1>2, <2>10
<1> QED
  BY <1>3, <1>4

-----------------------------------------------------------------------------
(***************************************************************************)
(* bflt_load as a whole, and the arguments put on the stack.               *)
(***************************************************************************)

(* The same, with anything above the image.                                *)
ImageIn(b, file, allocation, memory) ==
  /\ DOMAIN memory = Memory(b, allocation)
  /\ \A x \in Memory(b, allocation) :
       LET o == OffsetOf(b, allocation, x)
       IN  /\ InImage(b, allocation, x) =>
                memory[x] = IF o \in Relocatable(b) THEN Moved(b, file, allocation, ImageWord(b, o))
                            ELSE ImageWord(b, o)
           /\ memory[x] # UNSET => x \in allocation..(allocation + bflt_allocation_size(b.header) - 1)
EntryPoint(b, file, allocation) ==
  IF b.header.gotpic THEN file + b.header.entry_point
  ELSE allocation + b.header.entry_point - HEADER_SIZE

(* That is what LoadedRight asks for, since a file ends before the         *)
(* allocation.                                                             *)
LEMMA LoadedRightIf ==
  ASSUME NEW b, IsBinary(b), NEW file \in Nat, NEW allocation \in Nat \ {0}, NEW loaded,
         file + b.header.data_end <= allocation,
         ImageIn(b, file, allocation, loaded.memory),
         loaded.program_counter = EntryPoint(b, file, allocation)
  PROVE  LoadedRight(b, file, allocation, loaded)
<1> DEFINE h == b.header
           At(o) == Home(h, file, allocation, o)
           Word(o) == IF o + HEADER_SIZE < h.data_end THEN b.words[o + HEADER_SIZE] ELSE 0
           R == Relocatable(b)
           image == 0..(ImageSize(h) - 1)
<1>0. /\ HeaderOk(h) /\ OffsetsAre(h, file, allocation)
      /\ HEADER_SIZE \in Nat /\ First(h) \in Nat /\ h.data_start \in Nat /\ h.data_end \in Nat
      /\ h.bss_end \in Nat /\ HEADER_SIZE <= First(h) /\ First(h) <= h.data_start
      /\ h.data_start <= h.data_end /\ h.data_end <= h.bss_end
  BY BinaryHeader, Addresses DEF HeaderOk
<1>1. \A o \in image : /\ o \in Nat
                       /\ At(o) = IF o + HEADER_SIZE >= First(h) THEN Place(h, allocation, o)
                                  ELSE file + HEADER_SIZE + o
  BY <1>0, Homes
<1>2. \A o \in image : Moved(b, file, allocation, o) = At(o)
  BY <1>0, <1>1 DEF Moved, OffsetsAre
<1>3. \A o \in R : Word(o) \in image
  <2> TAKE o \in R
  <2>1. b.words[o + HEADER_SIZE] \in image
    BY DEF IsBinary
  <2>2. o + HEADER_SIZE < h.data_end
    <3>1. CASE o \in InMemoryOnly(b)
      <4>1. PICK i \in 1..Len(b.relocations) : b.relocations[i] = o
        BY <3>1, Targets DEF InMemoryOnly
      <4>2. o \in Nat /\ o \in 0..(h.data_end - HEADER_SIZE - 1)
        BY <4>1, Targets
      <4> QED
        BY <1>0, <4>2
    <3>2. CASE o \notin InMemoryOnly(b)
      <4>1. PICK i \in GotWords(b) : o = i - HEADER_SIZE
        BY <3>2, RelocatableIs
      <4>2. i \in h.data_start..(h.data_end - 1)
        BY DEF GotWords
      <4> HIDE DEF h
      <4> QED
        BY <1>0, <4>1, <4>2
    <3> QED
      BY <3>1, <3>2
  <2> QED
    BY <2>1, <2>2
<1> HIDE DEF h, At, R, image
<1>4. ASSUME NEW o \in image, At(o) >= allocation
      PROVE  loaded.memory[At(o)] = IF o \in R THEN At(Word(o)) ELSE Word(o)
  <2>1. o + HEADER_SIZE >= First(h)
    <3> SUFFICES ASSUME ~(o + HEADER_SIZE >= First(h)) PROVE FALSE
      OBVIOUS
    <3>1. At(o) = file + HEADER_SIZE + o /\ o \in Nat
      BY <1>1
    <3>2. file + h.data_end <= allocation
      BY DEF h
    <3> QED
      BY <1>0, <1>4, <3>1, <3>2
  <2>2. At(o) = Place(h, allocation, o) /\ o \in Nat
    BY <1>1, <2>1
  <2>3. InImage(b, allocation, At(o)) /\ OffsetOf(b, allocation, At(o)) = o
    BY <1>0, <2>1, <2>2, OffsetsInMemory DEF h, image
  <2>4. At(o) \in Memory(b, allocation)
    BY <1>0, <2>3, PlacesInMemory DEF h
  <2>5. loaded.memory[At(o)] = IF o \in R THEN Moved(b, file, allocation, ImageWord(b, o))
                               ELSE ImageWord(b, o)
    BY <2>3, <2>4 DEF ImageIn, R
  <2>6. ImageWord(b, o) = Word(o)
    BY DEF ImageWord, h
  <2> HIDE DEF Word
  <2> QED
    BY <1>2, <1>3, <2>5, <2>6
<1>5. loaded.program_counter = At(h.entry_point - HEADER_SIZE)
  <2> DEFINE o == h.entry_point - HEADER_SIZE
  <2>1. h.entry_point \in Nat /\ HEADER_SIZE <= h.entry_point /\ h.entry_point < h.data_start
    <3>1. h.entry_point \in HEADER_SIZE..(h.data_start - 1)
      BY DEF IsBinary, h
    <3> QED
      BY <1>0, <3>1
  <2>2. o \in image
    BY <1>0, <2>1 DEF image, ImageSize
  <2>3. At(o) = IF o + HEADER_SIZE >= First(h) THEN Place(h, allocation, o)
                ELSE file + HEADER_SIZE + o
    BY <1>1, <2>2
  <2>4. o + HEADER_SIZE = h.entry_point /\ file + HEADER_SIZE + o = file + h.entry_point
    BY <1>0, <2>1
  <2>5. CASE h.gotpic
    <3>1. First(h) = h.data_start
      BY <1>0, <2>5 DEF HeaderOk
    <3>2. At(o) = file + h.entry_point
      BY <1>0, <2>1, <2>3, <2>4, <3>1
    <3> QED
      BY <2>5, <3>2 DEF EntryPoint, h
  <2>6. CASE ~h.gotpic
    <3>1. First(h) = HEADER_SIZE
      BY <1>0, <2>6 DEF HeaderOk
    <3>2. At(o) = Place(h, allocation, o)
      BY <1>0, <2>1, <2>3, <2>4, <3>1
    <3>3. Place(h, allocation, o) = allocation + h.entry_point - HEADER_SIZE
      BY <1>0, <2>1, <3>1 DEF Place
    <3> QED
      BY <2>6, <3>2, <3>3 DEF EntryPoint, h
  <2> QED
    BY <2>5, <2>6
<1>6. \A x \in DOMAIN loaded.memory :
        loaded.memory[x] # UNSET => x \in allocation..(allocation + bflt_allocation_size(h) - 1)
  BY DEF ImageIn, h
<1> QED
  BY <1>4, <1>5, <1>6 DEF LoadedRight, h, At, R, image

(* bflt_load, for every binary and wherever it is put.                     *)
LEMMA LoadIs ==
  ASSUME NEW b, IsBinary(b), NEW file \in Nat, NEW allocation \in Nat \ {0}
  PROVE  LET loaded == bflt_load(b, file, allocation)
         IN  /\ ImageIn(b, file, allocation, loaded.memory)
             /\ loaded.program_counter = EntryPoint(b, file, allocation)
             /\ loaded.stack_pointer = allocation + bflt_allocation_size(b.header)
<1> DEFINE h == b.header
           loaded == bflt_load(b, file, allocation)
           m == loaded.memory
<1>1. /\ loaded.program_counter = EntryPoint(b, file, allocation)
      /\ loaded.stack_pointer = allocation + bflt_allocation_size(h)
  BY DEF bflt_load, EntryPoint
<1>2. LoadedAs(b, file, allocation, m, Relocatable(b))
  BY FixedUpAs
<1> HIDE DEF m
<1>3. ASSUME NEW x \in Memory(b, allocation), m[x] # UNSET
      PROVE  x \in allocation..(allocation + bflt_allocation_size(h) - 1)
  <2>1. InImage(b, allocation, x)
    BY <1>2, <1>3 DEF LoadedAs
  <2>2. /\ bflt_allocation_size(h) = h.bss_end - First(h) + h.stack_size
        /\ First(h) \in Nat /\ h.bss_end \in Nat /\ h.stack_size \in Nat
    BY BinaryHeader, Addresses DEF HeaderOk
  <2>3. x \in allocation..(allocation + h.bss_end - First(h) - 1)
    BY <2>1 DEF InImage
  <2> HIDE DEF h
  <2> QED
    BY <2>2, <2>3
<1>4. ImageIn(b, file, allocation, m)
  BY <1>2, <1>3 DEF LoadedAs, ImageIn
<1> QED
  BY <1>1, <1>4 DEF m

(* start_arguments and add_argument, with room for them on the stack.      *)
LEMMA ArgumentsIs ==
  ASSUME NEW b, IsBinary(b), NEW file \in Nat, NEW allocation \in Nat \ {0}, NEW loaded,
         ImageIn(b, file, allocation, loaded.memory),
         loaded.stack_pointer = allocation + bflt_allocation_size(b.header),
         loaded = [memory |-> loaded.memory, program_counter |-> loaded.program_counter,
                   stack_pointer |-> loaded.stack_pointer, got_pointer |-> loaded.got_pointer],
         NEW first, NEW second, b.header.stack_size >= 3
  PROVE  LET new == WithArguments(loaded, <<first, second>>)
             size == bflt_allocation_size(b.header)
         IN  /\ ImageIn(b, file, allocation, new.memory)
             /\ new.program_counter = loaded.program_counter
             /\ new.stack_pointer = allocation + size - 3
             /\ new.stack_pointer \in allocation..(allocation + size - 1)
             /\ new.stack_pointer >= allocation + size - b.header.stack_size
             /\ new.memory[new.stack_pointer + 1] = first
             /\ new.memory[new.stack_pointer + 2] = second
<1> DEFINE h == b.header
           size == bflt_allocation_size(h)
           arguments == <<first, second>>
           new == WithArguments(loaded, arguments)
           sp == allocation + size - 3
           A == Memory(b, allocation)
           m == loaded.memory
<1>1. /\ size = h.bss_end - First(h) + h.stack_size
      /\ First(h) \in Nat /\ h.bss_end \in Nat /\ h.stack_size \in Nat /\ First(h) <= h.bss_end
  BY BinaryHeader, Addresses DEF HeaderOk
<1>2. Len(arguments) = 2 /\ arguments[1] = first /\ arguments[2] = second
  OBVIOUS
<1>3. loaded.stack_pointer - (Len(arguments) + 1) = sp
  BY <1>1, <1>2
<1>4. /\ new.stack_pointer = sp /\ new.program_counter = loaded.program_counter
      /\ new.memory = [x \in DOMAIN m |-> IF x \in sp + 1..sp + 2 THEN arguments[x - sp] ELSE m[x]]
  BY <1>2, <1>3 DEF WithArguments
<1>5. DOMAIN m = A
  BY DEF ImageIn
<1> HIDE DEF h, size, m, new, arguments
<1>6. /\ sp \in Nat /\ sp \in allocation..(allocation + size - 1) /\ h.stack_size >= 3
      /\ sp >= allocation + size - h.stack_size
      /\ sp + 1 >= allocation + h.bss_end - First(h) /\ sp + 2 = allocation + size - 1
  <2>1. h.stack_size >= 3
    BY DEF h
  <2> QED
    BY <1>1, <2>1
<1>7. sp + 1 \in A /\ sp + 2 \in A
  BY <1>1, <1>6 DEF Memory, MARGIN, size, h
<1> HIDE DEF sp
<1>8. new.memory[sp + 1] = first /\ new.memory[sp + 2] = second
  <2>1. /\ sp + 1 \in sp + 1..sp + 2 /\ sp + 2 \in sp + 1..sp + 2
        /\ (sp + 1) - sp = 1 /\ (sp + 2) - sp = 2
    BY <1>6
  <2> QED
    BY <1>2, <1>4, <1>5, <1>7, <2>1
<1>9. ImageIn(b, file, allocation, new.memory)
  <2>1. DOMAIN new.memory = A
    BY <1>4, <1>5
  <2>2. ASSUME NEW x \in A
        PROVE  LET o == OffsetOf(b, allocation, x)
               IN  /\ InImage(b, allocation, x) =>
                        new.memory[x] = IF o \in Relocatable(b)
                                        THEN Moved(b, file, allocation, ImageWord(b, o))
                                        ELSE ImageWord(b, o)
                   /\ new.memory[x] # UNSET => x \in allocation..(allocation + size - 1)
    <3>1. CASE x \in sp + 1..sp + 2
      <4>1. x \in allocation..(allocation + size - 1)
        BY <1>1, <1>6, <3>1
      <4>2. ~InImage(b, allocation, x)
        <5>1. x \notin allocation..(allocation + h.bss_end - First(h) - 1)
          BY <1>1, <1>6, <3>1
        <5> QED
          BY <5>1 DEF InImage, h
      <4> QED
        BY <4>1, <4>2
    <3>2. CASE x \notin sp + 1..sp + 2
      <4>1. new.memory[x] = m[x]
        BY <1>4, <1>5, <3>2
      <4> QED
        BY <4>1 DEF ImageIn, m, size, h
    <3> QED
      BY <3>1, <3>2
  <2> QED
    BY <2>1, <2>2 DEF ImageIn, size, h
<1> QED
  BY <1>4, <1>6, <1>8, <1>9 DEF sp, size, h, new, arguments

-----------------------------------------------------------------------------
(***************************************************************************)
(* The boot: every process it starts runs the image of its binary.         *)
(***************************************************************************)

(* What is right about one process.                                        *)
ProcessRight(files, p, process) ==
  LET loaded == process.loaded
      h == process.binary.header
  IN  /\ files[process.file].type = "regular"
      /\ files[process.file].name = IF p = 2 THEN VFS_SERVER ELSE INITRD_FS
      /\ LoadedRight(process.binary, FileAddress(process.file), Allocation(p), loaded)
      /\ loaded.stack_pointer >= Allocation(p) + bflt_allocation_size(h) - h.stack_size
      /\ p # 2 => /\ loaded.stack_pointer \in Allocation(p)..(Allocation(p) + bflt_allocation_size(h) - 1)
                  /\ loaded.memory[loaded.stack_pointer + 1] = ARCHIVE
                  /\ loaded.memory[loaded.stack_pointer + 2] = HEAP
ImagesInv == initrd.files \in Initrd /\ \A p \in DOMAIN processes : ProcessRight(initrd.files, p, processes[p])

(* The file that jax_find finds: a regular one with the name that was      *)
(* asked for, which ends before the memory for processes.                  *)
LEMMA FoundFile ==
  ASSUME NEW r \in Initrd, NEW name \in {VFS_SERVER, INITRD_FS}, jax_find(r, name) # 0,
         bflt_verify(r[jax_find(r, name)].binary.header)
  PROVE  LET i == jax_find(r, name)
             b == r[i].binary
         IN  /\ r[i].type = "regular" /\ r[i].name = name
             /\ IsBinary(b) /\ b.header.stack_size >= 3
             /\ FileAddress(i) \in Nat /\ FileAddress(i) + b.header.data_end <= HEAP
<1> DEFINE i == jax_find(r, name)
           b == r[i].binary
           hits == {j \in DOMAIN r : r[j].type = "regular" /\ IsPrefix(name, r[j].name)}
<1>1. /\ ARCHIVE \in Nat /\ FILE_WORDS \in Nat /\ HEAP \in Nat
      /\ Len(r) \in Nat /\ DOMAIN r = 1..Len(r) /\ ARCHIVE + Len(r) * FILE_WORDS <= HEAP
  BY ArchiveAssumption
<1>2. /\ r[i].name = name
      /\ IsBinary(b) /\ b.header.data_end <= FILE_WORDS /\ b.header.stack_size >= 3
  BY ArchiveAssumption
<1>3. hits # {} /\ i = Min(hits)
  BY DEF jax_find
<1>4. hits \in SUBSET Nat
  BY <1>1
<1> HIDE DEF hits
<1>5. i \in hits
  BY <1>3, <1>4, LeastNat DEF Min
<1>6. i \in 1..Len(r) /\ r[i].type = "regular"
  BY <1>1, <1>5 DEF hits
<1> HIDE DEF i
<1>7. FileAddress(i) \in Nat /\ FileAddress(i) + FILE_WORDS <= HEAP
  <2>1. i \in Nat /\ i >= 1 /\ i <= Len(r)
    BY <1>1, <1>6
  <2>2. ASSUME NEW m \in Nat, NEW n \in Nat
        PROVE  m * n \in Nat
    OBVIOUS
  <2>3. ASSUME NEW k \in Nat, NEW l \in Nat, NEW n \in Nat, k <= l
        PROVE  k * n <= l * n
    <3>1. (l - k) * n \in Nat
      BY <2>2, <2>3
    <3>2. (l - k) * n = l * n - k * n
      BY <2>3
    <3>3. k * n \in Int /\ l * n \in Int
      OBVIOUS
    <3> QED
      BY <3>1, <3>2, <3>3
  <2>4. i * FILE_WORDS <= Len(r) * FILE_WORDS
    BY <1>1, <2>1, <2>3
  <2>5. (i - 1) * FILE_WORDS \in Nat
    BY <1>1, <2>1, <2>2
  <2>6. (i - 1) * FILE_WORDS + FILE_WORDS = i * FILE_WORDS
    BY <1>1, <2>1
  <2>7. i * FILE_WORDS \in Nat /\ Len(r) * FILE_WORDS \in Nat
    BY <1>1, <2>1, <2>2
  <2> DEFINE x == (i - 1) * FILE_WORDS
             y == i * FILE_WORDS
             z == Len(r) * FILE_WORDS
  <2>8. /\ FileAddress(i) = ARCHIVE + x /\ x \in Nat /\ y \in Nat /\ z \in Nat
        /\ x + FILE_WORDS = y /\ y <= z /\ ARCHIVE + z <= HEAP
    BY <1>1, <2>4, <2>5, <2>6, <2>7 DEF FileAddress
  <2> HIDE DEF x, y, z
  <2> QED
    BY <1>1, <2>8
<1>8. b.header.data_end \in Nat
  BY <1>2, BinaryHeader DEF HeaderOk
<1> HIDE DEF b
<1>9. FileAddress(i) + b.header.data_end <= HEAP
  BY <1>1, <1>2, <1>7, <1>8
<1> QED
  BY <1>2, <1>6, <1>7, <1>9 DEF i, b

(* A process's memory has a size.                                          *)
LEMMA SizeIs ==
  ASSUME NEW h, HeaderOk(h)
  PROVE  bflt_allocation_size(h) \in Nat
<1>1. bflt_allocation_size(h) = h.bss_end - First(h) + h.stack_size
  BY Addresses
<1>2. /\ First(h) \in Nat /\ h.bss_end \in Nat /\ h.stack_size \in Nat
      /\ First(h) <= h.bss_end
  <2>1. /\ First(h) \in HEADER_SIZE..h.data_start /\ HEADER_SIZE \in Nat
        /\ h.data_start \in Nat /\ h.data_end \in Nat /\ h.bss_end \in 0..UINT32_MAX
        /\ h.stack_size \in Nat /\ UINT32_MAX \in Nat
        /\ h.data_start <= h.data_end /\ h.data_end <= h.bss_end
    BY DEF HeaderOk
  <2> QED
    BY <2>1
<1> QED
  BY <1>1, <1>2

(* What exec_from_initrd starts is right.                                  *)
StartedRight(e, pid) ==
  \/ e.processes = processes
  \/ \E new : e.processes = Put(processes, pid, new) /\ ProcessRight(initrd.files, pid, new)

(* exec_from_initrd starts nothing, or a process whose image is right.     *)
LEMMA StartedImages ==
  ASSUME initrd.files \in Initrd, NEW pid, NEW name, NEW arguments, NEW refuse,
         \/ pid = 2 /\ name = VFS_SERVER /\ arguments = <<>>
         \/ pid = 3 /\ name = INITRD_FS /\ arguments = <<ARCHIVE, HEAP>>
  PROVE  StartedRight(Started(pid, name, arguments, refuse), pid)
<1> DEFINE r == initrd.files
           i == jax_find(r, name)
           b == r[i].binary
           A == Allocation(pid)
           loaded == bflt_load(b, FileAddress(i), A)
           new == [file |-> i, binary |-> b,
                   loaded |-> IF arguments = <<>> THEN loaded ELSE WithArguments(loaded, arguments)]
           e == Started(pid, name, arguments, refuse)
<1>1. \/ e.processes = processes
      \/ i # 0 /\ bflt_verify(b.header) /\ e.processes = Put(processes, pid, new)
  BY DEF Started, exec_from_initrd
<1>2. CASE i # 0 /\ bflt_verify(b.header)
  <2>1. name \in {VFS_SERVER, INITRD_FS}
    OBVIOUS
  <2>2. /\ r[i].type = "regular" /\ r[i].name = name
        /\ IsBinary(b) /\ b.header.stack_size >= 3
        /\ FileAddress(i) \in Nat /\ FileAddress(i) + b.header.data_end <= HEAP
    BY <1>2, <2>1, FoundFile
  <2>3. A \in Nat \ {0} /\ HEAP <= A
    <3>1. HEAP \in Nat \ {0} /\ FILE_WORDS \in Nat
      BY ArchiveAssumption
    <3>2. A = HEAP + 2 * FILE_WORDS \/ A = HEAP + 3 * FILE_WORDS
      BY DEF Allocation
    <3> QED
      BY <3>1, <3>2
  <2>4. HeaderOk(b.header) /\ bflt_allocation_size(b.header) \in Nat
    <3>1. HeaderOk(b.header)
      BY <2>2, BinaryHeader
    <3> QED
      BY <3>1, SizeIs
  <2>5. FileAddress(i) + b.header.data_end <= A
    <3>1. HEAP \in Nat /\ b.header.data_end \in Nat
      BY <2>4, ArchiveAssumption DEF HeaderOk
    <3> HIDE DEF i, b, A
    <3> QED
      BY <2>2, <2>3, <3>1
  <2>6. /\ ImageIn(b, FileAddress(i), A, loaded.memory)
        /\ loaded.program_counter = EntryPoint(b, FileAddress(i), A)
        /\ loaded.stack_pointer = A + bflt_allocation_size(b.header)
    BY <2>2, <2>3, LoadIs
  <2>7. loaded = [memory |-> loaded.memory, program_counter |-> loaded.program_counter,
                  stack_pointer |-> loaded.stack_pointer, got_pointer |-> loaded.got_pointer]
    BY DEF bflt_load
  <2> HIDE DEF i, b, A, loaded
  <2>8. CASE pid = 2 /\ name = VFS_SERVER /\ arguments = <<>>
    <3>1. new = [file |-> i, binary |-> b, loaded |-> loaded]
      BY <2>8
    <3>2. LoadedRight(b, FileAddress(i), A, loaded)
      BY <2>2, <2>3, <2>5, <2>6, LoadedRightIf
    <3>3. loaded.stack_pointer >= A + bflt_allocation_size(b.header) - b.header.stack_size
      <4>1. /\ b.header.stack_size \in Nat /\ bflt_allocation_size(b.header) \in Nat
            /\ A \in Nat /\ loaded.stack_pointer = A + bflt_allocation_size(b.header)
        BY <2>3, <2>4, <2>6 DEF HeaderOk
      <4> QED
        BY <4>1
    <3>4. ProcessRight(r, pid, [file |-> i, binary |-> b, loaded |-> loaded])
      BY <2>2, <2>8, <3>2, <3>3 DEF ProcessRight, A
    <3>5. ProcessRight(r, pid, new)
      BY <3>1, <3>4
    <3> QED
      BY <1>1, <3>5 DEF StartedRight
  <2>9. CASE pid = 3 /\ name = INITRD_FS /\ arguments = <<ARCHIVE, HEAP>>
    <3> DEFINE w == WithArguments(loaded, <<ARCHIVE, HEAP>>)
    <3>1. new = [file |-> i, binary |-> b, loaded |-> w]
      BY <2>9
    <3>2. /\ ImageIn(b, FileAddress(i), A, w.memory)
          /\ w.program_counter = loaded.program_counter
          /\ w.stack_pointer \in A..(A + bflt_allocation_size(b.header) - 1)
          /\ w.stack_pointer >= A + bflt_allocation_size(b.header) - b.header.stack_size
          /\ w.memory[w.stack_pointer + 1] = ARCHIVE
          /\ w.memory[w.stack_pointer + 2] = HEAP
      BY <2>2, <2>3, <2>6, <2>7, ArgumentsIs
    <3> HIDE DEF w
    <3>3. LoadedRight(b, FileAddress(i), A, w)
      BY <2>2, <2>3, <2>5, <2>6, <3>2, LoadedRightIf
    <3>4. ProcessRight(r, pid, [file |-> i, binary |-> b, loaded |-> w])
      BY <2>2, <2>9, <3>2, <3>3 DEF ProcessRight, A
    <3>5. ProcessRight(r, pid, new)
      BY <3>1, <3>4
    <3> QED
      BY <1>1, <3>5 DEF StartedRight
  <2> QED
    BY <2>8, <2>9
<1>3. CASE ~(i # 0 /\ bflt_verify(b.header))
  BY <1>1, <1>3 DEF StartedRight
<1> QED
  BY <1>2, <1>3

(* A step starts one process more, or none.                                *)
LEMMA ImagesStep ==
  ASSUME PidsInv, ImagesInv, [BootNext]_bootVars
  PROVE  ImagesInv'
<1> DEFINE r == initrd.files
<1>0. /\ PidsAt(pc["process_server"], pids, DOMAIN processes)
      /\ r \in Initrd /\ \A p \in DOMAIN processes : ProcessRight(r, p, processes[p])
  BY DEF PidsInv, ImagesInv
<1>1. ASSUME UNCHANGED <<initrd, processes>> PROVE ImagesInv'
  BY <1>0, <1>1 DEF ImagesInv
<1>2. ASSUME UNCHANGED initrd, NEW e, NEW pid, pid \notin DOMAIN processes,
             StartedRight(e, pid), processes' = e.processes
      PROVE  ImagesInv'
  <2>1. CASE e.processes = processes
    BY <1>1, <1>2, <2>1
  <2>2. CASE \E new : e.processes = Put(processes, pid, new) /\ ProcessRight(r, pid, new)
    <3>1. PICK new : e.processes = Put(processes, pid, new) /\ ProcessRight(r, pid, new)
      BY <2>2
    <3>2. /\ DOMAIN Put(processes, pid, new) = DOMAIN processes \cup {pid}
          /\ \A p \in DOMAIN processes \cup {pid} :
               Put(processes, pid, new)[p] = IF p = pid THEN new ELSE processes[p]
      BY DEF Put
    <3>3. \A p \in DOMAIN processes' : ProcessRight(r, p, processes'[p])
      BY <1>0, <1>2, <3>1, <3>2
    <3> QED
      BY <1>0, <1>2, <3>3 DEF ImagesInv
  <2> QED
    BY <1>2, <2>1, <2>2 DEF StartedRight
<1>3. ASSUME NEW refuse, StartVfsServer(refuse) PROVE ImagesInv'
  <2>1. pids = {0, 1} /\ DOMAIN processes = {}
    BY <1>0, <1>3 DEF StartVfsServer, PidsAt
  <2>2. allocate_pid(pids) = 2
    BY <2>1, PidsGiven
  <2> DEFINE e == Started(2, VFS_SERVER, <<>>, refuse)
  <2>3. StartedRight(e, 2)
    BY <1>0, StartedImages
  <2>4. UNCHANGED initrd /\ (processes' = e.processes \/ processes' = processes)
    BY <1>3, <2>2 DEF StartVfsServer
  <2> HIDE DEF e
  <2> QED
    BY <1>1, <1>2, <2>1, <2>3, <2>4
<1>4. ASSUME NEW refuse, ExecInitrdFs(refuse) PROVE ImagesInv'
  <2>1. pids = {0, 1, 2, 3} /\ DOMAIN processes = {2}
    BY <1>0, <1>4 DEF ExecInitrdFs, PidsAt
  <2>2. Max(pids) = 3
    BY <2>1, PidsGiven
  <2> DEFINE e == Started(3, INITRD_FS, <<ARCHIVE, HEAP>>, refuse)
  <2>3. StartedRight(e, 3)
    BY <1>0, StartedImages
  <2>4. UNCHANGED initrd /\ processes' = e.processes
    BY <1>4, <2>2 DEF ExecInitrdFs
  <2>5. 3 \notin DOMAIN processes
    BY <2>1
  <2> HIDE DEF e
  <2> QED
    BY <1>2, <2>3, <2>4, <2>5
<1>5. ASSUME NEW refuse, PrepareInitrdFs(refuse) PROVE ImagesInv'
  BY <1>1, <1>5 DEF PrepareInitrdFs
<1>6. ASSUME VfsServerStep \/ InitrdFsStep \/ ProcessServerMessage \/ InitrdFsMessage
      PROVE  ImagesInv'
  <2>1. UNCHANGED <<initrd, processes>>
    BY <1>6 DEF VfsServerStep, InitrdFsStep, ProcessServerMessage, InitrdFsMessage, VfsStart,
                VfsSetUp, InitrdFsStart, SendEndpoint, SendRoot, ReplyNewProcess,
                CallNewProcess, CallMount, ReplyMount
  <2> QED
    BY <1>1, <2>1
<1>7. CASE UNCHANGED bootVars
  BY <1>1, <1>7 DEF bootVars
<1> QED
  BY <1>3, <1>4, <1>5, <1>6, <1>7 DEF BootNext, ProcessServerStep

(* Whatever files the archive holds and wherever they lie, what            *)
(* exec_from_initrd has bflt_load start is the file that was asked for,    *)
(* with every word where the binary says, everything that refers to        *)
(* another word leading to it, and its arguments on its own stack.         *)
THEOREM ImagesCorrect == BootSpec => []ImagesRight
<1>1. BootInit => PidsInv /\ ImagesInv
  <2> SUFFICES ASSUME BootInit PROVE PidsInv /\ ImagesInv
    OBVIOUS
  <2>1. initrd.files \in Initrd /\ DOMAIN processes = {}
    BY DEF BootInit
  <2> QED
    BY <2>1, PidsStart DEF ImagesInv
<1>2. PidsInv /\ ImagesInv /\ [BootNext]_bootVars => PidsInv' /\ ImagesInv'
  BY PidsStep, ImagesStep
<1>3. ImagesInv => ImagesRight
  BY DEF ImagesInv, ImagesRight, ProcessRight, Image
<1> QED
  BY <1>1, <1>2, <1>3, PTL DEF BootSpec
=============================================================================
