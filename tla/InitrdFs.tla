------------------------------ MODULE InitrdFs ------------------------------
(***************************************************************************)
(* The file system server for the initial RAM disk, src/core/initrd_fs,    *)
(* and the part of the jax archive reader that it uses.                    *)
(*                                                                         *)
(* The archive is a constant: a sequence of entries, each with the number  *)
(* of its directory's entry (0 for the root), its own name and its size.   *)
(* What the server sees of it are full paths, at addresses: the entry i is *)
(* at START + i - 1, and address 0 is NULL.  The server finds everything   *)
(* else out by comparing paths, so what it answers can be checked against  *)
(* the tree it was made from.                                              *)
(*                                                                         *)
(* The server has one thread and handles a message to the end before it    *)
(* receives the next, so a message is a step.  A descriptor is the badge   *)
(* of the server's endpoint: the address of an entry, or 0 for the root.   *)
(***************************************************************************)
EXTENDS Naturals, Sequences, FiniteSets, FiniteSetsExt, SequencesExt

CONSTANTS
  Archives,               \* the archives to look at
  HEADER,                 \* sizeof(struct vfs_directory_entry)
  FD_READ_FAST_MAX_SIZE,
  Name,                   \* names that are asked for
  Size,                   \* numbers of bytes that are asked for
  Capacity,               \* sizes of buffers
  Calls                   \* situations that are told apart, see AllCalls

(***************************************************************************)
(* refused        a client does not take the descriptor it is sent         *)
(* short_buffer   a directory is read into less than HEADER bytes          *)
(* empty_last     the archive ends with an entry without data              *)
(* root_stat      the root directory's inode is asked for                  *)
(* unsent         a message comes without the buffer or the name it needs  *)
(***************************************************************************)
AllCalls == {"refused", "short_buffer", "empty_last", "root_stat", "unsent"}

(* What invoke_capability returns for an empty slot, to UNTYPED_LOCK and   *)
(* UNTYPED_SIZEOF too: an address that is not NULL, and a size.            *)
ECAPINVAL == 7

IPC_CAPABILITY_SLOTS == 4
TEMPORARY == IPC_CAPABILITY_SLOTS + 1   \* the slot where descriptors are made
NULL == 0
ROOT == 0
MAGIC == 1                 \* the address of the archive's first bytes, initrd_start
START == MAGIC + 1         \* that of the first entry, iterator.start

(* As utils/jax writes them: a directory comes before what is in it and    *)
(* has no data, names in one directory differ, and there are no            *)
(* descriptions.  A name is a sequence of characters that are neither the  *)
(* separator nor the zero byte, "nul".                                     *)
IsArchive(r) ==
  /\ r \in Seq([parent : Nat, type : {"directory", "regular"}, name : Seq(STRING), size : Nat])
  /\ \A i \in DOMAIN r :
       /\ r[i].parent \in 0..(i - 1)
       /\ r[i].parent # 0 => r[r[i].parent].type = "directory"
       /\ r[i].type = "directory" => r[i].size = 0
       /\ Len(r[i].name) > 0 /\ \A k \in DOMAIN r[i].name : r[i].name[k] \notin {"/", "nul"}
       /\ \A j \in DOMAIN r : r[j].parent = r[i].parent /\ r[j].name = r[i].name => j = i

ASSUME InitrdAssumption ==
  /\ \A r \in Archives : IsArchive(r)
  /\ HEADER \in Nat \ {0} /\ FD_READ_FAST_MAX_SIZE \in Nat
  /\ HEADER <= FD_READ_FAST_MAX_SIZE
  /\ \A n \in Name : n \in Seq(STRING) /\ \A k \in DOMAIN n : n[k] # "nul"
  /\ Size \subseteq Nat /\ Capacity \subseteq Nat
  /\ Calls \subseteq AllCalls

VARIABLES
  archive,   \* the archive in memory
  node,      \* the occupied slots of the node for received and temporary capabilities
  walks,     \* for every descriptor given out, how far its holder has read it
  last       \* the last message and its answer
vars == <<archive, node, walks, last>>
held == DOMAIN walks

-----------------------------------------------------------------------------
(***************************************************************************)
(* jax.c.  The path of the entry at an address, and the file that          *)
(* jax_next_file reads there.  It wants a byte behind the header, so it    *)
(* does not see a last entry without data.                                 *)
(***************************************************************************)
Addresses == START..(START + Len(archive) - 1)
End == START + Len(archive)
Entry(a) == archive[a - START + 1]
DirectoryOf(a) == IF Entry(a).parent = 0 THEN ROOT ELSE START + Entry(a).parent - 1
Path(address) ==
  LET path[a \in Addresses] ==
        IF DirectoryOf(a) = ROOT THEN Entry(a).name
        ELSE path[DirectoryOf(a)] \o <<"/">> \o Entry(a).name
  IN  IF address = ROOT THEN <<>> ELSE path[address]
jax_next_file(a) == a \in Addresses /\ (Entry(a).size > 0 \/ a # End - 1)

(* main.c.  The address behind the entry, or NULL. *)
next_file(a) == IF jax_next_file(a) THEN a + 1 ELSE NULL

Type(b) == IF b = ROOT THEN "directory" ELSE Entry(b).type
Separators(path, from) == {i \in from..Len(path) : path[i] = "/"}
(* Mutant: the separator behind the prefix is not looked at. *)
IsInPrefix(dir, path) ==
  IF Len(dir) = 0 THEN Separators(path, 1) = {}
  ELSE Len(path) > Len(dir) /\ IsPrefix(dir, path) /\ Separators(path, Len(dir) + 2) = {}
IsIn(dir, path) ==
  IF Len(dir) = 0 THEN Separators(path, 1) = {}
  ELSE /\ Len(path) >= Len(dir) + 1
       /\ IsPrefix(dir, path) /\ path[Len(dir) + 1] = "/"
       /\ Separators(path, Len(dir) + 2) = {}

(* The first entry at or behind an address that is in a directory, or      *)
(* NULL; the code also returns the address behind it.                      *)
FilesInDir(dir, address) ==
  {a \in Addresses : a >= address /\ next_file(a) # NULL /\ IsIn(Path(dir), Path(a))}
next_file_in_dir(dir, address) ==
  LET in == FilesInDir(dir, address)
  IN  IF address < MAGIC \/ in = {} THEN NULL ELSE Min(in)

-----------------------------------------------------------------------------
(***************************************************************************)
(* An answer: FD_RETURN_VALUE, the bytes read, what they are (offsets in a *)
(* file; in a directory an entry's inode), the entry's next_entry_position *)
(* and name, and the descriptor that is sent along.  It starts as zeroes.  *)
(***************************************************************************)
Zero == [status |-> "ok", bytes |-> 0, data |-> <<>>, next |-> 0, name |-> <<>>, fd |-> {}]
Error(e) == [Zero EXCEPT !.status = e]

(***************************************************************************)
(* The name is copied from behind the directory's path, and its length is  *)
(* computed from another offset: it goes on into the two bytes that follow *)
(* a path in the archive, the length of the description, which is zero.    *)
(***************************************************************************)
EntryName(dir, a, room) ==
  LET path   == Path(a) \o <<"nul", "nul">>
      length == IF dir = <<>> THEN Len(Path(a)) ELSE Len(Path(a)) - (Len(dir) - 1)
      offset == IF dir = <<>> THEN 0 ELSE Len(dir) + 1
  IN  SubSeq(path, offset + 1, offset + Min({room, length}))

read_directory(b, position, read_size) ==
  LET badge == IF b = ROOT THEN START ELSE b
      from  == IF position = 0 THEN badge ELSE position
      a     == next_file_in_dir(b, from)
      room  == Max({read_size, HEADER}) - HEADER
      name  == EntryName(Path(b), a, room)
  IN  IF from < START \/ a = NULL
      THEN Error("EINVAL")
      ELSE [Zero EXCEPT !.bytes = HEADER + Len(name), !.data = <<a>>, !.name = name,
                        !.next = IF next_file_in_dir(b, next_file(a)) = NULL THEN 0 ELSE next_file(a)]

(* position < size here, and no buffer is so large that the sum overflows. *)
read_file(b, position, read_size) ==
  LET n == IF position >= Entry(b).size THEN 0
           ELSE IF position + read_size >= Entry(b).size THEN Entry(b).size - position
           ELSE read_size
  IN  [Zero EXCEPT !.bytes = n, !.data = [i \in 1..n |-> position + i]]

handle_read(b, position, read_size) ==
  IF Type(b) = "directory" THEN read_directory(b, position, read_size)
  ELSE read_file(b, position, read_size)

(* The rest of the path and the byte behind it, which is zero, equal the   *)
(* name and the zero that ends it.                                         *)
(* Mutant: what the name starts with is enough. *)
MatchesStart(dir, a, name) ==
  LET offset == IF dir = <<>> THEN 0 ELSE Len(dir) + 1
  IN  IsPrefix(SubSeq(Path(a), offset + 1, Len(Path(a))), name)
Matches(dir, a, name) ==
  LET offset == IF dir = <<>> THEN 0 ELSE Len(dir) + 1
      rest   == SubSeq(Path(a), offset + 1, Len(Path(a)))
  IN  IsPrefix(rest \o <<"nul">>, name \o <<"nul">>)

(* The search starts behind the directory's own entry. *)
handle_open(b, name, flags, mode) ==
  LET from  == IF b = ROOT THEN START ELSE next_file(b)
      found == {a \in FilesInDir(b, from) : from # NULL /\ Matches(Path(b), a, name)}
  IN  CASE Type(b) # "directory" -> Error("ENOTSUP")
        [] Type(b) = "directory" /\ ("OPEN_EXCLUSIVE" \in flags \/ mode \in {"MODE_WRITE", "MODE_APPEND"})
             -> Error("EROFS")
        [] OTHER ->
             IF found = {}
             THEN Error(IF "OPEN_CREATE" \in flags THEN "EROFS" ELSE "ENOENT")
             ELSE IF TEMPORARY \in node
             THEN Error("ECAPEXISTS")
             ELSE [Zero EXCEPT !.fd = {Min(found)}]

-----------------------------------------------------------------------------
(***************************************************************************)
(* main_loop.  The message's capabilities come into slots 0..3 of the node *)
(* where these are free; the descriptor in the answer leaves its slot if   *)
(* the client takes it; and slots 0..4 are emptied.                        *)
(***************************************************************************)
(* Mutant: one slot less is emptied, and none behind those received. *)
CleanupShort(slots) == slots \ 0..(IPC_CAPABILITY_SLOTS - 2)
Cleanup(slots) == slots \ 0..IPC_CAPABILITY_SLOTS

NotRead == [position |-> 0, seen |-> <<>>, ended |-> FALSE, inode |-> NULL]
Given(reply, taken) == IF taken THEN reply.fd ELSE {}

(* received: the slots of the message's capabilities, among them that of   *)
(* the client's reply endpoint.                                            *)
Served(message, received, reply, taken) ==
  /\ ~taken => "refused" \in Calls
  /\ node' = Cleanup(node \cup received \cup (IF taken \/ reply.fd = {} THEN {} ELSE {TEMPORARY}))
  /\ last' = [message |-> message, reply |-> reply]
  /\ UNCHANGED archive
Message(b, call) == [badge |-> b, call |-> call, names |-> {}]
MaySend == {{0}, 0..(IPC_CAPABILITY_SLOTS - 1)}   \* the fewest and the most

(* The holder of a descriptor reads on where it was, or from the start.    *)
Progress(walk, b, position, size, reply) ==
  LET sofar == IF Type(b) = "directory" /\ position = 0 THEN <<>> ELSE walk.seen
      ended == IF Type(b) = "directory" THEN reply.next = 0 ELSE reply.bytes = 0 /\ size > 0
  IN  [walk EXCEPT !.seen = sofar \o reply.data, !.ended = ended,
                   !.position = IF Type(b) = "directory" THEN reply.next ELSE @ + reply.bytes]
Asked(size, limit) == IF size > limit THEN limit ELSE size
Reading(message, b, position, size, limit, received) ==
  LET asked == Asked(size, limit)
      reply == handle_read(b, position, asked)
      on    == position = walks[b].position \/ (Type(b) = "directory" /\ position = 0)
  IN  /\ Type(b) = "directory" /\ limit < HEADER => "short_buffer" \in Calls
      /\ Served(message, received, reply, TRUE)
      /\ walks' = IF on THEN [walks EXCEPT ![b] = Progress(@, b, position, asked, reply)] ELSE walks

FdRead(b, position, size, capacity) ==
  Reading(Message(b, "FD_READ"), b, position, size, capacity, {0, 1})
FdReadFast(b, position, size) ==
  Reading(Message(b, "FD_READ_FAST"), b, position, size, FD_READ_FAST_MAX_SIZE, {0})
(* Without a buffer the bytes are written from address ECAPINVAL on, where *)
(* nothing of the model is, and are answered for as if they were read.     *)
FdReadNoBuffer(b, position, size) ==
  /\ "unsent" \in Calls
  /\ Served(Message(b, "FD_READ"), {0}, handle_read(b, position, Asked(size, ECAPINVAL)), TRUE)
  /\ UNCHANGED walks

(* Mutant: every descriptor has the inode of the root. *)
FdStatStart(b) ==
  /\ b = ROOT => "root_stat" \in Calls
  /\ Served(Message(b, "FD_STAT"), {0}, Zero, TRUE)
  /\ walks' = [walks EXCEPT ![b].inode = START]
(* For the root st_ino is the address of the first entry. *)
FdStat(b) ==
  /\ b = ROOT => "root_stat" \in Calls
  /\ Served(Message(b, "FD_STAT"), {0}, Zero, TRUE)
  /\ walks' = [walks EXCEPT ![b].inode = IF b = ROOT THEN START ELSE b]

(* names has the name that is sent, if any, and name is the one that is    *)
(* read: without one, what the memory at address ECAPINVAL holds.          *)
FdOpen(b, names, name, flags, mode, taken) ==
  LET reply == handle_open(b, name, flags, mode)
  IN  /\ IF names = {} THEN "unsent" \in Calls ELSE names = {name}
      /\ Served([Message(b, "FD_OPEN") EXCEPT !.names = names],
                {0} \cup (IF names = {} THEN {} ELSE {1}), reply, taken)
      /\ walks' = [f \in held \cup Given(reply, taken) |-> IF f \in held THEN walks[f] ELSE NotRead]

(* Calls that change nothing; the last three are answered with zeroes. *)
Unsupported(b, call, received) ==
  LET refused == {"FD_WRITE", "FD_WRITE_FAST", "FD_LINK", "FD_UNLINK", "FD_TRUNCATE"}
  IN  /\ Served(Message(b, call), received, IF call \in refused THEN Error("ENOTSUP") ELSE Zero, TRUE)
      /\ UNCHANGED walks

(* After mount_to_root: the root's descriptor was moved out of the node. *)
Init ==
  /\ archive \in {r \in Archives : Len(r) > 0 =>
                    (r[Len(r)].size = 0 => "empty_last" \in Calls)}
  /\ node = {}
  /\ walks = [b \in {ROOT} |-> NotRead]
  /\ last = [message |-> Message(ROOT, "none"), reply |-> Zero]

(* Other positions in a directory are undefined, says sys/vfs.h. *)
Positions(b) ==
  IF Type(b) = "directory" THEN {0, walks[b].position, MAGIC, End} ELSE 0..(Entry(b).size + 1)

Next ==
  \E b \in held :
    \/ \E position \in Positions(b), size \in Size :
         \/ FdReadFast(b, position, size)
         \/ \E capacity \in Capacity : FdRead(b, position, size, capacity)
         \/ FdReadNoBuffer(b, position, size)
    \/ FdStat(b)
    \/ \E name \in Name, flags \in SUBSET {"OPEN_CREATE", "OPEN_EXCLUSIVE"},
          mode \in {"MODE_READ", "MODE_WRITE", "MODE_APPEND"}, taken \in BOOLEAN :
         \E names \in {{}, {name}} : FdOpen(b, names, name, flags, mode, taken)
    \/ \E call \in {"FD_WRITE", "FD_WRITE_FAST", "FD_LINK", "FD_UNLINK", "FD_TRUNCATE",
                    "FD_MOUNT", "FD_UNMOUNT", "other"}, received \in MaySend :
         Unsupported(b, call, received)

Spec == Init /\ [][Next]_vars

-----------------------------------------------------------------------------
(***************************************************************************)
(* Whoever follows next_entry_position through a directory sees each entry *)
(* of that directory once, in the archive's order, and nothing else; and   *)
(* whoever reads a file on and on sees each byte once.  The end is         *)
(* reported when all was seen and not earlier, however many other          *)
(* messages come in between.                                               *)
(***************************************************************************)
Increasing(s) == \A i, j \in DOMAIN s : i < j => s[i] < s[j]
InOrder(S) == CHOOSE s \in [1..Cardinality(S) -> S] : Increasing(s) /\ Range(s) = S
Contents(b) ==
  IF Type(b) = "directory"
  THEN InOrder({a \in Addresses : DirectoryOf(a) = b})
  ELSE [i \in 1..Entry(b).size |-> i]
WalksExact ==
  \A b \in held : /\ IsPrefix(walks[b].seen, Contents(b))
                  /\ walks[b].ended => walks[b].seen = Contents(b)

(* The node is empty between messages.  What stays in it keeps out what    *)
(* later messages bring, or the descriptors that later answers need.       *)
NodeEmpty == node = {}

(* Two descriptors of different files never report the same inode, and an  *)
(* opened file reports the inode that its directory entry has.             *)
InodesIdentify ==
  /\ \A b, c \in held : walks[b].inode = walks[c].inode /\ walks[b].inode # NULL => b = c
  /\ \A b, c \in held : /\ Type(c) = "directory" /\ walks[b].inode \in Range(walks[c].seen)
                        => DirectoryOf(b) = c

(***************************************************************************)
(* FD_OPEN gives a descriptor of the entry that has the name and is in the *)
(* directory.  It says there is none only if there is none, and with a     *)
(* name and without a wish to write it never fails otherwise.              *)
(***************************************************************************)
Named(b, names) == {a \in Addresses : DirectoryOf(a) = b /\ Entry(a).name \in names}
OpenExact ==
  [][(last'.message.call = "FD_OPEN" /\ last'.message.names # {})
       => LET b == last'.message.badge
              named == IF Type(b) = "directory" THEN Named(b, last'.message.names) ELSE {}
              reply == last'.reply
          IN  /\ reply.fd \subseteq named
              /\ reply.status = "ok" => reply.fd # {}
              /\ reply.status = "ENOENT" => named = {}
              /\ reply.status \in {"ok", "ENOENT", "EROFS", "ENOTSUP"}]_vars
=============================================================================
