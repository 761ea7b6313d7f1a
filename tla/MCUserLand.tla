---------------------------- MODULE MCUserLand ------------------------------
(* Small instances of UserLand for TLC. *)
EXTENDS UserLand

HashByInode == [i \in Inode |-> i]

(* Two words of text, of which one may have to be relocated, and data that *)
(* is one word to relocate, behind a GOT if there is one.  target are      *)
(* offsets in the image: text, data or bss.                                *)
Header(gotpic, data, bss) ==
  [magic |-> "bFLT", version |-> 4, gzip |-> FALSE, gotpic |-> gotpic,
   entry_point |-> HEADER_SIZE + 1, data_start |-> HEADER_SIZE + 2,
   data_end |-> HEADER_SIZE + 2 + data, bss_end |-> HEADER_SIZE + 2 + data + bss, stack_size |-> 4]
Words(s) == [i \in 0..(HEADER_SIZE + Len(s) - 1) |-> IF i < HEADER_SIZE THEN 0 ELSE s[i - HEADER_SIZE + 1]]
Plain(text, target, bss) ==
  [header |-> Header(FALSE, 1, bss), words |-> Words(<<501, text, target>>), relocations |-> <<2, 1>>]
Gotpic(got, target, bss) ==
  [header |-> Header(TRUE, 3, bss), words |-> Words(<<501, 502, got, UINT32_MAX, target>>),
   relocations |-> <<0, 4>>]
Binaries ==
  {b \in {Plain(x, y, bss) : x, y \in 0..3, bss \in {0, 2}}
         \cup {Gotpic(x, y, bss) : x, y \in 0..6, bss \in {0, 2}} : IsBinary(b)}

(* A directory whose name starts with that of the VFS server comes first. *)
Directory == [name |-> VFS_SERVER \o <<"d">>, type |-> "directory", binary |-> Plain(0, 0, 0)]
File(name, b) == [name |-> name, type |-> "regular", binary |-> b]
SomeBinary == Gotpic(2, 4, 2)
NotBinary == {[Plain(0, 0, 0) EXCEPT !.header.magic = "none"],
              [Plain(0, 0, 0) EXCEPT !.header.version = 5],
              [Plain(0, 0, 0) EXCEPT !.header.gzip = TRUE]}
Archives ==
  {<<Directory, File(VFS_SERVER, b), File(INITRD_FS, SomeBinary)>> : b \in Binaries \cup NotBinary}
    \cup {<<Directory, File(INITRD_FS, b), File(VFS_SERVER, SomeBinary)>> : b \in Binaries \cup NotBinary}
    \cup {<<Directory, File(VFS_SERVER, SomeBinary)>>}
=============================================================================
