-------------------------------- MODULE Bflt --------------------------------
(***************************************************************************)
(* The loader of bFLT binaries, src/core/common/bflt.c, and the arguments  *)
(* that src/core/include/sys/arch/68000.h puts on a new thread's stack.    *)
(*                                                                         *)
(* Memory is counted in words of 32 bits: a binary's file, its header      *)
(* first, is a function from 0, 1, 2, ...  The file lies at address        *)
(* `file`, the memory that is allocated for the process at `allocation`.   *)
(* What is loaded is a function from the addresses in and around the       *)
(* allocation; UNSET is what was not written.                              *)
(***************************************************************************)
EXTENDS Naturals, Sequences, FiniteSets, FiniteSetsExt, SequencesExt

CONSTANTS
  HEADER_SIZE,   \* sizeof(struct bflt_header)
  UINT32_MAX     \* the end of a global offset table

ASSUME BfltAssumption == HEADER_SIZE \in Nat /\ UINT32_MAX \in Nat

UNSET == UINT32_MAX + 1
MARGIN == 4      \* words around an allocation that are looked at

(* header: entry_point, data_start, data_end, bss_end, stack_size, gotpic, *)
(* gzip, version and magic; words: the file; relocations: offsets that do  *)
(* not count the header.                                                   *)
bflt_verify(h) == h.magic = "bFLT" /\ h.version = 4 /\ ~h.gzip

bflt_allocation_size(h) ==
  IF h.gotpic THEN h.bss_end - h.data_start + h.stack_size
  ELSE h.bss_end - HEADER_SIZE + h.stack_size

TextStart(h, file, allocation) == IF h.gotpic THEN file + HEADER_SIZE ELSE allocation
DataStart(h, allocation) ==
  IF h.gotpic THEN allocation ELSE allocation + h.data_start - HEADER_SIZE
DataEnd(h, allocation) ==
  IF h.gotpic THEN allocation + h.data_end - h.data_start ELSE allocation + h.data_end - HEADER_SIZE

(* An offset in text is invalid where text may not be written: NULL (0). *)
(* Mutant: data is taken to follow text. *)
offset_to_address_flat(h, file, allocation, deny_text, offset) ==
  IF offset < h.data_start - HEADER_SIZE /\ deny_text THEN 0
  ELSE TextStart(h, file, allocation) + offset
offset_to_address(h, file, allocation, deny_text, offset) ==
  IF offset < h.data_start - HEADER_SIZE
  THEN IF deny_text THEN 0 ELSE TextStart(h, file, allocation) + offset
  ELSE DataStart(h, allocation) + offset - (h.data_start - HEADER_SIZE)

(* Text and data as they are in the file, or data only, and then zeroes. *)
Copied(b, allocation) ==
  LET h == b.header
      first == IF h.gotpic THEN h.data_start ELSE HEADER_SIZE
      data_end == DataEnd(h, allocation)
      bss_end == data_end + (h.bss_end - h.data_end)
  IN  [x \in (allocation - MARGIN)..(allocation + bflt_allocation_size(h) + MARGIN) |->
         CASE x \in allocation..(data_end - 1) -> b.words[first + (x - allocation)]
           [] x \in data_end..(bss_end - 1)    -> 0
           [] OTHER                            -> UNSET]

(* The relocations, one after the other. *)
Relocated(b, file, allocation, memory) ==
  LET Address(n) == offset_to_address(b.header, file, allocation, b.header.gotpic, b.relocations[n])
      after[n \in 0..Len(b.relocations)] ==
        IF n = 0 THEN memory
        ELSE IF Address(n) = 0 THEN after[n - 1]
        ELSE [after[n - 1] EXCEPT ![Address(n)] = offset_to_address(b.header, file, allocation, FALSE, @)]
  IN  after[Len(b.relocations)]

(* The global offset table, at the start of data, as far as its end mark. *)
GotLength(memory, start) == Min({x \in DOMAIN memory : x >= start /\ memory[x] = UINT32_MAX}) - start
FixedUp(b, file, allocation, memory) ==
  LET start == DataStart(b.header, allocation)
  IN  IF ~b.header.gotpic THEN memory
      ELSE [x \in DOMAIN memory |->
              IF x \in start..(start + GotLength(memory, start) - 1)
              THEN offset_to_address(b.header, file, allocation, FALSE, memory[x])
              ELSE memory[x]]

bflt_load(b, file, allocation) ==
  [memory          |-> FixedUp(b, file, allocation, Relocated(b, file, allocation, Copied(b, allocation))),
   program_counter |-> IF b.header.gotpic THEN file + b.header.entry_point
                       ELSE allocation + b.header.entry_point - HEADER_SIZE,
   stack_pointer   |-> allocation + bflt_allocation_size(b.header),
   got_pointer     |-> IF b.header.gotpic THEN DataStart(b.header, allocation) ELSE 0]

(* start_arguments leaves a word for the return address below the          *)
(* arguments; add_argument writes them one above the other.                *)
WithArguments(loaded, arguments) ==
  LET sp == loaded.stack_pointer - (Len(arguments) + 1)
  IN  [loaded EXCEPT !.stack_pointer = sp,
                     !.memory = [x \in DOMAIN @ |-> IF x \in sp + 1..sp + Len(arguments)
                                                    THEN arguments[x - sp] ELSE @[x]]]

-----------------------------------------------------------------------------
(***************************************************************************)
(* What a binary that the tools make looks like: its entry point is in     *)
(* text, relocated words and the words they lead to are in the image, no   *)
(* word is relocated twice, and a GOT has an end mark.  Header fields are  *)
(* 32 bits.                                                                *)
(***************************************************************************)
ImageSize(h) == h.bss_end - HEADER_SIZE
Relocatable(b) ==   \* the offsets of words that the loader has to change
  LET h == b.header
      got == {i \in h.data_start..(h.data_end - 1) :
                \A j \in h.data_start..i : b.words[j] # UINT32_MAX}
  IN  {o \in Range(b.relocations) : h.gotpic => o >= h.data_start - HEADER_SIZE}
        \cup (IF h.gotpic THEN {i - HEADER_SIZE : i \in got} ELSE {})
IsBinary(b) ==
  LET h == b.header
  IN  /\ {h.entry_point, h.data_start, h.data_end, h.bss_end, h.stack_size} \subseteq 0..UINT32_MAX
      /\ h.gotpic \in BOOLEAN
      /\ b.relocations \in Seq(Nat)
      /\ HEADER_SIZE <= h.data_start /\ h.data_start <= h.data_end /\ h.data_end <= h.bss_end
      /\ h.entry_point \in HEADER_SIZE..(h.data_start - 1)
      /\ DOMAIN b.words = 0..(h.data_end - 1)
      /\ \A o \in Range(b.relocations) : o \in 0..(h.data_end - HEADER_SIZE - 1)
      /\ \A i, j \in DOMAIN b.relocations : b.relocations[i] = b.relocations[j] => i = j
      /\ \A o \in Relocatable(b) : b.words[o + HEADER_SIZE] \in 0..(ImageSize(h) - 1)
      /\ h.gotpic => /\ \E i \in h.data_start..(h.data_end - 1) : b.words[i] = UINT32_MAX
                     /\ \A i \in h.data_start..(h.data_end - 1) :
                          (\A j \in h.data_start..i : b.words[j] # UINT32_MAX)
                            => i - HEADER_SIZE \notin Range(b.relocations)

(***************************************************************************)
(* Where the word with an offset in the image is once it is loaded: in     *)
(* text that stays in the file, or in the allocation.  Said from the       *)
(* layout of the format and not from the loader's formulas: the image is   *)
(* laid out in order, without text if that stays in the file.              *)
(***************************************************************************)
Home(h, file, allocation, offset) ==
  LET InText(o) == o + HEADER_SIZE < h.data_start
      InMemory  == {o \in 0..(ImageSize(h) - 1) : ~h.gotpic \/ ~InText(o)}
  IN  IF offset \in InMemory THEN allocation + Cardinality({o \in InMemory : o < offset})
      ELSE file + HEADER_SIZE + offset

(* Every word is where it belongs, and those that hold an offset hold the  *)
(* address of the word with that offset; the thread starts at its entry    *)
(* point; and all that was written is in the allocation.                   *)
LoadedRight(b, file, allocation, loaded) ==
  LET h == b.header
      At(o) == Home(h, file, allocation, o)
      Word(o) == IF o + HEADER_SIZE < h.data_end THEN b.words[o + HEADER_SIZE] ELSE 0
  IN  /\ \A o \in 0..(ImageSize(h) - 1) :
           (At(o) >= allocation) =>
              loaded.memory[At(o)] = IF o \in Relocatable(b) THEN At(Word(o)) ELSE Word(o)
      /\ loaded.program_counter = At(h.entry_point - HEADER_SIZE)
      /\ \A x \in DOMAIN loaded.memory :
           loaded.memory[x] # UNSET => x \in allocation..(allocation + bflt_allocation_size(h) - 1)
=============================================================================
