-------------------------------- MODULE MCVm --------------------------------
(* An instance of Vm for the model checker: 31 pages, 8 slots in a table.  *)
EXTENDS Vm

(* Four modules: one with a third program header, one that is not an       *)
(* executable of two; the data of the last one begin in a page of its text.*)
(* Addresses come with and without the bit of USER_BASE.  The page of      *)
(* boot_info is that of the last module.                                   *)
Ph(vaddr, filesz, memsz) == [vaddr |-> vaddr, filesz |-> filesz, memsz |-> memsz]

MCImages ==
  << [elf |-> TRUE, ph |-> <<Ph(0, 1, 1), Ph(1, 1, 2), Ph(9, 1, 1)>>, first |-> 6, last |-> 7],
     [elf |-> TRUE, ph |-> <<Ph(32, 1, 1)>>, first |-> 8, last |-> 8],
     [elf |-> TRUE, ph |-> <<Ph(38, 1, 1), Ph(8, 1, 1)>>, first |-> 9, last |-> 10],
     [elf |-> TRUE, ph |-> <<Ph(0, 2, 2), Ph(1, 1, 1)>>, first |-> 11, last |-> 11] >>

(* bss, pages of the stack, an address that is in no region.               *)
MCTouch == << {34, 36, 61, 62}, {}, {41, 59, 62}, {34} >>
=============================================================================
