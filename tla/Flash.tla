------------------------------- MODULE Flash -------------------------------
(***************************************************************************)
(* Writing the flash (flash/flash.c): instructions go one by one into the  *)
(* latches of a row, a full row is programmed, and the four latches an     *)
(* erratum of the processor spoils are written again just before.          *)
(* Addresses count instructions (the code's are twice that).               *)
(***************************************************************************)
EXTENDS Naturals, Sequences

CONSTANTS
  RowSize,       \* INSTRUCTIONS_PER_ROW, 64
  PageSize,      \* instructions TBLPAG and a 16 bit address reach, 32768
  FlashSize,     \* instructions of the flash
  MaxWritten,    \* instructions one session writes at most
  Errata,        \* place in each quarter of a row of the latch the erratum spoils, 12 of 16
  Blank          \* an erased instruction, 0xFFFFFF

Spoilt == "spoilt"   \* what a latch holds after the erratum
Addresses == 0 .. FlashSize - 1
Quarter == RowSize \div 4
RowOf(addr) == addr - (addr % RowSize)

VARIABLES
  flash,           \* the instructions
  latch,           \* the write latches
  TBLPAG, saved_tblpag,
  NVMADR,          \* address of the last latch written: its row is the one programmed
  current_addr, row_counter, _errata_latch_d,
  session,         \* "idle", or "writing" from prepare to complete
  from, written    \* where the session began, and what it was asked to write

latches == <<latch, NVMADR>>
flashVars == <<flash, latches, TBLPAG, saved_tblpag, current_addr, row_counter, _errata_latch_d,
               session, from, written>>

FlashInit ==
  /\ flash = [a \in Addresses |-> Blank] /\ latch = [l \in 0 .. RowSize - 1 |-> Blank]
  /\ TBLPAG = 0 /\ saved_tblpag = 0 /\ NVMADR = 0 /\ current_addr = 0 /\ row_counter = 0
  /\ _errata_latch_d = [i \in 0 .. 3 |-> Blank]
  /\ session = "idle" /\ from = 0 /\ written = <<>>

(* A table write goes to the page of TBLPAG; it spoils the latch of the     *)
(* erratum in the quarter before its own (hardware).                        *)
tblwt(l, addr, data) ==
  [l EXCEPT ![((addr \div Quarter + 3) % 4) * Quarter + Errata] =
                IF addr % Quarter = Errata THEN @ ELSE Spoilt,
            ![addr % RowSize] = data]
InPage(page, addr) == page * PageSize + (addr % PageSize)

(* __fixup_errata: current_addr is already the row after.                   *)
\* mutant: the base of the row is taken without stepping back
FixupNextRow(addr, i) == addr + i * Quarter + Errata
fixup_addr(addr, i) == addr - RowSize + i * Quarter + Errata
Fixup(l, saved, addr) ==
  LET again(f, i) == tblwt(f, fixup_addr(addr, i), saved[i])
  IN  again(again(again(again(l, 0), 1), 2), 3)
do_key_seq(l, addr) ==
  [a \in Addresses |-> IF RowOf(a) = RowOf(addr) THEN l[a % RowSize] ELSE flash[a]]

(* flash_write_instruction, alone and as flash_complete_write pads the row. *)
WriteInstruction(data) ==
  LET errata  == IF current_addr % Quarter = Errata
                 THEN [_errata_latch_d EXCEPT ![(current_addr \div Quarter) % 4] = data]
                 ELSE _errata_latch_d
      written1 == tblwt(latch, current_addr, data)
      fixed    == Fixup(written1, errata, current_addr + 1)
  IN  /\ _errata_latch_d' = errata /\ current_addr' = current_addr + 1
      /\ IF row_counter + 1 = RowSize
         THEN /\ NVMADR' = InPage(TBLPAG, fixup_addr(current_addr + 1, 3))
              /\ flash' = do_key_seq(fixed, NVMADR')
              /\ latch' = [l \in 0 .. RowSize - 1 |-> Blank]
              /\ TBLPAG' = current_addr' \div PageSize /\ row_counter' = 0
         ELSE /\ NVMADR' = InPage(TBLPAG, current_addr) /\ latch' = written1
              /\ row_counter' = row_counter + 1 /\ UNCHANGED <<flash, TBLPAG>>

(* A session writes the instructions 1, 2, 3 ...; the program's own TBLPAG  *)
(* is 0.                                                                    *)
flash_prepare_write(addr) ==
  /\ session = "idle" /\ session' = "writing" /\ from' = addr /\ written' = <<>>
  /\ addr % RowSize = 0     \* or the error FLASH_UNALIGNED_ADDRESS, which halts
  /\ current_addr' = addr /\ row_counter' = 0
  /\ saved_tblpag' = TBLPAG /\ TBLPAG' = addr \div PageSize
  /\ UNCHANGED <<flash, latches, _errata_latch_d>>
flash_write_instruction ==
  /\ session = "writing" /\ Len(written) < MaxWritten /\ current_addr < FlashSize
  /\ \E data \in {Len(written) + 1, Blank} :
       WriteInstruction(data) /\ written' = Append(written, data)
  /\ UNCHANGED <<saved_tblpag, session, from>>
flash_complete_write ==
  /\ session \in {"writing", "padding"}
  /\ IF row_counter # 0
     THEN WriteInstruction(Blank) /\ session' = "padding" /\ UNCHANGED saved_tblpag
     ELSE /\ session' = "written" /\ TBLPAG' = saved_tblpag
          /\ UNCHANGED <<flash, latches, saved_tblpag, current_addr, row_counter, _errata_latch_d>>
  /\ UNCHANGED <<from, written>>

(* flash_erase_page, between sessions: everything but the state of a writer.*)
flash_erase_page ==
  /\ session = "written" /\ session' = "idle" /\ from' = 0 /\ written' = <<>>
  /\ flash' = [a \in Addresses |-> Blank]
  /\ UNCHANGED <<latches, TBLPAG, saved_tblpag, current_addr, row_counter, _errata_latch_d>>

FlashNext ==
  \/ \E addr \in Addresses : flash_prepare_write(addr)
  \/ flash_write_instruction \/ flash_complete_write \/ flash_erase_page

(* _frc_nc and flash_read_chunk: the bytes of the instructions, page by     *)
(* page; a byte is named by its instruction and its place.  A size is of 16 *)
(* bits, less than the bytes of a page: at most two pages have a part.      *)
_frc_nc(addr, size) ==
  [b \in 1 .. size |-> <<flash[InPage(addr \div PageSize, addr + (b - 1) \div 3)], (b - 1) % 3>>]
flash_read_chunk(addr, size) ==
  LET bytes_nt == (PageSize - (addr % PageSize)) * 3
  IN  IF bytes_nt < size
      THEN _frc_nc(addr, bytes_nt) \o _frc_nc(addr + bytes_nt \div 3, size - bytes_nt)
      ELSE _frc_nc(addr, size)

(* Once a session is complete the flash holds what it wrote, then blanks to *)
(* the end of the row, and nothing else changed, whatever rows and pages it *)
(* crossed and whatever the erratum spoilt (flash.c:196-254); rows already  *)
(* programmed hold their part before that; TBLPAG is the program's again;   *)
(* and flash_read_chunk reads it back (:120-156).                           *)
Expected(a) ==
  IF a >= from /\ a - from < Len(written) THEN written[a - from + 1] ELSE Blank
FlashImage ==
  /\ session # "idle" => \A a \in Addresses :
       a < RowOf(current_addr) \/ a >= current_addr => flash[a] = Expected(a)
  /\ session \in {"idle", "written"} => TBLPAG = 0
  /\ session = "written" =>
       \A size \in 0 .. 3 * Len(written) :
         flash_read_chunk(from, size) =
           [b \in 1 .. size |-> <<written[(b - 1) \div 3 + 1], (b - 1) % 3>>]
=============================================================================
