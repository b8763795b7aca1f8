---------------------------- MODULE JournalLayout ----------------------------
(***************************************************************************)
(* How NewJournal (src/user/journal/journal.go) divides the journal        *)
(* device: the header, a section of buffer writes as large as the ring     *)
(* buffer of the client's kernel, and a section of correct blocks.  Sizes  *)
(* and offsets are in bytes.  The ring buffer keeps a write in             *)
(* KernelWriteSize bytes (struct bdr_write_info, 4104), the journal in     *)
(* BufWriteByteSize (WriteInfoSize, 4108).                                 *)
(***************************************************************************)
EXTENDS Integers

CONSTANTS HeaderSize,         \* GetHeaderByteSize
          DiskSize,           \* size of the journal device
          MaxWrites,          \* max_writes of the ring buffer
          KernelWriteSize, BufWriteByteSize, CorrBlockByteSize

(* The sizes NewJournal accepts.  No device is smaller than the header.    *)
ASSUME LayoutAssumption ==
  /\ HeaderSize \in Nat /\ DiskSize \in Nat /\ HeaderSize <= DiskSize
  /\ MaxWrites \in Nat \ {0} /\ KernelWriteSize \in Nat \ {0}
  /\ BufWriteByteSize \in Nat \ {0} /\ CorrBlockByteSize \in Nat \ {0}
  /\ MaxWrites * KernelWriteSize <= DiskSize - HeaderSize

(* The size of the ring buffer, which the client sends in InfoInit, is the *)
(* size of the section of buffer writes.                                   *)
SectionBufWritesSize == MaxWrites * KernelWriteSize
SectionCorBlocksSize == DiskSize - HeaderSize - SectionBufWritesSize

BufWritesCount == SectionBufWritesSize \div BufWriteByteSize
CorrBlocksCount == SectionCorBlocksSize \div CorrBlockByteSize

BufWritesStartOffset == HeaderSize
CorrBlocksStartOffset == HeaderSize + SectionBufWritesSize

(* Where ReadBufferWrite, WriteBufferWrite and the Clear functions find    *)
(* slot i, counted from 0.                                                 *)
BufWriteOffset(i) == BufWritesStartOffset + i * BufWriteByteSize
CorrBlockOffset(i) == CorrBlocksStartOffset + i * CorrBlockByteSize
-----------------------------------------------------------------------------
Apart(off1, size1, off2, size2) == off1 + size1 <= off2 \/ off2 + size2 <= off1

(* The header and all slots are apart from each other and on the device:   *)
(* no write of an entry (WriteBufferWrite, WriteCorrectBlock) touches the  *)
(* header, another entry or what is past the device.                       *)
SlotsApart ==
  /\ \A i \in 0..(BufWritesCount - 1) :
       /\ HeaderSize <= BufWriteOffset(i)
       /\ BufWriteOffset(i) + BufWriteByteSize <= DiskSize
       /\ \A j \in 0..(BufWritesCount - 1) \ {i} :
            Apart(BufWriteOffset(i), BufWriteByteSize, BufWriteOffset(j), BufWriteByteSize)
       /\ \A j \in 0..(CorrBlocksCount - 1) :
            Apart(BufWriteOffset(i), BufWriteByteSize, CorrBlockOffset(j), CorrBlockByteSize)
  /\ \A i \in 0..(CorrBlocksCount - 1) :
       /\ HeaderSize <= CorrBlockOffset(i)
       /\ CorrBlockOffset(i) + CorrBlockByteSize <= DiskSize
       /\ \A j \in 0..(CorrBlocksCount - 1) \ {i} :
            Apart(CorrBlockOffset(i), CorrBlockByteSize, CorrBlockOffset(j), CorrBlockByteSize)

(* The section of buffer writes has a slot for each write a ring buffer    *)
(* can hold (one less than max_writes).                                    *)
HoldsRing == BufWritesCount >= MaxWrites - 1
=============================================================================
