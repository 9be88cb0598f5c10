--------------------------- MODULE Fragmentation ---------------------------
(***************************************************************************)
(* fragment_this() of packet.h, which cuts a file into fragments before    *)
(* the transfer starts, and the bytes server.c writes for them: every      *)
(* fragment carries a size field, and the server writes that many bytes of *)
(* the fragment's 1000-byte buffer, which is zeroed before the read.       *)
(* A file is its size; its bytes are told apart by their position only.    *)
(***************************************************************************)
EXTENDS Naturals

CONSTANT FileSizes      \* sizes a file may have, below 2^31

ASSUME FileSizesAssumption == FileSizes \subseteq Nat

VARIABLES
  fileSize,             \* getBytes(filename)
  made,                 \* fragments made so far
  offset,               \* where fp stands in the file
  size,                 \* the size field of the last fragment made
  data,                 \* the bytes of the file in it
  copied                \* bytes the server has written for the fragments made

fragVars == <<fileSize, made, offset, size, data, copied>>

BYTE_LIMIT == 1000

NumFrags == fileSize \div BYTE_LIMIT + 1

FragmentsTyped ==
  /\ fileSize \in FileSizes
  /\ made \in 0 .. NumFrags
  /\ offset \in 0 .. fileSize
  /\ size \in 0 .. BYTE_LIMIT
  /\ data \in 0 .. BYTE_LIMIT
  /\ copied \in Nat

InitFragments ==
  /\ fileSize \in FileSizes
  /\ made = 0
  /\ offset = 0
  /\ size = 0
  /\ data = 0
  /\ copied = 0

\* fread of up to BYTE_LIMIT bytes.
ReadSize ==
  IF fileSize - offset < BYTE_LIMIT THEN fileSize - offset ELSE BYTE_LIMIT

\* LastSize without its final "+ 1".
LastSizeMutant == IF fileSize = 0 THEN 0 ELSE (fileSize - 1) % BYTE_LIMIT

\* (ftell(fp) - 1) % 1000 + 1, where C's remainder of -1 is -1.
LastSize == IF fileSize = 0 THEN 0 ELSE ((fileSize - 1) % BYTE_LIMIT) + 1

\* The last fragment taken from a full buffer as well.
MakeFragmentMutant ==
  /\ made < NumFrags
  /\ made' = made + 1
  /\ data' = ReadSize
  /\ size' = BYTE_LIMIT
  /\ offset' = IF made + 1 # NumFrags THEN offset + ReadSize ELSE fileSize
  /\ copied' = copied + size'
  /\ UNCHANGED fileSize

\* <= for < in the loop's test.
MakeFragmentTooMutant ==
  /\ made <= NumFrags
  /\ made' = made + 1
  /\ data' = ReadSize
  /\ size' = IF made + 1 # NumFrags THEN BYTE_LIMIT ELSE LastSize
  /\ offset' = IF made + 1 # NumFrags THEN offset + ReadSize ELSE fileSize
  /\ copied' = copied + size'
  /\ UNCHANGED fileSize

\* One iteration of the loop of fragment_this, and the fwrite of the fragment.
MakeFragment ==
  /\ made < NumFrags
  /\ made' = made + 1
  /\ data' = ReadSize
  /\ size' = IF made + 1 # NumFrags THEN BYTE_LIMIT ELSE LastSize
  /\ offset' = IF made + 1 # NumFrags THEN offset + ReadSize ELSE fileSize
  /\ copied' = copied + size'
  /\ UNCHANGED fileSize

NextFragment == MakeFragment

FragmentSpec == InitFragments /\ [][NextFragment]_fragVars

-----------------------------------------------------------------------------

Finished == made = NumFrags

\* Every byte of the file is inside the size of some fragment and lands at its
\* own place in the copy, even in the last fragment (packet.h:146-157).
NoByteLost ==
  /\ data <= size
  /\ ~Finished => copied = offset
  /\ Finished => copied >= fileSize

\* The copy has the size of the file, except that a file of exactly k * 1000
\* bytes, k > 0, gets a last fragment of 1000 zero bytes (packet.h:128, 156).
CopySize ==
  Finished => copied = IF fileSize > 0 /\ fileSize % BYTE_LIMIT = 0
                       THEN fileSize + BYTE_LIMIT
                       ELSE fileSize

\* packet.h:8: "The size field should be set to the size of the data."
SizeIsSizeOfData == size = data

=============================================================================
