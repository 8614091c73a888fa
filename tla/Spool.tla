------------------------------- MODULE Spool -------------------------------
(***************************************************************************)
(* The spools of internal/mutantspool and internal/resultspool, which are  *)
(* the same structure over two record types: records stay in memory up to  *)
(* a number and a size, and move to a temporary file when one more does    *)
(* not fit.  A spool is a value here; an append that fails is left to the  *)
(* caller, who closes the spool.                                           *)
(***************************************************************************)
LOCAL INSTANCE Naturals
LOCAL INSTANCE Sequences

CONSTANTS
    MemoryRecords,   \* 64 in the source
    MemoryBytes,     \* 256 KiB in the source
    SizeOf(_)        \* encoded size of a record

NewSpool ==
    [memory |-> <<>>, bytes |-> 0, file |-> <<>>, onDisk |-> FALSE, count |-> 0]

(* Seeded fault: the buffered records do not reach the file. *)
Spill_Forgets(s) ==
    [s EXCEPT !.onDisk = TRUE, !.memory = <<>>, !.bytes = 0]

Spill(s) ==
    [s EXCEPT !.onDisk = TRUE, !.file = s.memory, !.memory = <<>>, !.bytes = 0]

Fits(s, r) ==
    /\ Len(s.memory) < MemoryRecords
    /\ SizeOf(r) <= MemoryBytes - s.bytes

AppendRecord(s, r) ==
    LET inMemory == ~s.onDisk /\ Fits(s, r)
        t == IF s.onDisk \/ inMemory THEN s ELSE Spill(s)
    IN  IF inMemory
        THEN [t EXCEPT !.memory = Append(@, r), !.bytes = @ + SizeOf(r),
                       !.count = @ + 1]
        ELSE [t EXCEPT !.file = Append(@, r), !.count = @ + 1]

(* What a reader, or ForEach, delivers: count records from where they are, *)
(* and an error when the file does not end with the last of them.          *)
Readable(s) == ~s.onDisk \/ Len(s.file) = s.count

Records(s) == IF s.onDisk THEN s.file ELSE s.memory

WithinLimits(s) == Len(s.memory) <= MemoryRecords /\ s.bytes <= MemoryBytes
=============================================================================
