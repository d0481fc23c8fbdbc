----------------------------- MODULE IpmcBlock -----------------------------
(***************************************************************************)
(* The block of sensor data that the IPMC writes over I2C while the server *)
(* reads it as a file (Sensor/src/ipmcSensorBlock.c).  The block is a row  *)
(* of cells: 1 is the sequence number that opens it, 2 the rest of the     *)
(* header, then the data, and the last one the trailer, which repeats the  *)
(* sequence number before the time stamp.  Every cell is known by the      *)
(* number of the write that put it there, 0 for the blank block.           *)
(***************************************************************************)
EXTENDS Integers

CONSTANTS
  LastCell,    (* the trailer's cell                                       *)
  SeqMod,      (* seqid is a u8: 256 in the code                           *)
  MaxWrites,   (* bound: how often the IPMC writes                         *)
  NBytes,      (* nBytes of the header the IPMC writes                     *)
  Truncates    (* whether the file may end before the block does           *)

ASSUME BlockAssumption ==
  /\ LastCell \in Nat /\ LastCell >= 4
  /\ SeqMod \in Nat \ {0} /\ MaxWrites \in Nat /\ NBytes \in Nat \ {0}
  /\ Truncates \in BOOLEAN

Cells == 1 .. LastCell
DataCells == 3 .. (LastCell - 1)
Invalid == [seq |-> -1, rest |-> -1]   (* a header of all 0xFF             *)
NoHeader == [seq |-> -2, rest |-> -2]

VARIABLES
  mem,        (* the block as the IPMC has written it so far               *)
  next,       (* the cell it writes next                                   *)
  pc,         (* where ipmcSensorBlockRead() is                            *)
  fbuf,       (* the FILE's buffer                                         *)
  hdr,        (* idh of the ipmcDataRecord                                 *)
  raw,        (* its rawSensorData                                         *)
  allocated,  (* the bytes malloc() gave rawSensorData, -1 for none        *)
  stamp,      (* its timestamp                                             *)
  decoder,    (* whether its decoder is set up                             *)
  shown,      (* the header of the record formatted last                   *)
  copying     (* the bytes the present fread() stores in rawSensorData     *)

blockVars == <<mem, next, pc, fbuf, hdr, raw, allocated, stamp, decoder, shown, copying>>
writerVars == <<mem, next>>

(* nBytes of a header and the sequence number of a write, as bytes. *)
Bytes(rest) == IF rest = 0 THEN 0 ELSE NBytes
Seqid(w) == w % SeqMod

BlockInit ==
  /\ mem = [c \in Cells |-> 0]
  /\ next = LastCell + 1
  /\ pc = "idle"
  /\ fbuf = mem
  /\ hdr = [seq |-> 0, rest |-> 0]
  /\ raw = [c \in DataCells |-> 0]
  /\ allocated = -1
  /\ stamp = 0
  /\ decoder = FALSE
  /\ shown = NoHeader
  /\ copying = 0

-----------------------------------------------------------------------------
(* The IPMC: the first cell of a new block, perhaps before the last block was
   finished, but it does not give up so many in a row that the sequence
   numbers come round. *)
BeginWrite ==
  /\ mem[1] < MaxWrites
  /\ mem[1] - mem[LastCell] < SeqMod - 1
  /\ mem' = [mem EXCEPT ![1] = @ + 1]
  /\ next' = 2
  /\ UNCHANGED <<pc, fbuf, hdr, raw, allocated, stamp, decoder, shown, copying>>

WriteCell ==
  /\ next <= LastCell
  /\ mem' = [mem EXCEPT ![next] = mem[1]]
  /\ next' = next + 1
  /\ UNCHANGED <<pc, fbuf, hdr, raw, allocated, stamp, decoder, shown, copying>>

(* What an fread() after the first finds: stdio read the whole block with the
   first one, and going back to the start stays inside its buffer. *)
File == fbuf

Close(header) == pc' = "idle" /\ hdr' = header /\ copying' = 0

(* fopen(), and fread() of the header, which may find nothing; malloc() for the
   values may fail.  A failing fopen() leaves everything as it was. *)
ReadHeader(ok, memory) ==
  /\ pc = "idle"
  /\ fbuf' = mem
  /\ IF ok /\ memory
     THEN /\ hdr' = [seq |-> mem[1], rest |-> mem[2]]
          /\ pc' = "allocate"
          /\ UNCHANGED copying
     ELSE Close(Invalid)
  /\ UNCHANGED <<mem, next, raw, allocated, stamp, decoder, shown>>

(* rawSensorData is allocated once, by the nBytes of the first header. *)
Allocate(memory) ==
  /\ pc = "allocate"
  /\ IF allocated = -1 /\ ~memory
     THEN Close(hdr) /\ UNCHANGED allocated
     ELSE /\ allocated' = IF allocated = -1 THEN Bytes(hdr.rest) ELSE allocated
          /\ copying' = Bytes(hdr.rest)
          /\ pc' = "data"
          /\ UNCHANGED hdr
  /\ UNCHANGED <<mem, next, fbuf, raw, stamp, decoder, shown>>

(* fread() of the data, all of it or the first cells only.  If it comes short
   the header stays as it is. *)
ReadData(last) ==
  /\ pc = "data"
  /\ last # LastCell - 1 => Truncates
  /\ raw' = [c \in DataCells |-> IF c <= last /\ hdr.rest # 0 THEN File[c] ELSE raw[c]]
  /\ IF last < LastCell - 1 THEN Close(hdr)
     ELSE pc' = "trailer" /\ copying' = 0 /\ UNCHANGED hdr
  /\ UNCHANGED <<mem, next, fbuf, allocated, stamp, decoder, shown>>

(* The trailer comes right after nBytes of data. *)
TrailerCell == IF hdr.rest = 0 THEN 3 ELSE LastCell

(* Mutant: the sequence number at the end is not compared. *)
ReadTrailer_NoTest(ok) ==
  /\ pc = "trailer"
  /\ ok \/ Truncates
  /\ IF ~ok THEN Close(hdr) ELSE pc' = "recheck" /\ UNCHANGED <<hdr, copying>>
  /\ UNCHANGED <<mem, next, fbuf, raw, allocated, stamp, decoder, shown>>

(* fread() of the trailer; a different sequence number in it spoils the record. *)
ReadTrailer(ok) ==
  /\ pc = "trailer"
  /\ ok \/ Truncates
  /\ IF ~ok THEN Close(hdr)
     ELSE IF Seqid(hdr.seq) # Seqid(File[TrailerCell]) THEN Close(Invalid)
     ELSE pc' = "recheck" /\ UNCHANGED <<hdr, copying>>
  /\ UNCHANGED <<mem, next, fbuf, raw, allocated, stamp, decoder, shown>>

(* The first sequence number once more; then the time stamp is kept. *)
Recheck ==
  /\ pc = "recheck"
  /\ IF Seqid(hdr.seq) # Seqid(File[1]) THEN Close(Invalid) /\ UNCHANGED stamp
     ELSE Close(hdr) /\ stamp' = File[TrailerCell]
  /\ UNCHANGED <<mem, next, fbuf, raw, allocated, decoder, shown>>

(* ipmcSensorBlockFormat(): the decoder is chosen once, by the board id; then
   it formats whatever the record holds. *)
Format ==
  /\ pc = "idle"
  /\ allocated # -1
  /\ decoder' = IF hdr.rest > 0 THEN TRUE ELSE decoder
  /\ shown' = IF decoder' THEN hdr ELSE NoHeader
  /\ UNCHANGED <<mem, next, pc, fbuf, hdr, raw, allocated, stamp, copying>>

BlockNext ==
  \/ BeginWrite \/ WriteCell
  \/ \E ok, memory \in BOOLEAN : ReadHeader(ok, memory)
  \/ \E memory \in BOOLEAN : Allocate(memory)
  \/ \E last \in 2 .. (LastCell - 1) : ReadData(last)
  \/ \E ok \in BOOLEAN : ReadTrailer(ok)
  \/ Recheck
  \/ Format

BlockSpec == BlockInit /\ [][BlockNext]_blockVars

-----------------------------------------------------------------------------
Headers == [seq : Nat, rest : Nat] \cup {Invalid}

BlockTypeOK ==
  /\ mem \in [Cells -> Nat] /\ fbuf \in [Cells -> Nat]
  /\ next \in 2 .. (LastCell + 1)
  /\ pc \in {"idle", "allocate", "data", "trailer", "recheck"}
  /\ hdr \in Headers
  /\ pc # "idle" => hdr # Invalid
  /\ raw \in [DataCells -> Nat]
  /\ allocated \in {-1, 0, NBytes} /\ stamp \in Nat
  /\ decoder \in BOOLEAN
  /\ shown \in Headers \cup {NoHeader}
  /\ copying \in {0, NBytes}

(* A record that is not marked invalid is of one write of the IPMC: header, data
   and time stamp belong together (ipmcSensorBlock.c:99-181); "A header record of all
   0xFF indicates an invalid record." (76). *)
RecordIsOneWrite ==
  pc = "idle" /\ hdr # Invalid /\ hdr.rest # 0 /\ allocated # -1 =>
    hdr.rest = hdr.seq /\ stamp = hdr.seq /\ \A c \in DataCells : raw[c] = hdr.seq

(* Why that holds: cells are written from the first to the last, so that their
   numbers never rise along the block, and the IPMC gives up fewer writes in a
   row than there are sequence numbers; a block that begins and ends with the
   same number is then of one write. *)
Ordered(m) == \A c, d \in Cells : c <= d => m[d] <= m[c]
Recent(m) == m[1] - m[LastCell] < SeqMod

BlockInv ==
  /\ BlockTypeOK
  /\ Ordered(mem) /\ Recent(mem)
  /\ \A c \in Cells : c < next => mem[c] = mem[1]
  /\ Ordered(fbuf) /\ Recent(fbuf)
  /\ pc # "idle" => hdr = [seq |-> fbuf[1], rest |-> fbuf[2]]
  /\ pc \in {"trailer", "recheck"} /\ hdr.rest # 0 => \A c \in DataCells : raw[c] = fbuf[c]
  /\ pc = "recheck" => Seqid(hdr.seq) = Seqid(fbuf[TrailerCell])
  /\ RecordIsOneWrite

=============================================================================
