------------------------------ MODULE TraceFiles -------------------------------
(***************************************************************************)
(* The files that tell of traffic: captures of packets and flow records.   *)
(***************************************************************************)
EXTENDS Wire

--------------------------------------------------------------------------------
(***************************************************************************)
(* Captures of packets and the two files they are kept in (capture.py,     *)
(* pcap_export.py): .iv8cap with nanoseconds, one line a packet, where a   *)
(* bad line fails the load; .pcap with microseconds, where a bad record is *)
(* skipped and one that is cut ends the reading.  A file may be cut or a   *)
(* packet in it damaged before it is read.                                 *)
(***************************************************************************)
CONSTANTS
  Captured,                \* packets that pass, in their order
  NsPerUsec, NsPerSec,
  NoFile, NotStarted,
  MaxNs                    \* bound on the clock

ASSUME CaptureAssumption ==
  /\ Captured \in Seq(Packets8)
  /\ NsPerUsec \in Nat \ {0} /\ NsPerSec \in Nat \ {0} /\ NsPerSec % NsPerUsec = 0

VARIABLES
  elapsed,        \* since _start_ns, or NotStarted
  tape,           \* PacketCapture._packets: <<ns, packet>>
  file,           \* [kind, records, source, how, at]: source was saved,
                  \* and how says what harm was done at which record
  loaded          \* the tape that the last step read from the file, or NoFile

captureVars == <<elapsed, tape, file, loaded>>

CaptureInit == elapsed = NotStarted /\ tape = << >> /\ file = NoFile /\ loaded = NoFile

StartCapture == elapsed' = 0 /\ tape' = << >> /\ loaded' = NoFile /\ UNCHANGED file

CapturePacket ==
  /\ Len(tape) < Len(Captured)
  /\ tape' = Append(tape, <<IF elapsed = NotStarted THEN 0 ELSE elapsed, Captured[Len(tape) + 1]>>)
  /\ loaded' = NoFile /\ UNCHANGED <<elapsed, file>>

Line(c) == <<c[1], EncodePacket(c[2])>>

RecordUnreduced(c) == <<c[1] \div NsPerSec, c[1] \div NsPerUsec, EncodePacket(c[2])>> \* fault: no % second
Record(c) == <<c[1] \div NsPerSec, (c[1] % NsPerSec) \div NsPerUsec, EncodePacket(c[2])>>

Written(kind, entries) ==
  [kind |-> kind, source |-> tape, records |-> entries, how |-> "none", at |-> 0]

Save ==
  /\ file' = Written("iv8cap", [i \in DOMAIN tape |-> Line(tape[i])])
  /\ loaded' = NoFile /\ UNCHANGED <<elapsed, tape>>

Export ==
  /\ file' = Written("pcap", [i \in DOMAIN tape |-> Record(tape[i])])
  /\ loaded' = NoFile /\ UNCHANGED <<elapsed, tape>>

--------------------------------------------------------------------------------
(* Between writing and reading: what is from packet i on is gone, or all but   *)
(* a part of packet i, or that packet is damaged, and its sum shows it.       *)
Harmed(how, i, entries) ==
  /\ file.how = "none"
  /\ file' = [file EXCEPT !.how = how, !.at = i, !.records = entries]
  /\ loaded' = NoFile /\ UNCHANGED <<elapsed, tape>>

CutFile(i) ==
  /\ file # NoFile /\ i \in DOMAIN file.records
  /\ LET before == SubSeq(file.records, 1, i - 1) IN
     \/ Harmed("gone", i, before)
     \/ Harmed("part", i, Append(before, [file.records[i] EXCEPT ![Len(file.records[i])] = << >>]))

Damaged(words) == [words EXCEPT ![3] = (@ + 2) % Word]

Damage(i) ==
  /\ file # NoFile /\ i \in DOMAIN file.records
  /\ LET r == file.records[i] IN
     /\ Harmed("damaged", i, [file.records EXCEPT ![i] = [r EXCEPT ![Len(r)] = Damaged(@)]])
     /\ SumShows(r[Len(r)], Damaged(r[Len(r)]))

(* PacketCapture.load raises at the first line that does not decode.         *)
Load ==
  LET packets == [i \in DOMAIN file.records |-> DecodePacket(file.records[i][2])] IN
  /\ file # NoFile /\ file.kind = "iv8cap"
  /\ loaded' = IF \E i \in DOMAIN packets : ~Accepted(packets[i]) THEN << >>
                ELSE [i \in DOMAIN packets |-> <<file.records[i][1], packets[i]>>]
  /\ UNCHANGED <<elapsed, tape, file>>

(* PcapReader._parse: an unfinished record ends it, a bad packet is skipped.  *)
Parsed(records) ==
  LET Ended(i) == \E j \in 1 .. i : records[j][3] = << >>
      Time(r) == r[1] * NsPerSec + r[2] * NsPerUsec
      read[i \in 0 .. Len(records)] ==
        IF i = 0 THEN << >>
        ELSE LET packet == DecodePacket(records[i][3]) IN
             IF Ended(i) \/ ~Accepted(packet) THEN read[i - 1]
             ELSE Append(read[i - 1], <<Time(records[i]), packet>>)
  IN  read[Len(records)]

ReadPcap ==
  /\ file # NoFile /\ file.kind = "pcap"
  /\ loaded' = Parsed(file.records)
  /\ UNCHANGED <<elapsed, tape, file>>

(* pcap_to_capture, and iv8cap_to_pcap after it: what was read is the tape.   *)
TakeOver ==
  /\ loaded # NoFile
  /\ tape' = loaded /\ elapsed' = NotStarted /\ loaded' = NoFile
  /\ UNCHANGED file

CaptureTick ==
  /\ elapsed # NotStarted /\ elapsed < MaxNs
  /\ elapsed' = elapsed + 1 /\ loaded' = NoFile /\ UNCHANGED <<tape, file>>

CaptureNext ==
  \/ StartCapture \/ Save \/ Export \/ Load \/ ReadPcap \/ TakeOver \/ CaptureTick
  \/ CapturePacket
  \/ \E i \in DOMAIN Captured : CutFile(i) \/ Damage(i)

CaptureSpec == CaptureInit /\ [][CaptureNext]_captureVars

--------------------------------------------------------------------------------
(* What is read from a file is what was captured, in order and with its time *)
(* to the file's precision, but for what harm was done: of a .pcap a damaged  *)
(* packet and what a cut took, of an .iv8cap everything; a damaged packet is  *)
(* one whose sum of 16 bits shows the damage.                                 *)
InPrecision(kind, t) == IF kind = "iv8cap" THEN t ELSE t - (t % NsPerUsec)

ReplayIsCapture ==
  loaded # NoFile =>
    LET f == file
        told == [i \in DOMAIN f.source |-> <<InPrecision(f.kind, f.source[i][1]), f.source[i][2]>>]
        before == SubSeq(told, 1, f.at - 1)
    IN  loaded =
          CASE f.how = "none" -> told
            [] f.how = "gone" -> before
            [] f.how = "part" -> IF f.kind = "iv8cap" THEN << >> ELSE before
            [] f.how = "damaged" -> IF f.kind = "iv8cap" THEN << >>
                                    ELSE before \o SubSeq(told, f.at + 1, Len(told))

--------------------------------------------------------------------------------
(***************************************************************************)
(* The binary file flow records are exported to and read from              *)
(* (netflow8.py, write_nf8, read_nf8, encode_record, decode_record).       *)
(*                                                                         *)
(* The file is opened for writing first, which empties it; then the header *)
(* with the number of records is packed, then one record after another.    *)
(* Packing raises for a number that does not fit its field: more records   *)
(* than 16 bits count, more packets or octets in a flow than 32 bits do.   *)
(* What was written before stays.  A file may also be cut before it is     *)
(* read.                                                                   *)
(***************************************************************************)
CONSTANTS
  FlowRecords,      \* records [src, dst, packets, octets]; an address is eight octets
  MaxField,         \* largest packet or octet count that fits; 2^32 - 1 in the code
  MaxCount,         \* largest number of records that fits; 2^16 - 1 in the code
  MaxWritten,       \* bound: records given to one write
  NoNf8, NoResult

ASSUME FileAssumption ==
  /\ FlowRecords \subseteq [src : [1 .. 8 -> 0 .. 255], dst : [1 .. 8 -> 0 .. 255],
                            packets : Nat, octets : Nat]
  /\ MaxField \in Nat /\ MaxCount \in Nat /\ MaxWritten \in Nat

VARIABLES
  given,            \* what the last write_nf8 was given
  nf8,              \* the file: NoNf8, or [header, count, chunks]
  raised,           \* whether that write raised
  cut,              \* whether the file was cut since
  readBack          \* what read_nf8 returned, or NoResult

fileVars == <<given, nf8, raised, cut, readBack>>

(* A 32-bit number as its high and low 16 bits.                             *)
U32Pair(a) == << <<(a[1] * 256) + a[2], (a[3] * 256) + a[4]>>,
                 <<(a[5] * 256) + a[6], (a[7] * 256) + a[8]>> >>

AddressOfPairs(asn, host) ==
  <<asn[1] \div 256, asn[1] % 256, asn[2] \div 256, asn[2] % 256,
    host[1] \div 256, host[1] % 256, host[2] \div 256, host[2] % 256>>

Fits(record) == record.packets <= MaxField /\ record.octets <= MaxField

EncodeRecord(record) ==
  <<U32Pair(record.src)[1], U32Pair(record.src)[2], U32Pair(record.dst)[1], U32Pair(record.dst)[2],
    record.packets, record.octets>>

DecodeRecord(chunk) ==
  [src |-> AddressOfPairs(chunk[1], chunk[2]), dst |-> AddressOfPairs(chunk[3], chunk[4]),
   packets |-> chunk[5], octets |-> chunk[6]]

Chunks(records) == [i \in DOMAIN records |-> EncodeRecord(records[i])]

Packable(records) ==
  LET stops == {i \in DOMAIN records : ~Fits(records[i])}
      first == CHOOSE i \in stops : \A j \in stops : i <= j
  IN  IF stops = {} THEN records ELSE SubSeq(records, 1, first - 1)

WriteNf8(records) ==
  /\ given' = records
  /\ cut' = FALSE
  /\ readBack' = NoResult
  /\ IF Len(records) > MaxCount
     THEN raised' = TRUE /\ nf8' = [header |-> FALSE, count |-> 0, chunks |-> << >>]
     ELSE /\ raised' = (Packable(records) # records)
          /\ nf8' = [header |-> TRUE, count |-> Len(records), chunks |-> Chunks(Packable(records))]

(* Only n records are left, with a part of the next or none; or not even the *)
(* header is whole.                                                          *)
CutNf8(n) ==
  /\ nf8 # NoNf8
  /\ n <= Len(nf8.chunks)
  /\ nf8' \in {[nf8 EXCEPT !.chunks = SubSeq(@, 1, n)],
               [header |-> FALSE, count |-> 0, chunks |-> << >>]}
  /\ cut' = TRUE /\ readBack' = NoResult
  /\ UNCHANGED <<given, raised>>

(* A file without a header raises; records may be fewer than it says.       *)
ReadNf8 ==
  /\ nf8 # NoNf8 /\ nf8.header
  /\ readBack' = [i \in {j \in DOMAIN nf8.chunks : j <= nf8.count} |-> DecodeRecord(nf8.chunks[i])]
  /\ UNCHANGED <<given, nf8, raised, cut>>

FileInit ==
  given = << >> /\ nf8 = NoNf8 /\ raised = FALSE /\ cut = FALSE /\ readBack = NoResult

FileNext ==
  \/ \E n \in 0 .. MaxWritten : \E records \in [1 .. n -> FlowRecords] : WriteNf8(records)
  \/ \E n \in 0 .. MaxWritten : CutNf8(n)
  \/ ReadNf8

FileSpec == FileInit /\ [][FileNext]_fileVars

--------------------------------------------------------------------------------
(* What is read from a file is the records it was given, unchanged and from *)
(* the first one on without a gap, and all of them unless the write raised or *)
(* the file was cut.                                                         *)
FileTellsRecords ==
  readBack # NoResult =>
    /\ Len(readBack) <= Len(given)
    /\ \A i \in DOMAIN readBack : readBack[i] = given[i]
    /\ ~raised /\ ~cut => readBack = given

(* What is read back from a file tells no more and nothing else than what    *)
(* was put in it, though files are cut, damaged, or given up half written:   *)
(* captures (capture.py, pcap_export.py) and flow records (netflow8.py).     *)
FilesTell == ReplayIsCapture /\ FileTellsRecords
================================================================================
