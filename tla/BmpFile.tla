------------------------------ MODULE BmpFile ------------------------------
(***************************************************************************)
(* The bytes of the downloaded file, which every board generates on the    *)
(* fly.  CH592F and CH32L103 walk the pixels with counters that survive    *)
(* from one packet to the next (GenerateChunk, AdvancePixelState); CH585M  *)
(* and CH32V307 generate whole rows and cut packets out of them            *)
(* (GenerateRow, FileXfer_FillCallback).  Both must serve the same bitmap, *)
(* whatever the packet sizes and wherever the last download stopped.       *)
(* How packets reach the host is the subject of Ep2Ring, IsrRing and       *)
(* RowXfer: here a packet is served as soon as it is cut.                  *)
(***************************************************************************)
EXTENDS Integers, Sequences

CONSTANTS
    Width, Height,  \* FILEXFER_IMG_WIDTH, FILEXFER_IMG_HEIGHT
    Word,           \* values of a uint32_t: 2^32 in the code
    FsPackets,      \* packet sizes of the walking boards
    HsPackets       \* packet sizes of the boards that serve rows

ASSUME FileAssumption ==
    /\ Width \in Nat /\ Width > 1 /\ Height \in Nat /\ Height > 1
    /\ Word \in Nat /\ Word > Height
    /\ FsPackets \subseteq Nat \ {0}
    /\ HsPackets \subseteq {n \in Nat : n >= 54}

HeaderLen == 54
RowBytes  == Width * 3
TotalSize == HeaderLen + RowBytes * Height

\* A 32-bit little-endian field, and its value when it is read back.
LE32(v)      == <<v % 256, (v \div 256) % 256, (v \div 65536) % 256, (v \div 16777216) % 256>>
Field(f, at) == f[at + 1] + 256 * f[at + 2] + 65536 * f[at + 3] + 16777216 * f[at + 4]

\* BuildBmpHeader.  Mutation: the image's size goes into the size of the file.
Zeros(n) == [i \in 1 .. n |-> 0]
Header_ImageSize ==
    <<66, 77>> \o LE32(RowBytes * Height) \o Zeros(4) \o LE32(HeaderLen) \o LE32(40) \o LE32(Width)
        \o LE32(Height) \o <<1, 0, 24, 0>> \o Zeros(4) \o LE32(RowBytes * Height) \o Zeros(16)
Header ==
    <<66, 77>> \o LE32(TotalSize) \o Zeros(4) \o LE32(HeaderLen) \o LE32(40) \o LE32(Width)
        \o LE32(Height) \o <<1, 0, 24, 0>> \o Zeros(4) \o LE32(RowBytes * Height) \o Zeros(16)

\* The tables of FileXfer_Init.
s_blueByCol  == [i \in 0 .. Width - 1  |-> ((i * 255) \div (Width - 1)) % 256]
s_greenByRow == [i \in 0 .. Height - 1 |-> ((i * 255) \div (Height - 1)) % 256]

VARIABLES
    s_genPos,       \* walking boards: bytes generated by the calls so far
    s_channel, s_col, s_actualRow,
    chunk, done,    \* n and i of the call of GenerateChunk in progress, 0 between calls
    walked,         \* the bytes they have served of this download
    s_pos,          \* s_genPos of the boards that serve rows
    rowed           \* the bytes they have served of this download

walkVars == <<s_genPos, s_channel, s_col, s_actualRow, chunk, done, walked>>
rowVars  == <<s_pos, rowed>>
fileVars == <<walkVars, rowVars>>

(***************************************************************************)
(* The walk.  s_actualRow is a uint32_t: after the last pixel it wraps.    *)
(***************************************************************************)

Advance(w) ==
    IF w.channel + 1 < 3 THEN [w EXCEPT !.channel = @ + 1]
    ELSE IF w.col + 1 < Width THEN [w EXCEPT !.channel = 0, !.col = @ + 1]
    ELSE [w EXCEPT !.channel = 0, !.col = 0, !.row = (@ - 1) % Word]

\* The byte GenerateChunk stores for a walk inside the image; -1 where it
\* would read past the end of a table.
PixelByte(w) ==
    CASE w.channel = 0 -> IF w.col \in DOMAIN s_blueByCol THEN s_blueByCol[w.col] ELSE -1
      [] w.channel = 1 -> IF w.row \in DOMAIN s_greenByRow THEN s_greenByRow[w.row] ELSE -1
      [] OTHER         -> (w.col + w.row) % 256

Smaller(a, b) == IF a < b THEN a ELSE b

\* The offset local of GenerateChunk: how far the file is generated.
Offset == s_genPos + done

ChunkBegin ==
    /\ chunk = 0 /\ s_genPos < TotalSize
    /\ \E maxlen \in FsPackets : chunk' = Smaller(TotalSize - s_genPos, maxlen)
    /\ UNCHANGED <<s_genPos, s_channel, s_col, s_actualRow, done, walked, rowVars>>

\* One turn of the loop of GenerateChunk.
ChunkByte ==
    /\ done < chunk /\ done' = done + 1
    /\ LET w == [channel |-> s_channel, col |-> s_col, row |-> s_actualRow]
       IN  IF Offset < HeaderLen
           THEN /\ walked' = Append(walked, Header[Offset + 1])
                /\ UNCHANGED <<s_channel, s_col, s_actualRow>>
           ELSE /\ walked' = Append(walked, PixelByte(w))
                /\ s_channel' = Advance(w).channel
                /\ s_col' = Advance(w).col
                /\ s_actualRow' = Advance(w).row
    /\ UNCHANGED <<s_genPos, chunk, rowVars>>

ChunkEnd ==
    /\ chunk > 0 /\ done = chunk
    /\ s_genPos' = Offset /\ chunk' = 0 /\ done' = 0
    /\ UNCHANGED <<s_channel, s_col, s_actualRow, walked, rowVars>>

\* The reset of the generation in FileXfer_Pump, wherever the download was, but
\* not within a chunk.  Mutation: the column of the abandoned download is kept.
Restart_KeepsColumn ==
    /\ chunk = 0
    /\ s_genPos' = 0 /\ s_channel' = 0 /\ s_actualRow' = Height - 1
    /\ walked' = <<>>
    /\ UNCHANGED <<s_col, chunk, done, rowVars>>
Restart ==
    /\ chunk = 0
    /\ s_genPos' = 0 /\ s_channel' = 0 /\ s_col' = 0 /\ s_actualRow' = Height - 1
    /\ walked' = <<>>
    /\ UNCHANGED <<chunk, done, rowVars>>

(***************************************************************************)
(* The rows.                                                               *)
(***************************************************************************)

\* GenerateRow.  Mutation: the rows from the bottom.
GenerateRow_Bottom(rowFromTop) ==
    [i \in 1 .. RowBytes |->
        CASE (i - 1) % 3 = 0 -> s_blueByCol[(i - 1) \div 3]
          [] (i - 1) % 3 = 1 -> s_greenByRow[rowFromTop]
          [] OTHER           -> ((i - 1) \div 3 + rowFromTop) % 256]
GenerateRow(rowFromTop) ==
    [i \in 1 .. RowBytes |->
        CASE (i - 1) % 3 = 0 -> s_blueByCol[(i - 1) \div 3]
          [] (i - 1) % 3 = 1 -> s_greenByRow[Height - 1 - rowFromTop]
          [] OTHER           -> ((i - 1) \div 3 + (Height - 1 - rowFromTop)) % 256]

\* FileXfer_FillCallback: the header alone, then packets that end with their row.
RowPacket ==
    /\ s_pos < TotalSize
    /\ \E maxlen \in HsPackets :
           LET pix   == s_pos - HeaderLen
               off   == pix % RowBytes
               avail == Smaller(RowBytes - off, maxlen)
           IN  IF s_pos < HeaderLen
               THEN /\ rowed' = rowed \o Header
                    /\ s_pos' = s_pos + HeaderLen
               ELSE /\ rowed' = rowed \o SubSeq(GenerateRow(pix \div RowBytes), off + 1, off + avail)
                    /\ s_pos' = s_pos + avail
    /\ UNCHANGED walkVars

RowRestart ==
    /\ s_pos' = 0 /\ rowed' = <<>>
    /\ UNCHANGED walkVars

\* The state the first START_FILE_XFER leaves: nothing is served before it.
FileInit ==
    /\ s_genPos = 0 /\ s_channel = 0 /\ s_col = 0 /\ s_actualRow = Height - 1
    /\ chunk = 0 /\ done = 0 /\ walked = <<>>
    /\ s_pos = 0 /\ rowed = <<>>

FileNext == ChunkBegin \/ ChunkByte \/ ChunkEnd \/ Restart \/ RowPacket \/ RowRestart

FileSpec == FileInit /\ [][FileNext]_fileVars

(***************************************************************************)
(* The file.                                                               *)
(***************************************************************************)

\* The byte at an offset of the file, in closed form: a header, then rows of
\* blue, green and red bytes, the top row first.
ByteAt(at) ==
    LET pix == at - HeaderLen
        row == Height - 1 - pix \div RowBytes
        col == (pix % RowBytes) \div 3
    IN  CASE at < HeaderLen -> Header[at + 1]
          [] pix >= 0 /\ pix % 3 = 0 -> s_blueByCol[col]
          [] pix >= 0 /\ pix % 3 = 1 -> s_greenByRow[row]
          [] OTHER -> (col + row) % 256

\* Counters and bytes keep their types.  The column and the channel are what
\* index the tables, so their ranges are part of it.
FileTypeOK ==
    /\ {s_genPos, s_pos, Offset} \subseteq 0 .. TotalSize
    /\ chunk \in Nat /\ done \in 0 .. chunk
    /\ s_channel \in 0 .. 2 /\ s_col \in 0 .. Width - 1
    /\ s_actualRow \in 0 .. Height - 1 \cup {Word - 1}
    /\ \A file \in {walked, rowed} : \A i \in DOMAIN file : file[i] \in 0 .. 255

\* The counters of the walk are where the offset in the file says: the row
\* wraps only with the last byte of the file, which is when no more is read.
WalkAgrees ==
    LET pix == Offset - HeaderLen
    IN  IF Offset <= HeaderLen
        THEN s_channel = 0 /\ s_col = 0 /\ s_actualRow = Height - 1
        ELSE /\ s_channel = pix % 3
             /\ s_col = (pix % RowBytes) \div 3
             /\ s_actualRow = (Height - 1 - pix \div RowBytes) % Word

\* What has been served is the beginning of the file, byte for byte.
Exact(served, pos) ==
    /\ Len(served) = pos
    /\ \A i \in 1 .. pos : served[i] = ByteAt(i - 1)

\* The boards that walk from pixel to pixel and the boards that serve rows
\* serve the same file: however the packets cut header, pixels and rows, and
\* although a download may restart anywhere.
SameFile == Exact(walked, Offset) /\ Exact(rowed, s_pos)

\* A complete file is what its own header says: its size, where its pixels
\* start, and the pixels a reader expects from its dimensions.
HeaderTells ==
    \A file \in {walked, rowed} : Len(file) = TotalSize =>
        /\ Field(file, 2) = Len(file)
        /\ Field(file, 10) + Field(file, 34) = Len(file)
        /\ Field(file, 34) = 3 * Field(file, 18) * Field(file, 22)
=============================================================================
