------------------------------ MODULE FileInfo ------------------------------
(***************************************************************************)
(* What the music database learns of one file: fileInfo::fileInfo with the *)
(* tag readers built without TagLib (fileInfo.cpp).                        *)
(*                                                                         *)
(* A file is a record of what the readers can tell apart:                  *)
(*   mime    its type, from its extension                                  *)
(*   v1      the last 128 bytes: NoTag or a function of field to bytes     *)
(*   v2      the tag at its start: NoTag or a record of the bytes the      *)
(*           reader looks at; frames are a sequence of [id, data], pad the *)
(*           zero bytes after them, stuffed the bytes unsynchronisation    *)
(*           added, onDisk the frames that are there when the file is cut  *)
(*           short (all of them when it is not), raw its bytes in the file *)
(*   audio   the bytes after the tag, an ID3v1 tag the last of them; for a *)
(*           FLAC file its two words                                       *)
(* The readers are sequential; a step is one header or one turn of a loop. *)
(***************************************************************************)
EXTENDS Integers, Sequences, FiniteSetsExt

CONSTANTS Files,    \* the files of the collection
          NoTag     \* no tag of that kind in the file

TagFields == {"title", "artist", "album", "year", "genre", "track"}

\* ID3size: four bytes of seven bits.
ID3size(b) == b[1] * 2097152 + b[2] * 16384 + b[3] * 128 + b[4]

\* Where each frame ends: it is ten bytes and its data.
FrameEnds(frames) ==
    LET end[k \in 0 .. Len(frames)] ==
            IF k = 0 THEN 0 ELSE end[k - 1] + 10 + Len(frames[k].data)
    IN  end

\* What the header of the tag is refused for. The size of an extended header
\* is compared without swapping its bytes, so that every size but 0 is over 10.
Refusal(t) ==
    IF t = NoTag THEN -1
    ELSE IF t.version > 5 THEN -2
    ELSE IF t.version < 3 \/ t.flags \intersect 0..4 # {} THEN -3
    ELSE IF 6 \in t.flags /\ t.extSize # 0 THEN -4
    ELSE 0

\* What a file is. A tag tells its size: that of its frames, the padding and
\* what unsynchronisation added. No extended header is empty.
Byte == 0..255
IsTag(t) ==
    /\ t.version \in Nat /\ t.flags \subseteq 0..7 /\ t.pad \in Nat /\ t.stuffed \in Nat
    /\ t.frames \in Seq([id : STRING, data : Seq(Byte)])
    /\ t.onDisk \in 0 .. Len(t.frames)
    /\ 6 \in t.flags => t.extSize # 0
    /\ Refusal(t) = 0 =>
        ID3size(t.size) = FrameEnds(t.frames)[Len(t.frames)] + t.pad + t.stuffed
    /\ t.raw \in Seq(Byte) /\ Len(t.raw) >= 10
    /\ t.onDisk = Len(t.frames) => Len(t.raw) = 10 + ID3size(t.size)
IsFile(f) ==
    /\ f.mime \in STRING
    /\ f.v1 = NoTag \/ \E fs \in SUBSET TagFields : f.v1 \in [fs -> Seq(Byte)]
    /\ f.v2 = NoTag \/ IsTag(f.v2)
    /\ f.mime = "audio/mpeg" => f.audio \in Seq(Byte) /\ (f.v1 # NoTag => Len(f.audio) >= 128)
    /\ f.mime = "audio/flac" => f.audio \in [magic : BOOLEAN, block : Byte, word : Nat]

ASSUME FilesAssumption == Files # {} /\ \A f \in Files : IsFile(f)

VARIABLES file,     \* the file being read
          stage,    \* open, v1, v2, frames, mpeg, flac, done or wild
          tags,     \* fileInfo::tags: a function of some of the TagFields
          r1, r2,   \* what tagID3v1 and tagID3v2 return
          fpos,     \* place of the next frame in the tag
          length2,  \* unSyncLength: the bytes of the tag the loop believes in
          pos,      \* next byte readMpegHeader reads
          version,  \* hdr.version of readMpegHeader: kept by a reserved value
          info      \* sampleRate, nrBits, nrChannels, isAudioFile, length

fileVars == <<file, stage, tags, r1, r2, fpos, length2, pos, version, info>>

\* frameIDs: the frames the reader keeps and the field each one fills.
FrameField == [TPE1 |-> "artist", TALB |-> "album", TIT2 |-> "title",
               TRCK |-> "track", TYER |-> "year", TCON |-> "genre"]

\* Bytes that are not the frame's, taken as its text.
Foreign == -1

NoInfo == [rate |-> 0, bits |-> 0, channels |-> 0, isAudio |-> FALSE, secs |-> "none"]
NoFields == [f \in {} |-> <<>>]
With(t, field, text) ==
    [f \in DOMAIN t \union {field} |-> IF f = field THEN text ELSE t[f]]

----------------------------------------------------------------------------
(* Text.                                                                   *)

\* clipString: the bytes before the first zero, without trailing spaces.
Clip(s) ==
    LET ends == {i \in 1..Len(s) : s[i] = 0}
        len == IF ends = {} THEN Len(s) ELSE (CHOOSE i \in ends : \A j \in ends : i <= j) - 1
        kept == {i \in 1..len : s[i] # 32}
    IN  SubSeq(s, 1, IF kept = {} THEN 0 ELSE CHOOSE i \in kept : \A j \in kept : i >= j)

\* utf16_to_char: every other byte, from the first.
EvenBytes(s) == [i \in 1 .. Len(s) \div 2 |-> s[2 * i - 1]]

\* The text of a frame, from the encoding its first byte names.
FrameText(data) ==
    CASE data[1] \in 33..127 -> data
      [] data[1] \in {0, 3} -> Tail(data)
      [] data[1] = 1 -> EvenBytes(SubSeq(data, 4, Len(data)))
      [] data[1] = 2 -> EvenBytes(Tail(data))
      [] OTHER -> <<>>

----------------------------------------------------------------------------
(* The places of the frames in the tag.                                    *)

FrameStart(i) == FrameEnds(file.v2.frames)[i - 1]
FramesEnd == FrameEnds(file.v2.frames)[Len(file.v2.frames)]

\* The frame size as the loop reads it: ntohl of the four bytes, which in a
\* version 4 tag hold seven bits each.
SizeRead(n) == IF file.v2.version = 4 THEN (n \div 128) * 256 + (n % 128) ELSE n

\* The data of a frame read with that size: past its end, other bytes follow.
Taken(data) == IF SizeRead(Len(data)) > Len(data) THEN data \o <<Foreign>> ELSE data

IsCut == file.v2.onDisk < Len(file.v2.frames)

\* Mutant of InTag: room for a whole frame header and five bytes is asked for.
InTagShort == fpos + 15 < length2

\* fpos < unSyncLength-5, on unsigned numbers: below five it always holds.
InTag == length2 < 5 \/ fpos < length2 - 5

AtFrame == {i \in 1 .. file.v2.onDisk : FrameStart(i) = fpos}
\* The eight bytes of identifier and size lie in the padding.
AtPadding == ~IsCut /\ fpos >= FramesEnd /\ fpos + 8 <= FramesEnd + file.v2.pad

----------------------------------------------------------------------------
(* fileInfo::fileInfo: only audio is opened; the readers of MP3 and FLAC.  *)

ReadInit ==
    /\ file \in Files
    /\ stage = "open" /\ tags = NoFields /\ r1 = -1 /\ r2 = -1
    /\ fpos = 0 /\ length2 = 0 /\ pos = 1 /\ version = 1 /\ info = NoInfo

Open ==
    /\ stage = "open"
    /\ stage' = CASE file.mime = "audio/mpeg" -> "v1"
               [] file.mime = "audio/flac" -> "v2"
               [] OTHER -> "done"
    /\ info' = IF file.mime = "audio/mpeg"
               THEN [info EXCEPT !.bits = 63, !.channels = 2, !.rate = 63]
               ELSE info
    /\ UNCHANGED <<file, tags, r1, r2, fpos, length2, pos, version>>

\* tagID3v1: a fresh map is filled; a genre byte outside the table adds none.
ReadV1 ==
    /\ stage = "v1" /\ stage' = "v2"
    /\ IF file.v1 = NoTag
       THEN r1' = -3 /\ UNCHANGED tags
       ELSE r1' = 0 /\ tags' = [f \in DOMAIN file.v1 |->
                                    IF f = "genre" THEN file.v1[f] ELSE Clip(file.v1[f])]
    /\ UNCHANGED <<file, r2, fpos, length2, pos, version, info>>

AfterTags == IF file.mime = "audio/flac" THEN "flac" ELSE "mpeg"

\* The bytes of the tag are fetched in one read. When they are not all there
\* the size becomes 0, and the loop that undoes the unsynchronisation, which
\* counts to size-1, never ends in the buffer.
ReadV2 ==
    /\ stage = "v2"
    /\ IF Refusal(file.v2) # 0
       THEN r2' = Refusal(file.v2) /\ stage' = AfterTags /\ UNCHANGED length2
       ELSE /\ r2' = 10 + (IF IsCut THEN 0 ELSE ID3size(file.v2.size))
            /\ length2' = r2' - 10
            /\ stage' = IF length2' = 0 /\ 7 \in file.v2.flags THEN "wild" ELSE "frames"
    /\ UNCHANGED <<file, tags, r1, fpos, pos, version, info>>

\* Mutant of ReadFrame: the next frame is looked for behind the data alone.
ReadFrameData ==
    /\ stage = "frames" /\ InTag
    /\ \E i \in AtFrame :
        /\ file.v2.frames[i].data # <<>>
        /\ fpos' = fpos + SizeRead(Len(file.v2.frames[i].data))
        /\ UNCHANGED tags
    /\ UNCHANGED <<file, stage, r1, r2, length2, pos, version, info>>

\* One whole frame.
ReadFrame ==
    /\ stage = "frames" /\ InTag
    /\ \E i \in AtFrame :
        LET frame == file.v2.frames[i] IN
        /\ frame.data # <<>>
        /\ fpos' = fpos + 10 + SizeRead(Len(frame.data))
        /\ tags' = IF frame.id \in DOMAIN FrameField
                   THEN With(tags, FrameField[frame.id], FrameText(Taken(frame.data)))
                   ELSE tags
    /\ UNCHANGED <<file, stage, r1, r2, length2, pos, version, info>>

\* A size of 0 ends the loop: an empty frame or the padding.
ZeroFrame ==
    /\ stage = "frames" /\ InTag
    /\ AtPadding \/ \E i \in AtFrame : file.v2.frames[i].data = <<>>
    /\ stage' = AfterTags
    /\ UNCHANGED <<file, tags, r1, r2, fpos, length2, pos, version, info>>

\* The loop is let in where there is no frame: at bytes that were never read,
\* at a padding too short for a size, or in the middle of a frame. It finds a
\* size of 0, or uses bytes that are not a frame.
ReadBeyond ==
    /\ stage = "frames" /\ InTag
    /\ AtFrame = {} /\ ~AtPadding
    /\ stage' \in {AfterTags, "wild"}
    /\ UNCHANGED <<file, tags, r1, r2, fpos, length2, pos, version, info>>

FramesDone ==
    /\ stage = "frames" /\ ~InTag
    /\ stage' = AfterTags
    /\ UNCHANGED <<file, tags, r1, r2, fpos, length2, pos, version, info>>

----------------------------------------------------------------------------
(* readMpegHeader: from one byte before the end of the tag, or the start.  *)

\* The file's bytes: those of the tag, be it good, refused or cut, and the rest.
Bytes == (IF file.v2 = NoTag THEN <<>> ELSE file.v2.raw) \o file.audio

\* Mutant of Scanned: the search starts one byte behind the tag.
ScannedLate == SubSeq(Bytes, Max({0, r2 + 1}) + 1, Len(Bytes))

\* The bytes the search runs over: fseek(max(0, r2-1)).
Scanned == SubSeq(Bytes, Max({0, r2 - 1}) + 1, Len(Bytes))

\* A byte of the file, or at its end what was in memory before the read.
ByteAt(i) == IF i <= Len(Scanned) THEN {Scanned[i]} ELSE {0, 255}

\* The version bits of the second byte; the reserved value leaves the last one.
VersionOf(b) == <<4, version, 2, 1>>[1 + ((b \div 8) % 4)]

\* The sampling rate, 0 where the table has none.
RateOf(v, b) == <<44100, 48000, 32000, 0>>[1 + ((b \div 4) % 4)] \div v

\* Mutant of Sync: the end of the file is not noticed.
SyncForever ==
    /\ stage = "mpeg"
    /\ pos' = IF pos > Len(Scanned) THEN pos ELSE pos + 1
    /\ UNCHANGED <<file, stage, tags, r1, r2, fpos, length2, version, info>>

\* One turn: a byte, and behind an FF three more, which are not looked at
\* again when they make no header. A bit rate of 0 is divided by.
Sync ==
    /\ stage = "mpeg"
    /\ \E b1 \in ByteAt(pos), b2 \in ByteAt(pos + 1), b3 \in ByteAt(pos + 2) :
        LET found == b1 = 255 /\ b2 >= 224 /\ RateOf(VersionOf(b2), b3) # 0
            reads == IF b1 = 255 THEN 4 ELSE 1
            audio == r1 >= 0 \/ r2 >= 0
        IN
        /\ version' = IF b1 = 255 /\ b2 >= 224 THEN VersionOf(b2) ELSE version
        /\ pos' = pos + reads
        /\ stage' = IF found \/ pos + reads - 1 > Len(Scanned) THEN "done" ELSE "mpeg"
        /\ info' = IF found
                   THEN [info EXCEPT !.rate = RateOf(VersionOf(b2), b3), !.isAudio = audio,
                             !.secs = IF b3 \div 16 \in {0, 15} THEN "undefined" ELSE "known"]
                   ELSE [info EXCEPT !.isAudio = stage' = "done" /\ audio]
    /\ UNCHANGED <<file, tags, r1, r2, fpos, length2>>

(* flac::parseHeader: the two words of a stream that has the right place.  *)

\* isLast is the first bit field, the lowest bit of the byte.
BlockType(b) == b \div 2
StreamBits(word) == ((word \div 16) % 32) + 1
StreamChannels(word) == ((word \div 512) % 8) + 1
StreamRate(word) == word \div 4096

Flac ==
    /\ stage = "flac" /\ stage' = "done"
    /\ IF /\ file.v2 = NoTag \/ (r2 > 0 /\ ~IsCut)
          /\ file.audio.magic /\ BlockType(file.audio.block) = 0
       THEN info' = [info EXCEPT !.isAudio = TRUE, !.bits = StreamBits(file.audio.word),
                         !.channels = StreamChannels(file.audio.word),
                         !.rate = StreamRate(file.audio.word)]
       ELSE UNCHANGED info
    /\ UNCHANGED <<file, tags, r1, r2, fpos, length2, pos, version>>

ReadNext ==
    \/ Open \/ ReadV1 \/ ReadV2
    \/ ReadFrame \/ ZeroFrame \/ ReadBeyond \/ FramesDone
    \/ Sync \/ Flac

ReadSpec == ReadInit /\ [][ReadNext]_fileVars /\ WF_fileVars(ReadNext)

----------------------------------------------------------------------------
(* Properties.                                                             *)

\* Every variable stays in the range the readers can give it.
TypeOK ==
    /\ stage \in {"open", "v1", "v2", "frames", "mpeg", "flac", "done", "wild"}
    /\ DOMAIN tags \subseteq TagFields /\ \A f \in DOMAIN tags : tags[f] \in Seq(-1..255)
    /\ r1 \in {-3, -1, 0} /\ r2 \in -4..-1 \union {10 + length2}
    /\ fpos \in Nat /\ length2 \in Nat
    /\ pos \in 1 .. (IF stage \in {"mpeg", "done"} /\ file.mime = "audio/mpeg"
                     THEN Len(Scanned) ELSE 0) + 5
    /\ version \in {1, 2, 4}
    /\ info \in [rate : Nat, bits : Nat, channels : Nat, isAudio : BOOLEAN,
                 secs : {"none", "known", "undefined"}]

Mpeg == file.mime = "audio/mpeg"
HasV2 == file.v2 # NoTag /\ Refusal(file.v2) = 0

\* Frames whose size version 4 writes in more than seven bits are misread.
LongV4 == HasV2 /\ file.v2.version = 4 /\
          \E i \in 1..Len(file.v2.frames) : Len(file.v2.frames[i].data) >= 128

\* The frames a reader can come to: on disk and before the first empty one.
Readable == {i \in 1 .. file.v2.onDisk : \A j \in 1..i : file.v2.frames[j].data # <<>>}

\* The value a field should have: the last readable frame for it, else ID3v1.
Naming(f) ==
    IF ~HasV2 THEN {}
    ELSE {i \in Readable : file.v2.frames[i].id \in DOMAIN FrameField
                           /\ FrameField[file.v2.frames[i].id] = f}
Expected ==
    LET v1 == IF file.v1 = NoTag THEN {} ELSE DOMAIN file.v1 IN
    [f \in {g \in TagFields : g \in v1 \/ Naming(g) # {}} |->
        IF Naming(f) # {} THEN FrameText(file.v2.frames[Max(Naming(f))].data)
        ELSE IF f = "genre" THEN file.v1[f] ELSE Clip(file.v1[f])]

\* ID3v2 goes over ID3v1 field by field: a field no readable frame names keeps
\* its ID3v1 value, the last of two frames wins, and a tag that is cut short
\* still gives the frames that are there.
TagsRight == stage = "done" /\ Mpeg /\ ~LongV4 => tags = Expected

\* The frame loop uses bytes that are no frame only where this can be read
\* off the file: a tag cut short, one with stuffed bytes, one that ends with
\* six or seven bytes of padding or is shorter than five, or long version 4
\* frames.
StaysInTag ==
    stage = "wild" => IsCut \/ LongV4 \/ file.v2.stuffed > 0 \/ length2 < 5
                   \/ file.v2.pad \in {6, 7}

\* The first frame of music right behind the tag gives the sampling rate: the
\* search starts early enough and goes on until it is there, past the bytes of
\* a tag that was refused or cut. Those bytes must not hold an FF: the FF FE of
\* UTF-16 text passes for a header, and of a file with such a tag that is
\* refused the rate is anything.
MpegRead ==
    stage = "done" /\ Mpeg /\ Len(file.audio) >= 4
        /\ (\A i \in 1 .. Len(Scanned) - Len(file.audio) : Scanned[i] # 255)
        /\ file.audio[1] = 255 /\ file.audio[2] >= 224 /\ (file.audio[2] \div 8) % 4 # 1
        /\ (file.audio[3] \div 4) % 4 # 3
    => info.rate = RateOf(VersionOf(file.audio[2]), file.audio[3])

\* A FLAC file with any acceptable tag or none is in the collection, with the
\* rate, channels and bits of its stream information.
FlacRead ==
    stage = "done" /\ file.mime = "audio/flac" /\ file.audio.magic
        /\ (file.v2 # NoTag => HasV2 /\ ~IsCut) /\ file.audio.block = 0
    => /\ info.isAudio
       /\ info.rate * 4096 + (info.channels - 1) * 512 + (info.bits - 1) * 16
            = file.audio.word - (file.audio.word % 16)

\* The header behind the tags is found and read right, for both kinds of file.
HeaderRead == MpegRead /\ FlacRead

\* The scan never hangs on a file: every loop of the readers ends.
Ends == <>(stage \in {"done", "wild"})
=============================================================================
