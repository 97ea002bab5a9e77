----------------------------- MODULE MCFileInfo -----------------------------
(***************************************************************************)
(* A collection of small files for the tag readers: every kind of tag with *)
(* every kind of music behind it.                                          *)
(***************************************************************************)
EXTENDS FileInfo, SequencesExt

Frame(id, data) == [id |-> id, data |-> data]

FrameLists == {
    <<>>,
    <<Frame("TIT2", <<0, 65, 66>>)>>,
    <<Frame("TIT2", <<3, 66>>), Frame("TPE1", <<1, 255, 254, 67, 0>>)>>,
    <<Frame("TIT2", <<65>>), Frame("TIT2", <<2, 0, 68>>), Frame("TXXX", <<0, 69>>)>>,
    <<Frame("TRCK", <<5, 65>>), Frame("TALB", <<>>), Frame("TCON", <<0, 70>>)>>,
    <<Frame("TYER", <<1, 255>>), Frame("TPE1", <<0, 255>>)>>}

LongFrames ==
    <<Frame("TIT2", [i \in 1..130 |-> IF i = 1 THEN 0 ELSE 65]), Frame("TPE1", <<0, 66>>)>>

Length(fs) == MapThenSumSet(LAMBDA j : 10 + Len(fs[j].data), 1..Len(fs))
Zeros(n) == [i \in 1..n |-> 0]

\* The bytes of a tag: letters are 65, a size is four bytes of seven bits.
Size4(n) == <<0, 0, n \div 128, n % 128>>
Header(v, flags, n) == <<73, 68, 51, v, 0, MapThenSumSet(LAMBDA i : 2^i, flags)>> \o Size4(n)
FrameBytes(fs) ==
    FoldLeft(LAMBDA bytes, f : bytes \o <<65, 65, 65, 65>> \o Size4(Len(f.data)) \o <<0, 0>> \o f.data,
             <<>>, fs)

\* Unsynchronisation puts a zero behind an FF that would pass for a header.
Unsync(s) ==
    FoldLeft(LAMBDA bytes, i :
                 bytes \o IF s[i] = 255 /\ (i = Len(s) \/ s[i + 1] = 0 \/ s[i + 1] >= 224)
                          THEN <<255, 0>> ELSE <<s[i]>>,
             <<>>, [i \in 1 .. Len(s) |-> i])

V2Tag(v, flags, fs, pad, onDisk) ==
    LET plain   == FrameBytes(fs) \o Zeros(pad)
        body    == IF 7 \in flags THEN Unsync(plain) ELSE plain
        written == IF onDisk = Len(fs) THEN body ELSE FrameBytes(SubSeq(fs, 1, onDisk))
    IN  [version |-> v, flags |-> flags, extSize |-> 0, frames |-> fs, pad |-> pad,
         stuffed |-> Len(body) - Len(plain), onDisk |-> onDisk, size |-> Size4(Len(body)),
         raw |-> Header(v, flags, Len(body)) \o written]

\* A tag of another version, with an unknown flag or with an extended header.
\* Its text is Latin, or UTF-16 with a byte order mark.
Refused(v, flags, ext, text) ==
    LET body == (IF 6 \in flags THEN <<0, 0, 0, ext>> \o Zeros(ext) ELSE <<>>)
                    \o (IF v = 2 THEN <<84, 84, 50, 0, 0, Len(text)>> \o text
                        ELSE FrameBytes(<<Frame("TIT2", text)>>))
    IN  [version |-> v, flags |-> flags, extSize |-> ext, frames |-> <<Frame("TIT2", text)>>,
         pad |-> 0, stuffed |-> 0, onDisk |-> 1, size |-> Size4(Len(body)),
         raw |-> Header(v, flags, Len(body)) \o body]

RefusedTags ==
    {Refused(f[1], f[2], f[3], text) :
        f \in {<<2, {}, 0>>, <<3, {6}, 6>>, <<4, {4}, 0>>, <<6, {}, 0>>},
        text \in {<<0, 65>>, <<1, 255, 254, 65, 0>>}}

WholeTags ==
    {V2Tag(v, {}, fs, pad, Len(fs)) :
        v \in {3, 4}, fs \in FrameLists, pad \in {0, 4, 5, 6, 7, 8, 12}}

OtherTags ==
    {V2Tag(v, {}, LongFrames, 8, 2) : v \in {3, 4}} \union
    {V2Tag(4, {7}, fs, pad, Len(fs)) : fs \in FrameLists \ {<<>>}, pad \in {0, 5, 8}} \union
    RefusedTags

\* Cut in the tag: there is no music, and no ID3v1 tag.
CutTags ==
    {V2Tag(3, flags, fs, 0, n) :
        flags \in {{}, {7}}, n \in 0..1, fs \in {g \in FrameLists : Len(g) > 1}}

\* An ID3v1 tag, and its 128 bytes.
V1Tag == [title |-> <<84, 32, 0, 65>>, artist |-> <<32, 32>>,
          album |-> <<65, 32, 66>>, genre |-> <<80>>, year |-> <<49>>]
Fixed(s, n) == s \o Zeros(n - Len(s))
V1Bytes == <<84, 65, 71>> \o Fixed(V1Tag.title, 30) \o Fixed(V1Tag.artist, 30)
               \o Fixed(V1Tag.album, 30) \o Fixed(V1Tag.year, 4) \o Zeros(30) \o <<13>>

Music == {
    <<>>, <<255>>,
    <<255, 251, 144, 0>>,               \* a header at once
    <<0, 255, 0, 0, 1, 255, 243, 20, 0>>, \* after bytes that look like one
    <<255, 0, 255, 251, 144, 0, 7>>,    \* a header that is skipped over
    <<255, 227, 4, 0, 9>>,              \* bit rate 0
    <<255, 243, 28, 0, 255, 235, 144, 0>>}  \* no sampling rate, then a reserved version

MCFiles ==
    {[mime |-> "audio/mpeg", v1 |-> NoTag, v2 |-> v2, audio |-> a] :
        v2 \in WholeTags \union OtherTags \union {NoTag}, a \in Music} \union
    {[mime |-> "audio/mpeg", v1 |-> V1Tag, v2 |-> v2, audio |-> a \o V1Bytes] :
        v2 \in WholeTags \union OtherTags \union {NoTag}, a \in Music} \union
    {[mime |-> "audio/mpeg", v1 |-> NoTag, v2 |-> v2, audio |-> <<>>] : v2 \in CutTags} \union
    {[mime |-> "audio/flac", v1 |-> NoTag, v2 |-> v2,
      audio |-> [magic |-> m, block |-> b, word |-> w]] :
        v2 \in OtherTags \union CutTags \union {NoTag}, m \in BOOLEAN, b \in {0, 4, 128},
        w \in {44100 * 4096 + 512 + 15 * 16 + 3, 96000 * 4096 + 5 * 512 + 23 * 16}} \union
    {[mime |-> "text/plain", v1 |-> NoTag, v2 |-> NoTag, audio |-> <<>>]}
=============================================================================
