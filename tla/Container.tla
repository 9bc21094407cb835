------------------------------- MODULE Container -------------------------------
(* The bytes of CURRENT and of a manifest (container.rs, manifest.rs): framed  *)
(* by a magic, a version, the size of the payload and a hash of all that comes *)
(* before it. A file is a sequence of words, one for each field; a hash, or a  *)
(* checksum, is what it was computed of, so that two agree only when that      *)
(* agrees. A manifest entry is the words that Manifest.tla keeps of it. The    *)
(* model file is framed alike; its values are in ModelTraining.tla.            *)
EXTENDS Manifest

CONSTANTS
    MaxPayload,       \* MAX_CONTAINER_PAYLOAD
    DamageValues,     \* what a word may be replaced by
    MaxDamage         \* how often a file is damaged

VARIABLES
    disk,             \* the words of the file, or <<>>
    written,          \* [kind, record]: what the program wrote there
    damage            \* how often it was damaged, and whether it was rehashed

containerVars == <<disk, written, damage>>

CurrentMagic == "SPHRCUR1"
ManifestMagic == "SPHRMAN1"
HeaderLen == 3
HashLen == 1
HeadLen == 5          \* the fixed fields of a manifest
EntryLen == 3         \* ENTRY_LEN

Word(value) == [word |-> value]
Name(magic) == [magic |-> magic]
Hash(words) == [hash |-> words]
Crc(words) == [crc |-> words]
Before(bytes, n) == SubSeq(bytes, 1, Len(bytes) - n)

-------------------------------------------------------------------------------
Header(magic, size) == <<Name(magic), Word(1), Word(size)>>

(* pack                                                                        *)
Pack(magic, payload) ==
    LET bytes == Header(magic, Len(payload)) \o payload IN Append(bytes, Hash(bytes))

(* Seeded fault: a file that goes on after its trailer is accepted.            *)
UnpackPrefix(bytes, magic) ==
    IF Len(bytes) < HeaderLen + HashLen THEN "Length"
    ELSE IF bytes[1] # Name(magic) THEN "Magic"
    ELSE IF bytes[2] # Word(1) THEN "Version"
    ELSE IF bytes[3].word > MaxPayload \/ bytes[3].word + HeaderLen + HashLen > Len(bytes)
         THEN "Length"
    ELSE IF bytes[HeaderLen + bytes[3].word + 1] # Hash(SubSeq(bytes, 1, HeaderLen + bytes[3].word))
         THEN "Hash" ELSE "Ok"

(* unpack: the first test that fails names the error.                          *)
Unpack(bytes, magic) ==
    IF Len(bytes) < HeaderLen + HashLen THEN "Length"
    ELSE IF bytes[1] # Name(magic) THEN "Magic"
    ELSE IF bytes[2] # Word(1) THEN "Version"
    ELSE IF bytes[3].word > MaxPayload \/ bytes[3].word + HeaderLen + HashLen # Len(bytes)
         THEN "Length"
    ELSE IF bytes[Len(bytes)] # Hash(Before(bytes, HashLen)) THEN "Hash" ELSE "Ok"

Payload(bytes) == SubSeq(bytes, HeaderLen + 1, HeaderLen + bytes[3].word)

(* Current::encode: a checksum of its own over the header and both fields.     *)
EncodeCurrent(current) ==
    LET fields == <<Word(current.generation), Word(current.manifest)>>
    IN  Pack(CurrentMagic, Append(fields, Crc(Header(CurrentMagic, 3) \o fields)))

(* Current::decode                                                             *)
CurrentError(bytes) ==
    IF Unpack(bytes, CurrentMagic) # "Ok" THEN Unpack(bytes, CurrentMagic)
    ELSE IF Len(Payload(bytes)) # 3 THEN "Length"
    ELSE IF Payload(bytes)[3] # Crc(SubSeq(bytes, 1, HeaderLen + 2)) THEN "Crc" ELSE "Ok"

DecodeCurrent(bytes) ==
    [generation |-> Payload(bytes)[1].word, manifest |-> Payload(bytes)[2].word]

-------------------------------------------------------------------------------
EntryWords(entry) == <<Word(entry.id), Word(entry.first), Word(entry.count)>>

(* Manifest::encode                                                            *)
EncodeManifest(record) ==
    LET head == <<Word(record.generation), Word(record.previous), Word(record.model),
                  Word(record.total), Word(Len(record.segments))>>
        entries == [j \in 1..Len(record.segments) * EntryLen |->
            EntryWords(record.segments[((j - 1) \div EntryLen) + 1])[((j - 1) % EntryLen) + 1]]
    IN  Pack(ManifestMagic, head \o entries)

(* Manifest::decode: a Decoder stops at the end of the payload, the number of  *)
(* entries is bounded before any is read, and nothing may follow them.         *)
ManifestError(bytes) ==
    IF Unpack(bytes, ManifestMagic) # "Ok" THEN Unpack(bytes, ManifestMagic)
    ELSE LET p == Payload(bytes) IN
        IF Len(p) < HeadLen THEN "Length"
        ELSE IF p[HeadLen].word > MaxSegments THEN "SegmentCount"
        ELSE IF Len(p) # HeadLen + p[HeadLen].word * EntryLen THEN "Length" ELSE "Ok"

DecodeManifest(bytes) ==
    LET p == Payload(bytes)
        at(i, field) == p[HeadLen + (i - 1) * EntryLen + field].word
    IN  [generation |-> p[1].word, previous |-> p[2].word, model |-> p[3].word, total |-> p[4].word,
         segments |-> [i \in 1..p[HeadLen].word |->
             [id |-> at(i, 1), first |-> at(i, 2), count |-> at(i, 3)]]]

-------------------------------------------------------------------------------
NoFile == [kind |-> "none", record |-> <<>>]

ContainerInit == disk = <<>> /\ written = NoFile /\ damage = [times |-> 0, rehashed |-> FALSE]

(* commit: what it encodes was validated; encode itself only counts entries.   *)
WriteManifest(record) ==
    /\ written = NoFile /\ Valid(record, record.generation)
    /\ disk' = EncodeManifest(record)
    /\ written' = [kind |-> "manifest", record |-> record]
    /\ UNCHANGED damage

WriteCurrent(current) ==
    /\ written = NoFile
    /\ disk' = EncodeCurrent(current)
    /\ written' = [kind |-> "current", record |-> current]
    /\ UNCHANGED damage

Damaged(bytes) ==
    /\ written # NoFile /\ damage.times < MaxDamage /\ ~damage.rehashed
    /\ disk' = bytes
    /\ damage' = [damage EXCEPT !.times = @ + 1]
    /\ UNCHANGED written

(* A file that a crash or a medium cut, let grow or changed in one place. The  *)
(* magic keeps its type: it is changed by CrossRead.                           *)
Truncate == \E n \in 0..Len(disk) - 1 : Damaged(SubSeq(disk, 1, n))
Grow == \E value \in DamageValues : Damaged(Append(disk, Word(value)))
Change == \E i \in 2..Len(disk), value \in DamageValues :
              Damaged([disk EXCEPT ![i] = Word(value)])

(* Its words under the magic of the other kind.                                *)
CrossRead ==
    /\ disk # <<>>
    /\ Damaged([disk EXCEPT ![1] = Name(IF written.kind = "current" THEN ManifestMagic
                                        ELSE CurrentMagic)])

(* A trailer that fits what is there, as a writer that is not this code leaves *)
(* it, and as the tests of container.rs make it; the size fits or does not.    *)
Rehash ==
    /\ damage.times > 0 /\ ~damage.rehashed /\ Len(disk) >= HeaderLen + HashLen
    /\ \E size \in {disk[3], Word(Len(disk) - HeaderLen - HashLen)} :
           LET body == [Before(disk, HashLen) EXCEPT ![3] = size]
           IN  disk' = Append(body, Hash(body))
    /\ damage' = [damage EXCEPT !.rehashed = TRUE]
    /\ UNCHANGED written

ContainerNext(records, currents) ==
    \/ \E record \in records : WriteManifest(record)
    \/ \E current \in currents : WriteCurrent(current)
    \/ Truncate \/ Grow \/ Change \/ CrossRead \/ Rehash

-------------------------------------------------------------------------------
(* Reading back. What was written and not damaged is read as it was; a file    *)
(* that was damaged, and not given a fitting hash, is refused by both readers; *)
(* and whatever is read, its encoding is the file, word for word, so that no   *)
(* part of a file that is accepted is ignored or read twice (container.rs,     *)
(* manifest.rs).                                                               *)
ReadsExactlyTheFile ==
    LET isCurrent == CurrentError(disk) = "Ok"
        isManifest == ManifestError(disk) = "Ok"
    IN  /\ isCurrent => EncodeCurrent(DecodeCurrent(disk)) = disk
        /\ isManifest => EncodeManifest(DecodeManifest(disk)) = disk
        /\ damage.times = 0 =>
              /\ isCurrent = (written.kind = "current")
              /\ isManifest = (written.kind = "manifest")
              /\ isCurrent => DecodeCurrent(disk) = written.record
              /\ isManifest => DecodeManifest(disk) = written.record
        /\ damage.times > 0 /\ ~damage.rehashed /\ (isCurrent \/ isManifest) =>
              disk = IF isCurrent THEN EncodeCurrent(written.record)
                                  ELSE EncodeManifest(written.record)

===============================================================================
