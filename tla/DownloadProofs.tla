--------------------------- MODULE DownloadProofs ---------------------------
(***************************************************************************)
(* Proofs about Download, for every size of words, units and headers, any  *)
(* cubes and any number of requests.                                       *)
(***************************************************************************)
EXTENDS Download, TLAPS

(***************************************************************************)
(* Arithmetic.                                                             *)
(***************************************************************************)

LEMMA DivMod ==
    ASSUME NEW a \in Nat, NEW b \in Nat \ {0}
    PROVE  /\ a \div b \in Nat /\ a % b \in 0 .. b - 1
           /\ a = (a \div b) * b + (a % b)
  OBVIOUS

LEMMA DivModUnique ==
    ASSUME NEW q \in Nat, NEW b \in Nat \ {0}, NEW r \in 0 .. b - 1
    PROVE  (q * b + r) \div b = q /\ (q * b + r) % b = r
  OBVIOUS

LEMMA TimesMonotone ==
    ASSUME NEW a \in Nat, NEW b \in Nat, NEW c \in Nat, a <= b
    PROVE  a * c <= b * c /\ a * c \in Nat /\ b * c \in Nat
  OBVIOUS

LEMMA TimesStep ==
    ASSUME NEW a \in Nat, NEW b \in Nat, NEW c \in Nat, a < b
    PROVE  a * c + c <= b * c
  OBVIOUS

LEMMA TimesSplit ==
    ASSUME NEW a \in Int, NEW b \in Int, NEW c \in Int
    PROVE  (a + b) * c = a * c + b * c /\ (a - b) * c = a * c - b * c
  OBVIOUS

LEMMA TimesNext ==
    ASSUME NEW a \in Nat, NEW b \in Nat
    PROVE  (a + 1) * b = a * b + b
  OBVIOUS

LEMMA TimesPositive ==
    ASSUME NEW a \in Nat \ {0}, NEW b \in Nat \ {0}
    PROVE  a * b \in Nat \ {0} /\ a * b >= b
  OBVIOUS

(***************************************************************************)
(* The lengths of the stream.                                              *)
(***************************************************************************)

LEMMA Sizes ==
    /\ Word \in Nat \ {0} /\ Unit \in Nat \ {0} /\ Word <= Unit
    /\ WriteSize \in Nat /\ Unit <= WriteSize
    /\ HeaderUnits \in Nat \ {0} /\ Stdio \in Nat \ {0}
  BY WordAssumption, UnitAssumption, WriteAssumption, HeaderAssumption, StdioAssumption

LEMMA CubeTyped ==
    ASSUME cube \in Cubes
    PROVE  /\ cube.plane \in Nat \ {0} /\ cube.depth \in Nat \ {0}
           /\ cube.bytes \in Nat \ {0} /\ cube.float \in BOOLEAN
  BY CubesAssumption DEF Cube

LEMMA Lengths ==
    ASSUME cube \in Cubes
    PROVE  /\ Pixels \in Nat \ {0}
           /\ HeaderLength \in Nat \ {0}
           /\ StreamLength \in Nat /\ DataEnd \in Nat
           /\ HeaderLength + Unit <= StreamLength
           /\ cube.bytes >= Word => DataEnd <= StreamLength
<1> DEFINE data == Pixels * cube.bytes
           units == (data + Unit - 1) \div Unit
<1>1. Pixels \in Nat \ {0}
  BY CubeTyped, TimesPositive DEF Pixels
<1>2. data \in Nat \ {0}
  BY <1>1, CubeTyped, TimesPositive
<1>3. HeaderLength \in Nat \ {0}
  BY Sizes, TimesPositive DEF HeaderLength
<1>4. units \in Nat /\ data + Unit - 1 = units * Unit + ((data + Unit - 1) % Unit)
      /\ (data + Unit - 1) % Unit \in 0 .. Unit - 1
  <2> HIDE DEF data
  <2>1. data + Unit - 1 \in Nat
    BY <1>2, Sizes
  <2>2. QED
    BY <2>1, Sizes, DivMod
<1>5. units * Unit >= data /\ units * Unit \in Nat
  <2> HIDE DEF data, units
  <2>1. units * Unit \in Nat
    BY <1>4, Sizes, TimesMonotone
  <2>2. QED
    BY <1>2, <1>4, <2>1, Sizes
<1>6. units * Unit >= Unit
  <2> HIDE DEF data, units
  <2>1. units # 0
    BY <1>2, <1>4, Sizes
  <2>2. QED
    BY <1>4, <2>1, Sizes, TimesPositive
<1>7. StreamLength = HeaderLength + units * Unit
  BY DEF StreamLength
<1>8. Pixels * Word \in Nat
  BY <1>1, Sizes, TimesPositive
<1>9. cube.bytes >= Word => Pixels * Word <= data
  <2> HIDE DEF Pixels
  <2>1. cube.bytes >= Word => Word * Pixels <= cube.bytes * Pixels
    BY <1>1, Sizes, CubeTyped, TimesMonotone
  <2>2. QED
    BY <1>1, <2>1, Sizes, CubeTyped
<1>10. QED
  <2> HIDE DEF Pixels, HeaderLength, data, units
  <2>1. DataEnd = HeaderLength + Pixels * Word
    BY DEF DataEnd
  <2>2. StreamLength \in Nat /\ HeaderLength + Unit <= StreamLength
    BY <1>3, <1>5, <1>6, <1>7, Sizes
  <2>3. DataEnd \in Nat
    BY <1>3, <1>8, <2>1
  <2>4. ASSUME cube.bytes >= Word PROVE DataEnd <= StreamLength
    <3>1. Pixels * Word <= units * Unit
      BY <1>2, <1>5, <1>8, <1>9, <2>4
    <3>2. QED
      BY <1>3, <1>5, <1>7, <1>8, <2>1, <3>1
  <2>5. QED
    BY <1>1, <1>3, <2>2, <2>3, <2>4

(***************************************************************************)
(* The place of the next pixel.                                            *)
(***************************************************************************)

LEMMA Place ==
    ASSUME cube \in Cubes, running_size \in Nat
    PROVE  /\ Frame \in Nat /\ Start \in 0 .. cube.plane - 1
           /\ running_size = Frame * cube.plane + Start
           /\ running_size < Pixels =>
                /\ Frame \in Frames
                /\ cube.plane - Start <= Pixels - running_size
<1>1. /\ Frame \in Nat /\ Start \in 0 .. cube.plane - 1
      /\ running_size = Frame * cube.plane + Start
  BY CubeTyped, DivMod DEF Frame, Start
<1>2. ASSUME running_size < Pixels PROVE Frame < cube.depth
  <2>1. SUFFICES ASSUME cube.depth <= Frame PROVE FALSE
    BY <1>1, CubeTyped
  <2>2. cube.depth * cube.plane <= Frame * cube.plane
    BY <1>1, <2>1, CubeTyped, TimesMonotone
  <2>3. QED
    BY <1>1, <1>2, <2>2, CubeTyped DEF Pixels
<1>3. ASSUME running_size < Pixels PROVE cube.plane - Start <= Pixels - running_size
  <2>1. Frame * cube.plane + cube.plane <= cube.depth * cube.plane
    BY <1>1, <1>2, <1>3, CubeTyped, TimesStep
  <2>2. QED
    BY <1>1, <2>1, CubeTyped DEF Pixels
<1>4. QED
  BY <1>1, <1>2, <1>3, CubeTyped DEF Frames

\* What a callback takes: as much as is there, as is missing, or as the plane has left.
LEMMA WorkTaken ==
    ASSUME cube \in Cubes, running_size \in Nat, buffer_size \in Nat, NEW n \in 1 .. Unit,
           running_size < Pixels
    PROVE  /\ Work(n) \in Nat
           /\ Work(n) * Word \in Nat /\ Work(n) * Word <= buffer_size + n
           /\ running_size + Work(n) <= Pixels
           /\ cube.depth # 1 => Work(n) <= cube.plane - Start
           /\ \/ buffer_size + n - Work(n) * Word < Word
              \/ running_size + Work(n) = Pixels
              \/ cube.depth # 1 /\ Work(n) = cube.plane - Start
<1> DEFINE b == buffer_size + n
           q == b \div Word
           left == Pixels - running_size
           rest == cube.plane - Start
<1>1. b \in Nat /\ left \in Nat \ {0} /\ rest \in Nat \ {0}
  BY Sizes, Lengths, Place, CubeTyped
<1>2. q \in Nat /\ q * Word \in Nat /\ q * Word <= b /\ b - q * Word < Word
  <2> HIDE DEF b
  <2>1. q \in Nat /\ b % Word \in 0 .. Word - 1 /\ b = q * Word + (b % Word)
    BY <1>1, Sizes, DivMod
  <2>2. q * Word \in Nat
    BY <2>1, Sizes, TimesMonotone
  <2>3. QED
    BY <2>1, <2>2, Sizes, <1>1
<1>3. There(n) = Smaller(q, left)
  BY DEF There
<1>4. Work(n) = IF cube.depth = 1 THEN Smaller(q, left) ELSE Smaller(Smaller(q, left), rest)
  BY <1>3 DEF Work
<1>5. Work(n) \in Nat /\ Work(n) <= q /\ Work(n) <= left
      /\ (cube.depth # 1 => Work(n) <= rest)
      /\ (Work(n) = q \/ Work(n) = left \/ (cube.depth # 1 /\ Work(n) = rest))
  <2> HIDE DEF q, left, rest
  <2>1. QED
    BY <1>1, <1>2, <1>4 DEF Smaller
<1>6. Work(n) * Word \in Nat /\ Work(n) * Word <= q * Word
  <2> HIDE DEF q, left, rest
  <2>1. QED
    BY <1>2, <1>5, Sizes, TimesMonotone
<1>7. QED
  <2>1. Work(n) * Word <= b
    <3> HIDE DEF q, b
    <3>1. QED
      BY <1>1, <1>2, <1>6
  <2>2. Work(n) = q => b - Work(n) * Word < Word
    BY <1>2
  <2>3. Work(n) <= left => running_size + Work(n) <= Pixels
    BY <1>5, Lengths
  <2>4. Work(n) = left => running_size + Work(n) = Pixels
    BY <1>5, Lengths
  <2>5. QED
    <3> HIDE DEF q, b, left, rest
    <3>1. \/ b - Work(n) * Word < Word
          \/ running_size + Work(n) = Pixels
          \/ cube.depth # 1 /\ Work(n) = rest
      BY <1>5, <2>2, <2>4
    <3>2. Work(n) \in Nat /\ Work(n) * Word \in Nat /\ running_size + Work(n) <= Pixels
      BY <1>5, <1>6, <2>3
    <3>3. cube.depth # 1 => Work(n) <= rest
      BY <1>5
    <3> USE DEF b, rest
    <3>4. QED
      BY <2>1, <3>1, <3>2, <3>3

\* Where the next pixel goes afterwards.
LEMMA NextPlace ==
    ASSUME cube \in Cubes, running_size \in Nat, NEW w \in Nat, w <= cube.plane - Start
    PROVE  /\ (running_size + w) \div cube.plane = IF w = cube.plane - Start THEN Frame + 1 ELSE Frame
           /\ (running_size + w) % cube.plane = IF w = cube.plane - Start THEN 0 ELSE Start + w
<1> DEFINE p == cube.plane
<1>1. p \in Nat \ {0} /\ Frame \in Nat /\ Start \in 0 .. p - 1
      /\ running_size = Frame * p + Start
  BY CubeTyped, Place
<1>2. CASE w = p - Start
  <2>1. running_size + w = (Frame + 1) * p + 0
    <3> HIDE DEF p
    <3>1. (Frame + 1) * p = Frame * p + 1 * p
      BY <1>1, TimesSplit
    <3>2. QED
      BY <1>1, <1>2, <3>1
  <2>2. (Frame + 1) \in Nat /\ 0 \in 0 .. p - 1
    BY <1>1
  <2> HIDE DEF p
  <2>3. ((Frame + 1) * p + 0) \div p = Frame + 1 /\ ((Frame + 1) * p + 0) % p = 0
    BY <1>1, <2>2, DivModUnique
  <2> USE DEF p
  <2>4. QED
    BY <1>2, <2>1, <2>3
<1>3. CASE w # p - Start
  <2>1. running_size + w = Frame * p + (Start + w)
    BY <1>1, <1>3
  <2>2. Start + w \in 0 .. p - 1
    BY <1>1, <1>3
  <2> HIDE DEF p
  <2>3. (Frame * p + (Start + w)) \div p = Frame /\ (Frame * p + (Start + w)) % p = Start + w
    BY <1>1, <2>2, DivModUnique
  <2> USE DEF p
  <2>4. QED
    BY <1>3, <2>1, <2>3
<1>4. QED
  BY <1>2, <1>3

(***************************************************************************)
(* The type.                                                               *)
(***************************************************************************)

Typed == TypeOK /\ (phase \in {"transfer", "ended", "accepted"} => file["tmp"] \in Nat)

LEMMA TypedInit == Init => Typed
<1> SUFFICES ASSUME Init PROVE Typed
  OBVIOUS
<1>1. flags \in Flags
  BY DEF Init, Flags, Defaults
<1>2. file \in [{"tmp", "fits"} -> Nat \cup {NoFile}]
  BY DEF Init
<1>3. request \in [Requests -> {"idle", "waiting", "found", "missing"}]
  BY DEF Init
<1>4. saved \in Saved
  BY DEF Init, Saved, NothingSaved
<1>5. QED
  BY <1>1, <1>2, <1>3, <1>4 DEF Init, Typed, TypeOK, Phases

\* stdio writes no more than it has, and keeps at most its buffer.
LEMMA FlushedBounds ==
    ASSUME NEW b \in Nat
    PROVE  Flushed(b) \in 0 .. b /\ b - Flushed(b) \in 0 .. Stdio
<1>1. b % Stdio \in 0 .. Stdio - 1
  BY Sizes, DivMod
<1>2. CASE b <= Stdio
  BY <1>2, Sizes DEF Flushed
<1>3. CASE ~ (b <= Stdio)
  <2>1. Flushed(b) = b - (b % Stdio)
    BY <1>3 DEF Flushed
  <2>2. QED
    BY <1>1, <1>3, <2>1, Sizes
<1>4. QED
  BY <1>2, <1>3

\* Write adds to the file what stdio writes; without a fault all bytes are in the file
\* or in its buffer.
LEMMA WriteEffect ==
    ASSUME Typed, NEW n \in Nat, phase = "transfer", Write(n)
    PROVE  /\ file' \in [{"tmp", "fits"} -> Nat \cup {NoFile}]
           /\ file'["tmp"] \in Nat /\ file'["tmp"] >= file["tmp"]
           /\ file'["fits"] = file["fits"]
           /\ unflushed' \in Nat
           /\ \/ /\ phase' = "transfer" /\ unflushed' <= Stdio
                 /\ file'["tmp"] + unflushed' = file["tmp"] + unflushed + n
              \/ phase' = "ended" /\ DiskShort /\ unflushed' = 0
<1> USE DEF Typed, TypeOK
<1> DEFINE b == unflushed + n
<1>1. b \in Nat /\ Flushed(b) \in 0 .. b /\ b - Flushed(b) \in 0 .. Stdio
  <2>1. b \in Nat
    OBVIOUS
  <2> HIDE DEF b
  <2>2. QED
    BY <2>1, FlushedBounds
<1>2. CASE Flush(n)
  <2>1. /\ file' = [file EXCEPT !["tmp"] = file["tmp"] + Flushed(b)]
        /\ unflushed' = b - Flushed(b) /\ phase' = "transfer"
    <3>1. phase' = phase
      BY <1>2 DEF Flush
    <3>2. file' = [file EXCEPT !["tmp"] = @ + Flushed(b)]
      BY <1>2 DEF Flush
    <3>3. unflushed' = b - Flushed(b)
      BY <1>1, <1>2 DEF Flush
    <3>4. QED
      BY <3>1, <3>2, <3>3
  <2>2. file["tmp"] + Flushed(b) \in Nat /\ file["tmp"] \in Nat
    BY <1>1
  <2>3. file'["tmp"] = file["tmp"] + Flushed(b) /\ file'["fits"] = file["fits"]
    BY <2>1
  <2>4. file' \in [{"tmp", "fits"} -> Nat \cup {NoFile}]
    BY <2>1, <2>2
  <2>5. /\ file'["tmp"] \in Nat /\ file'["tmp"] >= file["tmp"]
        /\ unflushed' \in Nat /\ unflushed' <= Stdio
        /\ file'["tmp"] + unflushed' = file["tmp"] + unflushed + n
    BY <1>1, <2>1, <2>2, <2>3, Sizes
  <2>6. QED
    BY <2>1, <2>3, <2>4, <2>5
<1>3. CASE FlushShort(n) /\ phase' = "ended"
  <2>1. PICK m \in 0 .. Flushed(b) - 1 : file' = [file EXCEPT !["tmp"] = @ + m]
    BY <1>3 DEF FlushShort
  <2>2. m \in Nat
    BY <1>1
  <2>3. file["tmp"] + m \in Nat /\ file["tmp"] + m >= file["tmp"]
    BY <2>2
  <2>4. QED
    BY <1>3, <2>1, <2>3 DEF FlushShort
<1>4. QED
  BY <1>2, <1>3 DEF Write

\* What a compression leaves are frames and blocks.
LEMMA BlockTyped ==
    ASSUME NEW f \in Nat, NEW k \in BlockAfter(f)
    PROVE  k \in Nat
  BY DEF BlockAfter

LEMMA StoreTyped ==
    ASSUME Typed, NEW n \in 1 .. Unit, StorePlane(n)
    PROVE  /\ bSuccess' \in BOOLEAN /\ starved' \in BOOLEAN
           /\ fits_cube' \in SUBSET Nat /\ compressed' \in SUBSET Nat
<1> USE DEF Typed, TypeOK
<1>1. Frame \in Nat
  BY Place
<1>2. PICK raw \in {fits_cube \cup {Frame}} \cup (IF MemoryShort THEN {fits_cube} ELSE {}) :
        /\ bSuccess' = (bSuccess /\ Frame \in raw)
        /\ IF FrameEnds(n) /\ BlockAfter(Frame) # {}
           THEN \E k \in BlockAfter(Frame) : Compress(k, raw)
           ELSE KeepRaw(raw)
  BY DEF StorePlane
<1>3. raw \in SUBSET Nat
  BY <1>1, <1>2
<1>4. bSuccess' \in BOOLEAN
  BY <1>2
<1>5. CASE KeepRaw(raw)
  BY <1>3, <1>4, <1>5 DEF KeepRaw
<1>6. ASSUME NEW k \in BlockAfter(Frame), Compress(k, raw)
      PROVE  /\ starved' \in BOOLEAN
             /\ fits_cube' \in SUBSET Nat /\ compressed' \in SUBSET Nat
  <2>1. k \in Nat
    BY <1>1, <1>6, BlockTyped
  <2>2. QED
    BY <1>3, <1>6, <2>1 DEF Compress, KeepRaw
<1>7. QED
  BY <1>2, <1>4, <1>5, <1>6

LEMMA ReceiveTyped ==
    ASSUME Typed, NEW n \in 1 .. Unit, Receive(n)
    PROVE  Typed'
<1> USE DEF Typed, TypeOK
<1>0. n \in Nat /\ Unit \in Nat
  BY Sizes
<1>1. CASE ReceiveHeader(n)
  <2>1. /\ TakeUnit(n) \in Nat /\ TakeUnit(n) <= buffer_size + n
    BY <1>0 DEF TakeUnit
  <2>2. /\ size' \in Nat /\ hdr_len' \in Nat /\ buffer_size' \in Nat
        /\ hdr_end' \in BOOLEAN
    BY <1>0, <1>1, <2>1 DEF ReceiveHeader
  <2>3. flags' \in Flags
    <3>1. HeaderFlags \in Flags
      BY DEF HeaderFlags, Flags
    <3>2. QED
      BY <1>1, <3>1 DEF ReceiveHeader
  <2>4. /\ phase' \in Phases
        /\ file' \in [{"tmp", "fits"} -> Nat \cup {NoFile}]
        /\ file'["tmp"] \in Nat /\ unflushed' \in Nat
    BY <1>0, <1>1, WriteEffect DEF ReceiveHeader, Phases
  <2>5. UNCHANGED <<cube, running_size, bSuccess, fits_cube, compressed, starved,
                    saved, cached, request>>
    BY <1>1 DEF ReceiveHeader, cache
  <2>6. QED
    BY <2>2, <2>3, <2>4, <2>5
<1>2. CASE ReceiveData(n)
  <2>1. /\ Work(n) \in Nat
        /\ Work(n) * Word \in Nat /\ Work(n) * Word <= buffer_size + n
    BY <1>2, WorkTaken DEF ReceiveData
  <2>2. size' \in Nat /\ running_size' \in Nat /\ buffer_size' \in Nat
    BY <1>0, <1>2, <2>1 DEF ReceiveData
  <2>3. /\ phase' \in Phases
        /\ file' \in [{"tmp", "fits"} -> Nat \cup {NoFile}]
        /\ file'["tmp"] \in Nat /\ unflushed' \in Nat
    BY <1>0, <1>2, WriteEffect DEF ReceiveData, Phases
  <2>4. /\ bSuccess' \in BOOLEAN /\ starved' \in BOOLEAN
        /\ fits_cube' \in SUBSET Nat /\ compressed' \in SUBSET Nat
    BY <1>2, StoreTyped DEF ReceiveData
  <2>5. UNCHANGED <<cube, hdr_end, hdr_len, saved, cached, flags, request>>
    BY <1>2 DEF ReceiveData, cache
  <2>6. QED
    BY <2>2, <2>3, <2>4, <2>5
<1>3. CASE ReceivePadding(n)
  <2>1. /\ phase' \in Phases
        /\ file' \in [{"tmp", "fits"} -> Nat \cup {NoFile}]
        /\ file'["tmp"] \in Nat /\ unflushed' \in Nat
    BY <1>0, <1>3, WriteEffect DEF ReceivePadding, Phases
  <2>2. size' \in Nat
    BY <1>0, <1>3 DEF ReceivePadding
  <2>3. QED
    BY <1>3, <2>1, <2>2 DEF ReceivePadding, cache
<1>4. QED
  BY <1>1, <1>2, <1>3 DEF Receive

LEMMA TypedStep == Typed /\ [Next]_vars => Typed'
<1> SUFFICES ASSUME Typed, [Next]_vars PROVE Typed'
  OBVIOUS
<1> USE DEF Typed, TypeOK, download, cache
<1>1. CASE Create
  BY <1>1 DEF Create, Phases
<1>2. CASE Deserialise
  <2>1. CASE NothingToRestore
    BY <2>1 DEF NothingToRestore, Phases
  <2>2. CASE ReadFields
    <3>1. flags' \in Flags
      BY <2>2 DEF ReadFields, Flags, Saved
    <3>2. QED
      BY <2>2, <3>1 DEF ReadFields, Phases
  <2>3. ASSUME NEW everything \in BOOLEAN, Restore(everything), phase' \in {"opened", "restored"}
        PROVE  Typed'
    <3>1. flags' \in Flags
      BY <2>3 DEF Restore, Flags, Saved
    <3>2. QED
      BY <2>3, <3>1 DEF Restore, Phases
  <2>4. CASE RestoreAll
    BY <2>3, <2>4 DEF RestoreAll
  <2>5. CASE RestorePart
    BY <2>3, <2>5 DEF RestorePart
  <2>6. QED
    BY <1>2, <2>1, <2>2, <2>4, <2>5, Zenon DEF Deserialise
<1>3. CASE Begin
  <2>1. /\ file' \in [{"tmp", "fits"} -> Nat \cup {NoFile}]
        /\ phase' = "transfer" => file'["tmp"] \in Nat
        /\ phase' \in {"transfer", "judged"}
    BY <1>3 DEF Begin
  <2>2. starved' \in BOOLEAN
    BY <1>3, Zenon DEF Begin
  <2>3. UNCHANGED <<cube, size, buffer_size, hdr_end, hdr_len, running_size, bSuccess,
                    fits_cube, compressed, unflushed, saved, cached, flags, request>>
    BY <1>3, Zenon DEF Begin
  <2>4. QED
    BY <2>1, <2>2, <2>3 DEF Phases
<1>4. CASE TransferEnds
  BY <1>4 DEF TransferEnds, Phases
<1>5. CASE Accept
  <2>0. (IF DiskShort THEN 0 .. unflushed ELSE {unflushed}) \subseteq 0 .. unflushed
    OBVIOUS
  <2>1. PICK m \in 0 .. unflushed : file' = [file EXCEPT !["tmp"] = @ + m]
    BY <1>5, <2>0, Zenon DEF Accept
  <2>2. file["tmp"] + m \in Nat
    BY <1>5 DEF Accept
  <2>3. file' \in [{"tmp", "fits"} -> Nat \cup {NoFile}] /\ file'["tmp"] \in Nat
    BY <2>1, <2>2
  <2>4. flags' \in Flags
    BY <1>5 DEF Accept, Flags
  <2>5. QED
    BY <1>5, <2>3, <2>4 DEF Accept, Phases
<1>6. CASE Reject
  <2>1. flags' \in Flags
    BY <1>6 DEF Reject, Flags
  <2>2. file' \in [{"tmp", "fits"} -> Nat \cup {NoFile}]
    BY <1>6 DEF Reject, NoFile
  <2>3. QED
    BY <1>6, <2>1, <2>2 DEF Reject, Phases
<1>7. CASE Rename
  <2>1. file' \in [{"tmp", "fits"} -> Nat \cup {NoFile}]
    BY <1>7 DEF Rename, NoFile
  <2>2. QED
    BY <1>7, <2>1 DEF Rename, Phases
<1>8. CASE Return
  BY <1>8 DEF Return, Announce, Flags, Phases
<1>9. CASE Crash \/ Stop
  <2>1. /\ Vanish /\ UNCHANGED <<cube, file>>
        /\ saved' \in Saved /\ cached' \in SUBSET Nat
    <3>1. CASE Crash
      BY <3>1 DEF Crash
    <3>2. CASE Stop
      <4>1. Savable \in SUBSET Nat
        BY DEF Savable
      <4>2. cached' \in SUBSET Nat
        <5>1. PICK kept \in (IF DiskShort THEN SUBSET Savable ELSE {Savable}) :
                cached' = cached \cup kept
          BY <3>2 DEF Stop
        <5>2. kept \in SUBSET Nat
          BY <4>1, <5>1
        <5>3. QED
          BY <5>1, <5>2
      <4>3. saved' \in Saved
        <5>1. PICK image \in SavedImage :
                saved' = IF saved.json \/ hdr_len = 0 THEN [saved EXCEPT !.image = image]
                         ELSE [json |-> TRUE, whole |-> hdr_end, data |-> flags.has_data,
                               error |-> flags.has_error, image |-> image]
          BY <3>2 DEF Stop
        <5>2. image \in BOOLEAN
          BY <5>1 DEF SavedImage, Saved
        <5>3. QED
          BY <5>1, <5>2 DEF Saved, Flags
      <4>4. QED
        BY <3>2, <4>2, <4>3 DEF Stop
    <3>3. QED
      BY <1>9, <3>1, <3>2
  <2>2. QED
    BY <2>1 DEF Vanish, Defaults, Flags, Phases
<1>10. ASSUME NEW n \in 1 .. Unit, Receive(n) PROVE Typed'
  BY <1>10, ReceiveTyped
<1>11. ASSUME NEW r \in Requests, Ask(r) \/ Answer(r) PROVE Typed'
  BY <1>11 DEF Ask, Answer
<1>12. CASE UNCHANGED vars
  BY <1>12 DEF vars
<1>13. QED
  BY <1>1, <1>2, <1>3, <1>4, <1>5, <1>6, <1>7, <1>8, <1>9, <1>10, <1>11, <1>12
     DEF Next, Judge

\* The state has its type; in particular a callback never takes more from the buffer
\* than is there.
THEOREM TypeCorrect == Spec => []TypeOK
<1>1. Typed => TypeOK
  BY DEF Typed
<1>2. QED
  BY <1>1, TypedInit, TypedStep, PTL DEF Spec

(***************************************************************************)
(* The stream.  Every byte received is accounted for: it belongs to the    *)
(* header, to a pixel, or to the rest in the buffer.                       *)
(***************************************************************************)

Reset ==
    /\ size = 0 /\ buffer_size = 0 /\ hdr_len = 0 /\ running_size = 0
    /\ hdr_end = FALSE /\ starved = FALSE
    /\ fits_cube = {} /\ compressed = {}
    /\ unflushed = 0

\* Whatever was restored, the stream starts from nothing.
FreshInv ==
    /\ phase \in {"down", "created", "read", "opened", "restored"} => Reset
    /\ phase \in {"down", "created"} => flags = Defaults

HeaderInv ==
    /\ \E k \in 0 .. HeaderUnits : hdr_len = k * Unit /\ (hdr_end <=> k = HeaderUnits)
    /\ ~ hdr_end => running_size = 0 /\ buffer_size < Unit /\ size = hdr_len + buffer_size

DataInv ==
    /\ running_size <= Pixels
    /\ hdr_end /\ running_size < Pixels =>
            size = HeaderLength + running_size * Word + buffer_size
    /\ running_size = Pixels => size >= DataEnd
    /\ size <= StreamLength

StreamInv == FreshInv /\ HeaderInv /\ DataInv

LEMMA ResetStream ==
    ASSUME cube \in Cubes, Reset
    PROVE  HeaderInv /\ DataInv
<1>1. 0 \in 0 .. HeaderUnits /\ 0 = 0 * Unit /\ 0 # HeaderUnits
  BY Sizes
<1>2. Pixels \in Nat \ {0} /\ StreamLength \in Nat
  BY Lengths
<1>3. /\ size = 0 /\ buffer_size = 0 /\ hdr_len = 0 /\ running_size = 0
      /\ hdr_end = FALSE
  BY DEF Reset
<1>4. HeaderInv
  BY <1>1, <1>3, Sizes DEF HeaderInv
<1>5. DataInv
  BY <1>2, <1>3 DEF DataInv
<1>6. QED
  BY <1>4, <1>5

LEMMA StreamInit == Init => StreamInv
<1> SUFFICES ASSUME Init PROVE StreamInv
  OBVIOUS
<1>1. cube \in Cubes /\ Reset /\ flags = Defaults
  BY DEF Init, Reset
<1>2. QED
  BY <1>1, ResetStream DEF StreamInv, FreshInv

\* A unit of the header.
LEMMA HeaderStream ==
    ASSUME Typed, StreamInv, NEW n \in 1 .. Unit, ReceiveHeader(n)
    PROVE  HeaderInv' /\ DataInv'
<1> USE DEF Typed, TypeOK
<1> DEFINE t == TakeUnit(n)
<1>1. /\ ~ hdr_end /\ running_size = 0 /\ buffer_size < Unit /\ size = hdr_len + buffer_size
      /\ size' = size + n /\ size' <= StreamLength
      /\ hdr_len' = hdr_len + t /\ buffer_size' = buffer_size + n - t
      /\ hdr_end' = (hdr_len' = HeaderLength)
      /\ UNCHANGED <<cube, running_size>>
  BY DEF ReceiveHeader, StreamInv, HeaderInv
<1>2. \/ t = 0 /\ buffer_size + n < Unit
      \/ t = Unit /\ buffer_size + n >= Unit
  BY <1>1, Sizes DEF TakeUnit
<1>3. PICK k \in 0 .. HeaderUnits - 1 : hdr_len = k * Unit
  BY <1>1, Sizes DEF StreamInv, HeaderInv
<1>4. \E j \in 0 .. HeaderUnits : hdr_len' = j * Unit /\ (hdr_end' <=> j = HeaderUnits)
  <2>1. ASSUME NEW j \in 0 .. HeaderUnits, hdr_len' = j * Unit
        PROVE  hdr_end' <=> j = HeaderUnits
    <3>1. j < HeaderUnits => j * Unit + Unit <= HeaderUnits * Unit
      BY Sizes, TimesStep
    <3>2. j * Unit \in Nat /\ HeaderUnits * Unit \in Nat
      BY Sizes, TimesMonotone
    <3>3. HeaderLength = HeaderUnits * Unit
      BY DEF HeaderLength
    <3>4. j # HeaderUnits => j * Unit # HeaderUnits * Unit
      BY <3>1, <3>2, Sizes
    <3>5. QED
      BY <1>1, <2>1, <3>3, <3>4
  <2>2. CASE t = 0
    <3>1. k \in 0 .. HeaderUnits /\ hdr_len' = k * Unit
      BY <1>1, <1>3, <2>2, Sizes
    <3>2. QED
      BY <2>1, <3>1
  <2>3. CASE t = Unit
    <3>1. k + 1 \in 0 .. HeaderUnits
      BY Sizes
    <3>2. (k + 1) * Unit = k * Unit + 1 * Unit
      BY Sizes, TimesSplit
    <3>3. hdr_len' = (k + 1) * Unit
      BY <1>1, <1>3, <2>3, <3>2, Sizes
    <3>4. QED
      BY <2>1, <3>1, <3>3
  <2>4. QED
    BY <1>2, <2>2, <2>3
<1>5. /\ size' = hdr_len' + buffer_size' /\ buffer_size' < Unit
  <2> HIDE DEF t
  <2>1. QED
    BY <1>1, <1>2, Sizes
<1>6. HeaderInv'
  BY <1>1, <1>4, <1>5 DEF HeaderInv
<1>7. DataInv'
  <2>1. Pixels' = Pixels /\ StreamLength' = StreamLength /\ Pixels > 0
    BY <1>1, Lengths DEF Pixels, StreamLength
  <2>2. running_size' = 0 /\ 0 * Word = 0
    BY <1>1, Sizes
  <2>3. hdr_end' => size' = HeaderLength + 0 * Word + buffer_size'
    BY <1>1, <1>5, <2>2, Lengths
  <2> HIDE DEF t
  <2>4. HeaderLength' = HeaderLength /\ Pixels \in Nat \ {0}
    BY Lengths DEF HeaderLength
  <2>5. QED
    BY <1>1, <2>1, <2>2, <2>3, <2>4 DEF DataInv
<1>8. QED
  BY <1>6, <1>7

\* Pixels.
LEMMA DataStream ==
    ASSUME Typed, StreamInv, NEW n \in 1 .. Unit, ReceiveData(n)
    PROVE  HeaderInv' /\ DataInv'
<1> USE DEF Typed, TypeOK
<1> DEFINE w == Work(n)
<1>1. /\ hdr_end /\ running_size < Pixels
      /\ size' = size + n /\ size' <= StreamLength
      /\ running_size' = running_size + w /\ buffer_size' = buffer_size + n - w * Word
      /\ UNCHANGED <<cube, hdr_end, hdr_len>>
  BY DEF ReceiveData
<1>2. /\ w \in Nat /\ w * Word \in Nat /\ w * Word <= buffer_size + n
      /\ running_size + w <= Pixels
  BY <1>1, WorkTaken
<1>3. HeaderInv'
  BY <1>1 DEF StreamInv, HeaderInv
<1>4. size = HeaderLength + running_size * Word + buffer_size
  BY <1>1 DEF StreamInv, DataInv
<1>5. /\ running_size' * Word = running_size * Word + w * Word
      /\ running_size * Word \in Nat
  <2> HIDE DEF w
  <2>1. QED
    BY <1>1, <1>2, Sizes, TimesSplit, TimesMonotone
<1>6. size' = HeaderLength + running_size' * Word + buffer_size'
  <2> HIDE DEF w, HeaderLength
  <2>1. HeaderLength \in Nat
    BY Lengths
  <2>2. QED
    BY <1>1, <1>2, <1>4, <1>5, <2>1
<1>7. DataInv'
  <2>1. /\ Pixels' = Pixels /\ StreamLength' = StreamLength /\ DataEnd' = DataEnd
        /\ HeaderLength' = HeaderLength
    BY <1>1 DEF Pixels, StreamLength, DataEnd, HeaderLength
  <2>2. buffer_size' >= 0 /\ running_size' * Word \in Nat /\ HeaderLength \in Nat
    <3> HIDE DEF w
    <3>1. QED
      BY <1>1, <1>2, <1>5, Lengths
  <2>3. running_size' = Pixels => size' >= DataEnd
    <3> HIDE DEF HeaderLength, Pixels, w
    <3>1. DataEnd = HeaderLength + Pixels * Word
      BY DEF DataEnd
    <3>2. buffer_size' \in Nat
      BY <1>1, <1>2, Sizes
    <3>3. QED
      BY <1>6, <2>2, <3>1, <3>2
  <2>4. running_size' <= Pixels
    BY <1>1, <1>2
  <2>5. QED
    BY <1>1, <1>6, <2>1, <2>3, <2>4 DEF DataInv
<1>8. QED
  BY <1>3, <1>7

LEMMA StreamStep ==
    ASSUME Typed, StreamInv, [Next]_vars
    PROVE  StreamInv'
<1> USE DEF Typed, TypeOK, download
<1> DEFINE Same == UNCHANGED <<cube, size, buffer_size, hdr_end, hdr_len, running_size>>
<1>1. ASSUME Same PROVE HeaderInv' /\ DataInv'
  BY <1>1 DEF StreamInv, HeaderInv, DataInv, Pixels, StreamLength, DataEnd, HeaderLength
<1>2. CASE Create \/ Deserialise
  <2>1. /\ Same /\ (Reset => Reset') /\ phase \in {"down", "created", "read"}
        /\ phase' \in {"down", "created"} => flags' = flags /\ phase = "down"
    BY <1>2 DEF Create, Deserialise, NothingToRestore, ReadFields, RestoreAll, RestorePart,
                Restore, Reset
  <2>2. FreshInv'
    BY <2>1 DEF StreamInv, FreshInv, Defaults
  <2>3. QED
    BY <1>1, <2>1, <2>2 DEF StreamInv
<1>3. CASE Begin \/ TransferEnds \/ Accept \/ Reject \/ Rename \/ Return
  <2>1. Same /\ phase' \notin {"down", "created", "read", "opened", "restored"}
    BY <1>3 DEF Begin, TransferEnds, Accept, Reject, Rename, Return
  <2>2. QED
    BY <1>1, <2>1 DEF StreamInv, FreshInv
<1>4. CASE Crash \/ Stop
  <2>1. cube' = cube /\ Reset' /\ flags' = Defaults
    BY <1>4 DEF Crash, Stop, Vanish, Reset
  <2>2. HeaderInv' /\ DataInv'
    <3>1. Pixels \in Nat \ {0} /\ StreamLength \in Nat
      BY Lengths
    <3>2. Pixels' = Pixels /\ StreamLength' = StreamLength
      BY <2>1 DEF Pixels, StreamLength
    <3>3. 0 \in 0 .. HeaderUnits /\ 0 = 0 * Unit /\ 0 # HeaderUnits
      BY Sizes
    <3>4. /\ size' = 0 /\ buffer_size' = 0 /\ hdr_len' = 0 /\ running_size' = 0
          /\ hdr_end' = FALSE
      BY <2>1 DEF Reset
    <3>5. HeaderInv'
      BY <3>3, <3>4, Sizes DEF HeaderInv
    <3>6. DataInv'
      BY <3>1, <3>2, <3>4 DEF DataInv
    <3>7. QED
      BY <3>5, <3>6
  <2>3. QED
    BY <2>1, <2>2 DEF StreamInv, FreshInv, Defaults
<1>5. ASSUME NEW n \in 1 .. Unit, Receive(n) PROVE StreamInv'
  <2>1. phase' \in {"transfer", "ended"}
    BY <1>5 DEF Receive, ReceiveHeader, ReceiveData, ReceivePadding, Write, Flush
  <2>2. CASE ReceiveHeader(n)
    BY <2>1, <2>2, HeaderStream DEF StreamInv, FreshInv
  <2>3. CASE ReceiveData(n)
    BY <2>1, <2>3, DataStream DEF StreamInv, FreshInv
  <2>4. CASE ReceivePadding(n)
    <3>1. /\ hdr_end /\ running_size >= Pixels
          /\ size' = size + n /\ size' <= StreamLength /\ n \in Nat
          /\ UNCHANGED <<cube, buffer_size, hdr_end, hdr_len, running_size>>
      BY <2>4, Sizes DEF ReceivePadding
    <3>2. HeaderInv'
      BY <3>1 DEF StreamInv, HeaderInv
    <3>3. DataEnd \in Nat /\ Pixels \in Nat
      BY Lengths
    <3>4. DataInv'
      <4>1. /\ Pixels' = Pixels /\ StreamLength' = StreamLength /\ DataEnd' = DataEnd
        BY <3>1 DEF Pixels, StreamLength, DataEnd, HeaderLength
      <4>2. running_size <= Pixels /\ (running_size = Pixels => size >= DataEnd)
        BY DEF StreamInv, DataInv
      <4> HIDE DEF Same
      <4>3. QED
        BY <3>1, <3>3, <4>1, <4>2 DEF DataInv
    <3>5. QED
      BY <2>1, <3>2, <3>4 DEF StreamInv, FreshInv
  <2>5. QED
    BY <1>5, <2>2, <2>3, <2>4 DEF Receive
<1>6. ASSUME NEW r \in Requests, Ask(r) \/ Answer(r) PROVE StreamInv'
  <2>1. Same /\ UNCHANGED <<phase, flags>> /\ (Reset => Reset')
    BY <1>6 DEF Ask, Answer, Reset
  <2>2. QED
    BY <1>1, <2>1 DEF StreamInv, FreshInv, Defaults
<1>7. CASE UNCHANGED vars
  <2>1. Same /\ UNCHANGED <<phase, flags>> /\ (Reset => Reset')
    BY <1>7 DEF vars, Reset
  <2>2. QED
    BY <1>1, <2>1 DEF StreamInv, FreshInv, Defaults
<1>8. QED
  BY <1>2, <1>3, <1>4, <1>5, <1>6, <1>7 DEF Next, Judge

(***************************************************************************)
(* The buffer.  When a plane holds a chunk, a callback leaves less than a  *)
(* unit behind, and less than a pixel unless it stopped at the end of the  *)
(* header or of a plane.                                                   *)
(***************************************************************************)

Midway == IF cube.depth = 1 THEN running_size > 0 ELSE Start > 0

BufferInv ==
    PlanesHoldChunk /\ hdr_end /\ running_size < Pixels =>
        /\ buffer_size < Unit
        /\ Midway => buffer_size < Word

LEMMA BufferData ==
    ASSUME Typed, BufferInv, NEW n \in 1 .. Unit, ReceiveData(n)
    PROVE  BufferInv'
<1> USE DEF Typed, TypeOK
<1> DEFINE w == Work(n)
           rest == cube.plane - Start
<1>1. /\ hdr_end /\ running_size < Pixels
      /\ running_size' = running_size + w /\ buffer_size' = buffer_size + n - w * Word
      /\ cube' = cube
  BY DEF ReceiveData
<1>2. /\ w \in Nat /\ w * Word \in Nat
      /\ cube.depth # 1 => w <= rest
      /\ \/ buffer_size' < Word
         \/ running_size' = Pixels
         \/ cube.depth # 1 /\ w = rest
  BY <1>1, WorkTaken
<1>3. SUFFICES ASSUME PlanesHoldChunk, running_size' < Pixels
               PROVE  buffer_size' < Unit /\ (Midway' => buffer_size' < Word)
  BY <1>1 DEF BufferInv, PlanesHoldChunk, Pixels
<1>4. buffer_size < Unit /\ (Midway => buffer_size < Word)
  BY <1>1, <1>3 DEF BufferInv
<1>5. CASE buffer_size' < Word
  <2> HIDE DEF w
  <2>1. buffer_size' \in Int
    BY <1>1, <1>2, Sizes
  <2>2. QED
    BY <1>5, <2>1, Sizes
<1>6. CASE cube.depth # 1 /\ w = rest
  <2>1. ~ Midway'
    <3>1. Start' = 0
      BY <1>1, <1>2, <1>6, NextPlace DEF Start
    <3>2. QED
      BY <1>1, <1>6, <3>1 DEF Midway
  <2>2. Start \in 0 .. cube.plane - 1 /\ cube.plane \in Nat \ {0}
    BY Place, CubeTyped
  <2>3. CASE Start = 0
    <3>1. cube.plane * Word >= Unit /\ w = cube.plane
      BY <1>3, <1>6, <2>2, <2>3 DEF PlanesHoldChunk
    <3> HIDE DEF w
    <3>2. buffer_size' < Unit
      BY <1>1, <1>2, <1>4, <3>1, Sizes
    <3>3. QED
      BY <2>1, <3>2
  <2>4. CASE Start # 0
    <3>1. Midway
      BY <1>6, <2>2, <2>4 DEF Midway
    <3>2. w \in Nat \ {0}
      BY <1>6, <2>2
    <3> HIDE DEF w
    <3>3. w * Word >= Word
      BY <3>2, Sizes, TimesPositive
    <3>4. buffer_size' < Unit
      BY <1>1, <1>2, <1>4, <3>1, <3>3, Sizes
    <3>5. QED
      BY <2>1, <3>4
  <2>5. QED
    BY <2>3, <2>4
<1>7. QED
  <2>1. Pixels \in Nat
    BY Lengths
  <2>2. running_size' # Pixels
    BY <1>1, <1>2, <1>3, <2>1
  <2>3. QED
    BY <1>2, <1>5, <1>6, <2>2

LEMMA BufferStep ==
    ASSUME Typed, StreamInv, BufferInv, [Next]_vars
    PROVE  BufferInv'
<1> USE DEF Typed, TypeOK, download
<1>1. ASSUME NEW n \in 1 .. Unit, ReceiveHeader(n) PROVE BufferInv'
  <2>1. HeaderInv' /\ buffer_size < Unit /\ running_size = 0 /\ cube' = cube
    BY <1>1, HeaderStream DEF StreamInv, HeaderInv, ReceiveHeader
  <2>2. buffer_size' < Unit
    BY <1>1, <2>1, Sizes DEF ReceiveHeader, TakeUnit
  <2>3. running_size' = 0
    BY <1>1, <2>1 DEF ReceiveHeader
  <2>4. ~ Midway'
    <3>1. cube.plane \in Nat \ {0}
      BY CubeTyped
    <3>2. 0 % cube.plane = 0
      <4>1. 0 = 0 * cube.plane + 0 /\ 0 \in 0 .. cube.plane - 1
        BY <3>1
      <4>2. QED
        BY <3>1, <4>1, DivModUnique
    <3>3. QED
      BY <2>1, <2>3, <3>2 DEF Midway, Start
  <2>5. QED
    BY <2>2, <2>4 DEF BufferInv
<1>2. ASSUME NEW n \in 1 .. Unit, ReceiveData(n) PROVE BufferInv'
  BY <1>2, BufferData
<1>3. ASSUME NEW n \in 1 .. Unit, ReceivePadding(n) PROVE BufferInv'
  <2>1. UNCHANGED <<cube, running_size>> /\ running_size >= Pixels /\ Pixels \in Nat
    BY <1>3, Lengths DEF ReceivePadding
  <2>2. Pixels' = Pixels
    BY <2>1 DEF Pixels
  <2>3. ~ (running_size' < Pixels')
    BY <2>1, <2>2
  <2>4. QED
    BY <2>3 DEF BufferInv
<1>4. CASE Crash \/ Stop
  BY <1>4 DEF Crash, Stop, Vanish, BufferInv
<1>5. CASE UNCHANGED <<cube, buffer_size, hdr_end, running_size>>
  BY <1>5 DEF BufferInv, PlanesHoldChunk, Pixels, Midway, Start
<1>6. QED
  <2>1. CASE \/ Create \/ Deserialise \/ Begin \/ TransferEnds \/ Judge \/ Rename \/ Return
             \/ (\E r \in Requests : Ask(r) \/ Answer(r))
             \/ UNCHANGED vars
    <3>1. CASE Deserialise
      BY <1>5, <3>1 DEF Deserialise, NothingToRestore, ReadFields, RestoreAll, RestorePart,
                        Restore
    <3>2. CASE ~ Deserialise
      BY <1>5, <2>1, <3>2 DEF Create, Begin, TransferEnds, Judge, Accept, Reject, Rename,
                              Return, Ask, Answer, vars
    <3>3. QED
      BY <3>1, <3>2
  <2>2. QED
    BY <1>1, <1>2, <1>3, <1>4, <2>1 DEF Next, Receive

LEMMA BufferInit == Init => BufferInv
  BY DEF Init, BufferInv

\* The largest chunk fits whenever the buffer is appended to.
THEOREM BufferFitsHolds == Spec => []BufferFits
<1> DEFINE Inv == Typed /\ StreamInv /\ BufferInv
<1>1. Init => Inv
  BY TypedInit, StreamInit, BufferInit
<1>2. Inv /\ [Next]_vars => Inv'
  BY TypedStep, StreamStep, BufferStep
<1>3. Inv => BufferFits
  <2> SUFFICES ASSUME Inv, PlanesHoldChunk, hdr_end => running_size < Pixels
               PROVE  buffer_size + Unit <= Capacity
    BY DEF BufferFits
  <2>1. buffer_size < Unit
    BY DEF StreamInv, HeaderInv, BufferInv, Typed, TypeOK
  <2>2. QED
    BY <2>1, Sizes DEF Capacity, Typed, TypeOK
<1>4. QED
  BY <1>1, <1>2, <1>3, PTL DEF Spec

(***************************************************************************)
(* The verdict, the files and the answers.                                 *)
(***************************************************************************)

\* A complete file has its name.
Stored == file["fits"] # NoFile /\ file["fits"] >= DataEnd - Lost

\* What others see as data is data that was accepted, or what an earlier run announced.
FlagsInv ==
    /\ phase = "read" /\ flags.has_data => saved.data
    /\ phase \in {"read", "opened"} => ~ flags.processed_data
    /\ phase \in {"opened", "transfer", "ended"} /\ flags.has_data => Stale
    /\ phase = "accepted" => flags.has_data /\ Accepted
    /\ phase \in {"judged", "done"} /\ flags.has_data =>
            Accepted \/ (size = 0 /\ Stale /\ starved)
    /\ phase \in {"judged", "done"} /\ Accepted => flags.has_data
    /\ phase = "restored" /\ flags.has_data => saved.data /\ Mapped
    /\ flags.has_error => saved.error \/ (phase \in {"judged", "done"} /\ ~ flags.has_data)

\* Every byte that arrived is in the file or in its buffer, but for what a full disk
\* took: at most a buffer and a chunk.
FileInv ==
    /\ phase = "transfer" => file["tmp"] + unflushed = size /\ unflushed <= Stdio
    /\ phase = "ended" =>
            \/ file["tmp"] + unflushed = size /\ unflushed <= Stdio
            \/ DiskShort /\ unflushed = 0 /\ file["tmp"] >= size - Lost
    /\ phase = "accepted" => file["tmp"] >= size - Lost
    /\ phase \in {"judged", "done"} /\ flags.has_data => Stored
    /\ FitsFileComplete

SavedInv ==
    /\ saved.data => saved.json /\ saved.whole /\ Stored
    /\ saved.error => saved.json

JudgeInv == FlagsInv /\ FileInv /\ SavedInv /\ AnswersAreFinal

LEMMA LostTyped == Lost \in Nat
  BY Sizes DEF Lost

LEMMA JudgeInit == Init => JudgeInv
<1> SUFFICES ASSUME Init PROVE JudgeInv
  OBVIOUS
<1>1. FlagsInv
  BY DEF Init, Defaults, FlagsInv
<1>2. FileInv
  BY DEF Init, FileInv, FitsFileComplete, Defaults
<1>3. SavedInv
  BY DEF Init, SavedInv, NothingSaved
<1>4. AnswersAreFinal
  BY DEF Init, AnswersAreFinal, Requests
<1>5. QED
  BY <1>1, <1>2, <1>3, <1>4 DEF JudgeInv

\* Accepted data has arrived.
LEMMA AcceptedArrived ==
    ASSUME Typed, StreamInv, Accepted
    PROVE  hdr_end /\ running_size = Pixels /\ size >= DataEnd
<1>1. hdr_end
  BY DEF Accepted, StreamInv, HeaderInv
<1>2. QED
  BY <1>1 DEF Accepted, StreamInv, DataInv

\* What an action leaves alone.
SameStream == UNCHANGED <<cube, bSuccess, running_size, hdr_end, size, starved>>

LEMMA SameVerdict ==
    ASSUME SameStream
    PROVE  Accepted' = Accepted /\ DataEnd' = DataEnd /\ Lost' = Lost /\ DiskShort' = DiskShort
  BY DEF SameStream, Accepted, DataEnd, Pixels, Lost, DiskShort

LEMMA SameSaved ==
    ASSUME cube' = cube, saved' = saved, cached' = cached
    PROVE  Stale' = Stale /\ Mapped' = Mapped
  BY DEF Stale, Mapped, AllBlocks, Frames

LEMMA FileKept ==
    ASSUME cube' = cube, file'["fits"] = file["fits"]
    PROVE  Stored' = Stored /\ (FitsFileComplete => FitsFileComplete')
  BY DEF Stored, FitsFileComplete, DataEnd, Pixels, Lost, DiskShort

LEMMA ReceiveJudge ==
    ASSUME Typed, StreamInv, JudgeInv, NEW n \in 1 .. Unit, Receive(n)
    PROVE  JudgeInv'
<1> USE DEF Typed, TypeOK
<1>1. /\ phase = "transfer" /\ size' = size + n /\ Write(n)
      /\ UNCHANGED <<cube, saved, cached, request>>
      /\ flags' = flags \/ flags' = HeaderFlags
  BY DEF Receive, ReceiveHeader, ReceiveData, ReceivePadding, cache
<1>2. flags'.has_data = flags.has_data /\ flags'.has_error = flags.has_error
  BY <1>1 DEF HeaderFlags, Flags
<1>3. n \in Nat /\ n <= Unit /\ Unit \in Nat /\ Stdio \in Nat
  BY Sizes
<1>4. /\ file'["tmp"] \in Nat /\ file["tmp"] \in Nat /\ file'["tmp"] >= file["tmp"]
      /\ file'["fits"] = file["fits"] /\ unflushed' \in Nat
      /\ \/ /\ phase' = "transfer" /\ unflushed' <= Stdio
            /\ file'["tmp"] + unflushed' = file["tmp"] + unflushed + n
         \/ phase' = "ended" /\ DiskShort /\ unflushed' = 0
  BY <1>1, <1>3, WriteEffect
<1>5. Stale' = Stale /\ Stored' = Stored /\ (FitsFileComplete => FitsFileComplete')
  BY <1>1, <1>4, SameSaved, FileKept
<1>6. FlagsInv'
  BY <1>1, <1>2, <1>4, <1>5 DEF JudgeInv, FlagsInv
<1>7. FileInv'
  <2>1. file["tmp"] + unflushed = size /\ unflushed <= Stdio
    BY <1>1 DEF JudgeInv, FileInv
  <2>2. DiskShort' = DiskShort /\ Lost' = Lost /\ (DiskShort => Lost = Stdio + Unit)
    BY <1>1 DEF DiskShort, Lost
  <2>3. phase' = "transfer" => file'["tmp"] + unflushed' = size' /\ unflushed' <= Stdio
    BY <1>1, <1>3, <1>4, <2>1
  <2>4. phase' = "ended" => DiskShort /\ unflushed' = 0 /\ file'["tmp"] >= size' - Lost
    BY <1>1, <1>3, <1>4, <2>1, <2>2
  <2>5. phase' \in {"transfer", "ended"}
    BY <1>4
  <2>6. QED
    BY <1>5, <2>2, <2>3, <2>4, <2>5 DEF JudgeInv, FileInv
<1>8. SavedInv' /\ AnswersAreFinal'
  BY <1>1, <1>5 DEF JudgeInv, SavedInv, AnswersAreFinal
<1>9. QED
  BY <1>6, <1>7, <1>8 DEF JudgeInv

\* deserialise.
LEMMA DeserialiseJudge ==
    ASSUME Typed, StreamInv, JudgeInv, Deserialise
    PROVE  JudgeInv'
<1> USE DEF Typed, TypeOK, download, cache
<1>1. /\ SameStream /\ UNCHANGED <<file, unflushed, saved, cached, request>>
      /\ phase \in {"created", "read"} /\ phase' \in {"read", "opened", "restored"}
  BY DEF Deserialise, NothingToRestore, ReadFields, RestoreAll, RestorePart, Restore, SameStream
<1>2. Stale' = Stale /\ Mapped' = Mapped /\ Stored' = Stored
      /\ (FitsFileComplete => FitsFileComplete')
  BY <1>1, SameSaved, FileKept DEF SameStream
<1>3. /\ phase = "created" => flags = Defaults
      /\ phase = "read" => ~ flags.processed_data /\ (flags.has_data => saved.data)
      /\ flags.has_error => saved.error
  BY <1>1 DEF StreamInv, FreshInv, Defaults, JudgeInv, FlagsInv
<1>4. FlagsInv'
  <2>1. CASE NothingToRestore
    BY <1>1, <1>3, <2>1 DEF NothingToRestore, FlagsInv, Defaults
  <2>2. CASE ReadFields
    <3>1. /\ phase' = "read" /\ flags'.has_data = saved.data /\ flags'.has_error = saved.error
          /\ ~ flags'.processed_data
      BY <1>3, <2>2 DEF ReadFields, Defaults, Flags
    <3>2. QED
      BY <1>1, <3>1 DEF FlagsInv
  <2>3. CASE RestoreAll
    <3>1. /\ phase = "read" /\ phase' = "restored" /\ (Mapped \/ ~ saved.whole)
          /\ flags'.has_data = (flags.has_data /\ saved.image)
          /\ flags'.has_error = flags.has_error
      BY <2>3 DEF RestoreAll, Restore, Flags
    <3>2. flags'.has_data => saved.data /\ Mapped
      BY <1>3, <3>1 DEF JudgeInv, SavedInv
    <3>3. QED
      BY <1>1, <1>2, <1>3, <3>1, <3>2 DEF FlagsInv
  <2>4. CASE RestorePart
    <3>1. /\ phase = "read" /\ phase' = "opened" /\ ~ Mapped
          /\ flags'.has_data = (flags.has_data /\ saved.image)
          /\ flags'.has_error = flags.has_error /\ flags'.processed_data = FALSE
      BY <2>4 DEF RestorePart, Restore, Flags
    <3>2. flags'.has_data => Stale
      BY <1>3, <3>1 DEF Stale
    <3>3. QED
      BY <1>1, <1>2, <1>3, <3>1, <3>2 DEF FlagsInv
  <2>5. QED
    BY <2>1, <2>2, <2>3, <2>4, Zenon DEF Deserialise
<1>5. FileInv'
  BY <1>1, <1>2 DEF JudgeInv, FileInv
<1>6. SavedInv' /\ AnswersAreFinal'
  BY <1>1, <1>2 DEF JudgeInv, SavedInv, AnswersAreFinal
<1>7. QED
  BY <1>4, <1>5, <1>6 DEF JudgeInv

\* The end of the server.
LEMMA VanishJudge ==
    ASSUME Typed, StreamInv, JudgeInv, Crash \/ Stop
    PROVE  JudgeInv'
<1> USE DEF Typed, TypeOK, download, cache
<1>1. /\ phase' = "down" /\ UNCHANGED <<cube, file>> /\ flags' = Defaults
      /\ \A r \in Requests : request'[r] = "idle"
  BY DEF Crash, Stop, Vanish
<1>2. Stored' = Stored /\ (FitsFileComplete => FitsFileComplete')
  BY <1>1, FileKept
<1>3. FlagsInv'
  BY <1>1 DEF FlagsInv, Defaults
<1>4. FileInv'
  BY <1>1, <1>2 DEF JudgeInv, FileInv
<1>5. AnswersAreFinal'
  BY <1>1 DEF AnswersAreFinal, Requests
<1>6. SavedInv'
  <2>1. CASE saved' = saved
    BY <1>2, <2>1 DEF JudgeInv, SavedInv
  <2>2. CASE Stop
    <3>1. PICK image \in SavedImage :
            saved' = IF saved.json \/ hdr_len = 0 THEN [saved EXCEPT !.image = image]
                     ELSE [json |-> TRUE, whole |-> hdr_end, data |-> flags.has_data,
                           error |-> flags.has_error, image |-> image]
      BY <2>2 DEF Stop
    <3>2. CASE saved.json \/ hdr_len = 0
      <4>1. /\ saved'.json = saved.json /\ saved'.whole = saved.whole
            /\ saved'.data = saved.data /\ saved'.error = saved.error
        BY <3>1, <3>2 DEF Saved
      <4>2. QED
        BY <1>2, <4>1 DEF JudgeInv, SavedInv
    <3>3. CASE ~ (saved.json \/ hdr_len = 0)
      <4>1. saved'.json /\ saved'.whole = hdr_end /\ saved'.data = flags.has_data
        BY <3>1, <3>3
      <4>2. phase = "done"
        BY <2>2, <3>3 DEF Stop, StreamInv, FreshInv, Reset
      <4>3. ~ saved.data
        BY <3>3 DEF JudgeInv, SavedInv
      <4>4. flags.has_data => Accepted /\ Stored
        BY <4>2, <4>3 DEF JudgeInv, FlagsInv, FileInv, Stale
      <4>5. flags.has_data => hdr_end
        BY <4>4, AcceptedArrived
      <4>6. QED
        BY <1>2, <4>1, <4>4, <4>5 DEF SavedInv
    <3>4. QED
      BY <3>2, <3>3
  <2>3. QED
    BY <2>1, <2>2 DEF Crash
<1>7. QED
  BY <1>3, <1>4, <1>5, <1>6 DEF JudgeInv

LEMMA JudgeStep ==
    ASSUME Typed, StreamInv, JudgeInv, [Next]_vars
    PROVE  JudgeInv'
<1> USE DEF Typed, TypeOK, download, cache
<1> DEFINE SameCache == UNCHANGED <<cube, saved, cached>>
<1>1. SameCache => Stale' = Stale /\ Mapped' = Mapped
  BY SameSaved
<1>2. ASSUME NEW n \in 1 .. Unit, Receive(n) PROVE JudgeInv'
  BY <1>2, ReceiveJudge
<1>3. CASE Create
  <2>1. /\ phase = "down" /\ phase' = "created" /\ UNCHANGED <<file, flags, request>>
        /\ SameStream /\ SameCache
    BY <1>3 DEF Create, SameStream
  <2>2. ~ flags.has_data /\ ~ flags.has_error
    BY <2>1 DEF StreamInv, FreshInv, Defaults
  <2>3. Stored' = Stored /\ (FitsFileComplete => FitsFileComplete')
    BY <2>1, FileKept
  <2>4. FlagsInv'
    BY <2>1, <2>2 DEF FlagsInv
  <2>5. FileInv'
    BY <2>1, <2>3 DEF JudgeInv, FileInv
  <2>6. SavedInv' /\ AnswersAreFinal'
    BY <2>1, <2>3 DEF JudgeInv, SavedInv, AnswersAreFinal
  <2>7. QED
    BY <2>4, <2>5, <2>6 DEF JudgeInv
<1>4. CASE Deserialise
  BY <1>4, DeserialiseJudge
<1>5. CASE Begin
  <2>1. /\ phase = "opened" /\ UNCHANGED <<unflushed, flags, request, size>> /\ SameCache
        /\ file'["fits"] = file["fits"]
        /\ \/ phase' = "transfer" /\ file'["tmp"] = 0 /\ starved' = starved
           \/ phase' = "judged" /\ starved'
    BY <1>5 DEF Begin
  <2>2. Reset
    BY <2>1 DEF StreamInv, FreshInv
  <2>3. Accepted' = Accepted /\ ~ Accepted
    BY <1>5, <2>2 DEF Begin, Accepted, Pixels, Reset
  <2>4. Stored' = Stored /\ (FitsFileComplete => FitsFileComplete')
    BY <2>1, FileKept
  <2>5. /\ flags.has_data => Stale
        /\ flags.has_error => saved.error
    BY <2>1 DEF JudgeInv, FlagsInv
  <2>6. FlagsInv'
    BY <1>1, <2>1, <2>2, <2>3, <2>5 DEF FlagsInv, Reset
  <2>7. FileInv'
    <3>1. phase' = "transfer" => file'["tmp"] + unflushed' = size' /\ unflushed' <= Stdio
      BY <2>1, <2>2, Sizes DEF Reset
    <3>2. flags.has_data => Stored
      BY <2>5 DEF Stale, JudgeInv, SavedInv
    <3>3. phase' \in {"transfer", "judged"}
      BY <2>1
    <3>4. QED
      BY <2>1, <2>4, <3>1, <3>2, <3>3 DEF JudgeInv, FileInv
  <2>8. SavedInv' /\ AnswersAreFinal'
    BY <2>1, <2>4 DEF JudgeInv, SavedInv, AnswersAreFinal
  <2>9. QED
    BY <2>6, <2>7, <2>8 DEF JudgeInv
<1>6. CASE TransferEnds
  <2>1. /\ phase = "transfer" /\ phase' = "ended" /\ SameStream /\ SameCache
        /\ UNCHANGED <<file, unflushed, flags, request>>
    BY <1>6 DEF TransferEnds, SameStream
  <2>2. Stored' = Stored /\ (FitsFileComplete => FitsFileComplete')
    BY <2>1, FileKept
  <2>3. FlagsInv'
    BY <1>1, <2>1 DEF JudgeInv, FlagsInv
  <2>4. FileInv'
    BY <2>1, <2>2 DEF JudgeInv, FileInv, SameStream
  <2>5. SavedInv' /\ AnswersAreFinal'
    BY <2>1, <2>2 DEF JudgeInv, SavedInv, AnswersAreFinal
  <2>6. QED
    BY <2>3, <2>4, <2>5 DEF JudgeInv
<1>7. CASE Accept
  <2>1. /\ phase = "ended" /\ phase' = "accepted" /\ SameStream /\ SameCache /\ Accepted
        /\ flags' = [flags EXCEPT !.has_data = TRUE] /\ request' = request
    BY <1>7 DEF Accept, SameStream
  <2>2. PICK m \in (IF DiskShort THEN 0 .. unflushed ELSE {unflushed}) :
          file' = [file EXCEPT !["tmp"] = @ + m]
    BY <1>7 DEF Accept
  <2>3. /\ m \in Nat /\ (~ DiskShort => m = unflushed)
        /\ file'["tmp"] = file["tmp"] + m /\ file'["fits"] = file["fits"]
        /\ file["tmp"] \in Nat
    BY <2>1, <2>2
  <2>4. Stored' = Stored /\ (FitsFileComplete => FitsFileComplete')
    BY <2>1, <2>3, FileKept
  <2>5. flags'.has_data /\ flags'.has_error = flags.has_error
    BY <2>1 DEF Flags
  <2>6. FlagsInv'
    BY <1>1, <2>1, <2>5, SameVerdict DEF JudgeInv, FlagsInv
  <2>7. FileInv'
    <3>1. \/ file["tmp"] + unflushed = size /\ unflushed <= Stdio
          \/ DiskShort /\ unflushed = 0 /\ file["tmp"] >= size - Lost
      BY <2>1 DEF JudgeInv, FileInv
    <3>2. DiskShort => Lost = Stdio + Unit
      BY DEF Lost
    <3>3. file'["tmp"] >= size - Lost
      BY <2>3, <3>1, <3>2, LostTyped, Sizes
    <3>4. size' = size /\ Lost' = Lost
      BY <2>1, SameVerdict DEF SameStream
    <3>5. QED
      BY <2>1, <2>4, <3>3, <3>4 DEF JudgeInv, FileInv
  <2>8. SavedInv'
    BY <2>1, <2>4 DEF JudgeInv, SavedInv
  <2>9. AnswersAreFinal'
    BY <2>1 DEF JudgeInv, AnswersAreFinal
  <2>10. QED
    BY <2>6, <2>7, <2>8, <2>9 DEF JudgeInv
<1>8. CASE Reject
  <2>1. /\ phase = "ended" /\ phase' = "judged" /\ SameStream /\ SameCache /\ ~ Accepted
        /\ flags' = [flags EXCEPT !.has_data = FALSE, !.has_error = TRUE]
        /\ request' = request /\ file'["fits"] = file["fits"]
    BY <1>8 DEF Reject, SameStream
  <2>2. Stored' = Stored /\ (FitsFileComplete => FitsFileComplete')
    BY <2>1, FileKept
  <2>3. ~ flags'.has_data
    BY <2>1 DEF Flags
  <2>4. FlagsInv'
    BY <2>1, <2>3, SameVerdict DEF FlagsInv
  <2>5. FileInv'
    BY <2>1, <2>2, <2>3 DEF JudgeInv, FileInv
  <2>6. SavedInv'
    BY <2>1, <2>2 DEF JudgeInv, SavedInv
  <2>7. AnswersAreFinal'
    BY <2>1 DEF JudgeInv, AnswersAreFinal
  <2>8. QED
    BY <2>4, <2>5, <2>6, <2>7 DEF JudgeInv
<1>9. CASE Rename
  <2>1. /\ phase = "accepted" /\ phase' = "judged" /\ SameStream /\ SameCache
        /\ UNCHANGED <<flags, request>> /\ file'["fits"] = file["tmp"]
    BY <1>9 DEF Rename, SameStream
  <2>2. flags.has_data /\ Accepted
    BY <2>1 DEF JudgeInv, FlagsInv
  <2>3. Stored'
    <3>1. file["tmp"] \in Nat /\ file["tmp"] >= size - Lost /\ size \in Nat
      BY <2>1 DEF JudgeInv, FileInv
    <3>2. size >= DataEnd /\ DataEnd \in Nat
      BY <2>2, AcceptedArrived, Lengths
    <3>3. file["tmp"] # NoFile /\ file["tmp"] >= DataEnd - Lost
      BY <3>1, <3>2, LostTyped DEF NoFile
    <3>4. QED
      BY <2>1, <3>3, SameVerdict DEF Stored
  <2>4. FlagsInv'
    BY <2>1, <2>2, SameVerdict DEF JudgeInv, FlagsInv
  <2>5. FileInv'
    BY <2>1, <2>3 DEF FileInv, FitsFileComplete, Stored
  <2>6. SavedInv'
    BY <2>1, <2>3 DEF JudgeInv, SavedInv
  <2>7. AnswersAreFinal'
    BY <2>1 DEF JudgeInv, AnswersAreFinal
  <2>8. QED
    BY <2>4, <2>5, <2>6, <2>7 DEF JudgeInv
<1>10. CASE Return
  <2>1. /\ phase = "judged" /\ phase' = "done" /\ SameStream /\ SameCache
        /\ UNCHANGED <<file, request>>
        /\ flags' = [flags EXCEPT !.processed_data = TRUE]
    BY <1>10 DEF Return, Announce, SameStream
  <2>2. flags'.has_data = flags.has_data /\ flags'.has_error = flags.has_error
    BY <2>1 DEF Flags
  <2>3. Stored' = Stored /\ (FitsFileComplete => FitsFileComplete')
    BY <2>1, FileKept
  <2>4. FlagsInv'
    BY <1>1, <2>1, <2>2, SameVerdict DEF JudgeInv, FlagsInv, SameStream
  <2>5. FileInv'
    BY <2>1, <2>2, <2>3 DEF JudgeInv, FileInv
  <2>6. SavedInv'
    BY <2>1, <2>3 DEF JudgeInv, SavedInv
  <2>7. AnswersAreFinal'
    BY <2>1, <2>2 DEF JudgeInv, AnswersAreFinal
  <2>8. QED
    BY <2>4, <2>5, <2>6, <2>7 DEF JudgeInv
<1>11. CASE Crash \/ Stop
  BY <1>11, VanishJudge
<1>12. ASSUME SameStream, SameCache, UNCHANGED <<phase, file, unflushed, flags>>
       PROVE  FlagsInv' /\ FileInv' /\ SavedInv'
  <2>1. Stored' = Stored /\ (FitsFileComplete => FitsFileComplete')
    BY <1>12, FileKept
  <2>2. FlagsInv'
    BY <1>1, <1>12, SameVerdict DEF JudgeInv, FlagsInv, SameStream
  <2>3. FileInv'
    BY <1>12, <2>1, SameVerdict DEF JudgeInv, FileInv, SameStream
  <2>4. SavedInv'
    BY <1>12, <2>1 DEF JudgeInv, SavedInv
  <2>5. QED
    BY <2>2, <2>3, <2>4
<1>13. ASSUME NEW r \in Requests, Ask(r) \/ Answer(r) PROVE JudgeInv'
  <2>1. SameStream /\ SameCache /\ UNCHANGED <<phase, file, unflushed, flags>>
    BY <1>13 DEF Ask, Answer, SameStream
  <2>2. FlagsInv' /\ FileInv' /\ SavedInv'
    BY <1>12, <2>1
  <2>3. CASE Ask(r)
    <3>1. request' = [request EXCEPT ![r] = IF flags.has_error THEN "missing" ELSE "waiting"]
      BY <2>3 DEF Ask
    <3>2. flags.has_error => saved.error \/ (phase \in {"judged", "done"} /\ ~ flags.has_data)
      BY DEF JudgeInv, FlagsInv
    <3>3. AnswersAreFinal'
      BY <2>1, <3>1, <3>2 DEF JudgeInv, AnswersAreFinal, Requests
    <3>4. QED
      BY <2>2, <3>3 DEF JudgeInv
  <2>4. CASE Answer(r)
    <3>1. request' = [request EXCEPT ![r] = IF Has(r) THEN "found" ELSE "missing"]
      BY <2>4 DEF Answer
    <3>2. /\ phase \in {"down", "created"} => ~ flags.processed_data
          /\ phase \in {"read", "opened"} => ~ flags.processed_data
      BY DEF StreamInv, FreshInv, Defaults, JudgeInv, FlagsInv
    <3>3. r \in DataRequests =>
            Has(r) = flags.has_data /\ Processed(r) = flags.processed_data
      BY RequestsAssumption DEF Has, Processed
    <3>4. r \in DataRequests => phase \in {"done", "restored"}
      BY <2>4, <3>2, <3>3 DEF Answer, Locked, Phases
    <3>5. AnswersAreFinal'
      BY <2>1, <3>1, <3>3, <3>4 DEF JudgeInv, AnswersAreFinal, Requests
    <3>6. QED
      BY <2>2, <3>5 DEF JudgeInv
  <2>5. QED
    BY <1>13, <2>3, <2>4
<1>14. CASE UNCHANGED vars
  <2>1. SameStream /\ SameCache /\ UNCHANGED <<phase, file, unflushed, flags, request>>
    BY <1>14 DEF vars, SameStream
  <2>2. QED
    BY <1>12, <2>1 DEF JudgeInv, AnswersAreFinal
<1>15. QED
  BY <1>2, <1>3, <1>4, <1>5, <1>6, <1>7, <1>8, <1>9, <1>10, <1>11, <1>13, <1>14 DEF Next, Judge

JudgedInv == Typed /\ StreamInv /\ BufferInv /\ JudgeInv

LEMMA JudgedInit == Init => JudgedInv
  BY TypedInit, StreamInit, BufferInit, JudgeInit DEF JudgedInv

LEMMA JudgedStep == JudgedInv /\ [Next]_vars => JudgedInv'
  BY TypedStep, StreamStep, BufferStep, JudgeStep DEF JudgedInv

\* A crash or a broken connection never leaves a short .fits file; a full disk takes
\* at most a buffer of stdio and the last chunk of it.
THEOREM FitsFileHolds == Spec => []FitsFileComplete
<1>1. JudgedInv => FitsFileComplete
  BY DEF JudgedInv, JudgeInv, FileInv
<1>2. QED
  BY <1>1, JudgedInit, JudgedStep, PTL DEF Spec

\* No request for the data is answered before the verdict or against it, unless an
\* earlier run has left its failure behind.
THEOREM AnswersHold == Spec => []AnswersAreFinal
<1>1. JudgedInv => AnswersAreFinal
  BY DEF JudgedInv, JudgeInv
<1>2. QED
  BY <1>1, JudgedInit, JudgedStep, PTL DEF Spec

\* Once the whole stream is there no pixel of it is left in the buffer.
LEMMA AllTaken ==
    ASSUME JudgedInv, PlanesHoldChunk, cube.bytes >= Word, size = StreamLength
    PROVE  hdr_end /\ running_size = Pixels
<1> USE DEF JudgedInv, Typed, TypeOK
<1>1. hdr_end
  <2> SUFFICES ASSUME ~ hdr_end PROVE FALSE
    OBVIOUS
  <2>1. PICK k \in 0 .. HeaderUnits : hdr_len = k * Unit /\ k # HeaderUnits
    BY DEF StreamInv, HeaderInv
  <2>2. k * Unit + Unit <= HeaderUnits * Unit
    BY <2>1, Sizes, TimesStep
  <2>3. buffer_size < Unit /\ size = hdr_len + buffer_size
    BY DEF StreamInv, HeaderInv
  <2>4. HeaderLength = HeaderUnits * Unit /\ HeaderLength + Unit <= StreamLength
        /\ HeaderLength \in Nat /\ StreamLength \in Nat
    BY Lengths DEF HeaderLength
  <2> HIDE DEF HeaderLength, StreamLength
  <2>5. QED
    BY <2>1, <2>2, <2>3, <2>4, Sizes
<1>2. running_size = Pixels
  <2> SUFFICES ASSUME running_size < Pixels PROVE FALSE
    BY Lengths DEF StreamInv, DataInv
  <2>1. size = HeaderLength + running_size * Word + buffer_size
    BY <1>1 DEF StreamInv, DataInv
  <2>2. buffer_size < Unit /\ (Midway => buffer_size < Word)
    BY <1>1 DEF BufferInv
  <2>3. DataEnd = HeaderLength + Pixels * Word /\ DataEnd <= size
    BY Lengths DEF DataEnd
  <2>4. /\ HeaderLength \in Nat /\ Pixels \in Nat /\ running_size * Word \in Nat
        /\ HeaderLength + Unit <= size
    BY Lengths, Sizes, TimesMonotone
  <2>5. (Pixels - running_size) * Word = Pixels * Word - running_size * Word
    BY <2>4, Sizes, TimesSplit
  <2>6. buffer_size >= (Pixels - running_size) * Word
    <3>1. Pixels * Word \in Nat
      BY <2>4, Sizes, TimesMonotone
    <3>2. QED
      BY <2>1, <2>3, <2>4, <2>5, <3>1
  <2>7. (Pixels - running_size) * Word >= Word
    BY <2>4, Sizes, TimesPositive
  <2>8. ~ Midway
    BY <2>2, <2>6, <2>7, <2>4, <2>5, Sizes
  <2>9. CASE cube.depth = 1
    <3>1. running_size = 0
      BY <2>8, <2>9 DEF Midway
    <3>2. running_size * Word = 0
      BY <3>1, Sizes
    <3>3. QED
      BY <2>1, <2>2, <2>4, <3>2, Sizes
  <2>10. CASE cube.depth # 1
    <3>1. Start = 0 /\ cube.plane <= Pixels - running_size /\ cube.plane \in Nat
      BY <2>8, <2>10, Place, CubeTyped DEF Midway
    <3>2. cube.plane * Word <= (Pixels - running_size) * Word
      BY <2>4, <3>1, Sizes, TimesMonotone
    <3>3. cube.plane * Word >= Unit /\ cube.plane * Word \in Nat
      BY <2>10, <3>1, Sizes, TimesMonotone DEF PlanesHoldChunk
    <3>4. QED
      BY <2>2, <2>4, <2>5, <2>6, <3>2, <3>3, Sizes
  <2>11. QED
    BY <2>9, <2>10
<1>3. QED
  BY <1>1, <1>2

\* However the stream is cut, a complete one is accepted unless memory ran short, and
\* nothing is accepted that lacks pixels.  What an earlier run announced stands if
\* there is no transfer.
THEOREM VerdictHolds == Spec => []VerdictFitsStream
<1>1. ASSUME JudgedInv PROVE VerdictFitsStream
  <2> USE DEF JudgedInv, JudgeInv
  <2> SUFFICES ASSUME phase \in {"judged", "done"}
               PROVE  /\ flags.has_data => size >= DataEnd \/ (size = 0 /\ Stale)
                      /\ /\ PlanesHoldChunk /\ bSuccess /\ ~ flags.has_data
                         /\ cube.bytes >= Word
                         => size < StreamLength
    BY DEF VerdictFitsStream
  <2>1. flags.has_data => size >= DataEnd \/ (size = 0 /\ Stale)
    BY <1>1, AcceptedArrived DEF FlagsInv
  <2>2. ASSUME PlanesHoldChunk, bSuccess, ~ flags.has_data, cube.bytes >= Word
        PROVE  size < StreamLength
    <3>1. ~ Accepted
      BY <1>1, <2>2 DEF FlagsInv
    <3>2. cube \in Cubes /\ running_size \in Nat /\ size \in Nat
      BY <1>1 DEF Typed, TypeOK
    <3>3. Pixels # 0 /\ StreamLength \in Nat
      BY <3>2, Lengths
    <3>4. size # StreamLength
      BY <1>1, <2>2, <3>1, <3>3, AllTaken DEF Accepted
    <3>5. size <= StreamLength
      BY <1>1 DEF StreamInv, DataInv
    <3>6. QED
      BY <3>2, <3>3, <3>4, <3>5
  <2>3. QED
    BY <2>1, <2>2
<1>2. QED
  BY <1>1, JudgedInit, JudgedStep, PTL DEF Spec

(***************************************************************************)
(* The cube.  The blocks before that of the current frame are compressed,  *)
(* and the frames of the current block that have passed are raw planes.    *)
(***************************************************************************)

Block(f) == f - (f % 4)

Passed(frame, start) ==
    \A f \in Frames :
        /\ f < Block(frame) => Block(f) \in compressed /\ f \notin fits_cube
        /\ Block(frame) <= f /\ f < frame => f \in fits_cube
        /\ f = frame /\ start > 0 => f \in fits_cube

Complete ==
    /\ \A f \in Frames : f \in fits_cube \/ Block(f) \in compressed
    /\ cube.depth >= 4 => fits_cube = {}

CubeInv ==
    /\ fits_cube \subseteq Frames
    /\ bSuccess /\ ~ starved /\ cube.depth > 1 =>
            IF running_size < Pixels THEN Passed(Frame, Start) ELSE Complete

LEMMA Blocks ==
    ASSUME NEW f \in Nat
    PROVE  /\ Block(f) \in Nat /\ Block(f) <= f /\ f < Block(f) + 4
           /\ Block(f) % 4 = 0
           /\ f % 4 = 3 => f = Block(f) + 3 /\ Block(f + 1) = f + 1
           /\ f % 4 # 3 => Block(f + 1) = Block(f)
  BY DEF Block

LEMMA SameBlock ==
    ASSUME NEW f \in Nat, NEW g \in Nat, Block(g) <= f, f < Block(g) + 4
    PROVE  Block(f) = Block(g)
  BY DEF Block

\* Which block is compressed after a frame: its own, if it is complete.
LEMMA BlockChosen ==
    ASSUME cube \in Cubes, NEW f \in Frames
    PROVE  /\ \A k \in BlockAfter(f) :
                 k = Block(f) /\ cube.depth >= 4 /\ (f % 4 = 3 \/ f = cube.depth - 1)
           /\ BlockAfter(f) = {} =>
                 IF f = cube.depth - 1 THEN cube.depth < 4 ELSE f % 4 # 3
<1>1. cube.depth \in Nat /\ f \in Nat /\ f < cube.depth
  BY CubeTyped DEF Frames
<1>2. CASE f < 3
  BY <1>1, <1>2 DEF BlockAfter
<1>3. CASE f >= 3
  <2>1. (f - 3) % 4 = 0 <=> f % 4 = 3
    BY <1>1, <1>3
  <2>2. QED
    BY <1>1, <1>3, <2>1 DEF BlockAfter, Block
<1>4. QED
  BY <1>1, <1>2, <1>3

LEMMA StoreFrames ==
    ASSUME Typed, CubeInv, running_size < Pixels, NEW n \in 1 .. Unit, StorePlane(n), cube' = cube
    PROVE  fits_cube' \subseteq Frames'
<1>1. Frame \in Frames /\ Frames' = Frames
  BY Place DEF Typed, TypeOK, Frames
<1>2. PICK raw \in {fits_cube \cup {Frame}} \cup (IF MemoryShort THEN {fits_cube} ELSE {}) :
        IF FrameEnds(n) /\ BlockAfter(Frame) # {}
        THEN \E k \in BlockAfter(Frame) : Compress(k, raw)
        ELSE KeepRaw(raw)
  BY DEF StorePlane
<1>3. raw \subseteq Frames
  BY <1>1, <1>2 DEF CubeInv
<1>4. fits_cube' \subseteq raw
  BY <1>2 DEF Compress, KeepRaw
<1>5. QED
  BY <1>1, <1>3, <1>4

\* A callback with pixels of a cube.
LEMMA StoreCube ==
    ASSUME Typed, CubeInv, NEW n \in 1 .. Unit, ReceiveData(n), cube.depth > 1,
           bSuccess', ~ starved'
    PROVE  IF running_size' < Pixels' THEN (Passed(Frame, Start))' ELSE Complete'
<1> USE DEF Typed, TypeOK
<1> DEFINE w == Work(n)
           rest == cube.plane - Start
           b == Block(Frame)
<1>1. /\ running_size < Pixels /\ StorePlane(n) /\ cube' = cube
      /\ running_size' = running_size + w
  <2>1. cube.depth # 1
    BY CubeTyped
  <2>2. QED
    BY <2>1 DEF ReceiveData
<1>2. /\ Frame \in Frames /\ Start \in 0 .. cube.plane - 1
      /\ cube.plane \in Nat \ {0} /\ cube.depth \in Nat \ {0}
      /\ running_size = Frame * cube.plane + Start
  BY <1>1, Place, CubeTyped
<1>3. w \in Nat /\ w <= rest /\ running_size + w <= Pixels
  BY <1>1, WorkTaken
<1>4. /\ Frames' = Frames /\ Pixels' = Pixels
      /\ Frame' = (IF w = rest THEN Frame + 1 ELSE Frame)
      /\ Start' = (IF w = rest THEN 0 ELSE Start + w)
  BY <1>1, <1>3, NextPlace DEF Frames, Pixels, Frame, Start
<1>5. FrameEnds(n) <=> w = rest
  BY <1>2, <1>3 DEF FrameEnds
<1>6. PICK raw \in {fits_cube \cup {Frame}} \cup (IF MemoryShort THEN {fits_cube} ELSE {}) :
        /\ bSuccess' = (bSuccess /\ Frame \in raw)
        /\ IF FrameEnds(n) /\ BlockAfter(Frame) # {}
           THEN \E k \in BlockAfter(Frame) : Compress(k, raw)
           ELSE KeepRaw(raw)
  BY <1>1 DEF StorePlane
<1>7. bSuccess /\ Frame \in raw /\ raw = fits_cube \cup {Frame} /\ ~ starved
  BY <1>6 DEF Compress, KeepRaw
<1>8. Passed(Frame, Start) /\ fits_cube \subseteq Frames
  BY <1>1, <1>7 DEF CubeInv
<1>9. Frame \in Nat /\ b \in Nat /\ b <= Frame /\ Frame < b + 4
  <2>1. Frame \in Nat
    BY <1>2 DEF Frames
  <2>2. QED
    BY <2>1, Blocks
<1>10. \A f \in Frames :
         /\ f < b => Block(f) \in compressed /\ f \notin raw
         /\ b <= f /\ f <= Frame => f \in raw
  <2> SUFFICES ASSUME NEW f \in Frames
               PROVE  /\ f < b => Block(f) \in compressed /\ f \notin raw
                      /\ b <= f /\ f <= Frame => f \in raw
    OBVIOUS
  <2>1. f \in Nat
    BY <1>2 DEF Frames
  <2> HIDE DEF b
  <2>2. f < b => f # Frame
    BY <1>9, <2>1
  <2>3. f <= Frame => f = Frame \/ f < Frame
    BY <1>9, <2>1
  <2>4. QED
    BY <1>7, <1>8, <2>2, <2>3 DEF Passed, b
<1>11. CASE w # rest
  <2>1. fits_cube' = raw /\ compressed' = compressed
    BY <1>5, <1>6, <1>11 DEF KeepRaw
  <2>2. running_size' < Pixels'
    <3>1. rest <= Pixels - running_size /\ Pixels \in Nat
      BY <1>1, Place, Lengths
    <3> HIDE DEF w, rest, Pixels
    <3>2. w < rest
      <4>1. rest \in Int
        BY <1>2 DEF rest
      <4>2. QED
        BY <1>3, <1>11, <4>1
    <3>3. rest \in Int
      BY <1>2 DEF rest
    <3>4. QED
      BY <1>1, <1>3, <1>4, <3>1, <3>2, <3>3
  <2>3. Frame' = Frame
    BY <1>4, <1>11
  <2>4. (Passed(Frame, Start))'
    <3> SUFFICES ASSUME NEW f \in Frames
                 PROVE  /\ f < Block(Frame) => Block(f) \in compressed' /\ f \notin fits_cube'
                        /\ Block(Frame) <= f /\ f < Frame => f \in fits_cube'
                        /\ f = Frame => f \in fits_cube'
      BY <1>4, <2>3 DEF Passed, Block
    <3>1. f \in Nat
      BY <1>2 DEF Frames
    <3>2. QED
      BY <1>7, <1>9, <1>10, <2>1, <3>1
  <2>5. QED
    BY <2>2, <2>4
<1>12. CASE w = rest
  <2>1. Frame' = Frame + 1 /\ Start' = 0
    BY <1>4, <1>12
  <2>2. running_size' = Frame * cube.plane + cube.plane
    <3>1. w = cube.plane - Start
      BY <1>12
    <3> HIDE DEF w
    <3>2. QED
      BY <1>1, <1>2, <1>9, <3>1
  <2>3. running_size' < Pixels' <=> Frame # cube.depth - 1
    <3>1. Frame < cube.depth
      BY <1>2, <1>9 DEF Frames
    <3>2. CASE Frame = cube.depth - 1
      <4>1. cube.depth = Frame + 1
        BY <1>2, <1>9, <3>2
      <4>2. (Frame + 1) * cube.plane = Frame * cube.plane + cube.plane
        BY <1>2, <1>9, TimesNext
      <4>3. running_size' = Pixels'
        BY <1>2, <1>4, <1>9, <2>2, <4>1, <4>2 DEF Pixels
      <4>4. QED
        BY <1>3, <1>4, <3>2, <4>3, Lengths
    <3>3. CASE Frame # cube.depth - 1
      <4>1. Frame + 1 \in Nat /\ Frame + 1 < cube.depth
        BY <1>2, <1>9, <3>1, <3>3
      <4>2. (Frame + 1) * cube.plane + cube.plane <= cube.depth * cube.plane
        BY <1>2, <4>1, TimesStep
      <4>3. (Frame + 1) * cube.plane = Frame * cube.plane + cube.plane
        BY <1>2, <1>9, TimesNext
      <4>4. Pixels = cube.depth * cube.plane
        BY <1>2 DEF Pixels
      <4>5. Frame * cube.plane \in Nat
        BY <1>2, <1>9, TimesMonotone
      <4>6. running_size' < Pixels
        <5> HIDE DEF Pixels
        <5>1. QED
          BY <1>2, <2>2, <4>2, <4>3, <4>4, <4>5
      <4>7. QED
        BY <1>4, <3>3, <4>6
    <3>4. QED
      BY <3>2, <3>3
  <2>4. CASE BlockAfter(Frame) = {}
    <3>1. fits_cube' = raw /\ compressed' = compressed
      BY <1>6, <2>4 DEF KeepRaw
    <3>2. IF Frame = cube.depth - 1 THEN cube.depth < 4 ELSE Frame % 4 # 3
      BY <1>2, <2>4, BlockChosen
    <3>3. CASE Frame = cube.depth - 1
      <4>1. b = 0 /\ ~ (cube.depth >= 4)
        BY <1>2, <1>9, <3>2, <3>3 DEF Block
      <4>2. \A f \in Frames : f \in raw
        <5> SUFFICES ASSUME NEW f \in Frames PROVE f \in raw
          OBVIOUS
        <5>1. f \in Nat /\ f <= Frame
          BY <1>2, <3>3 DEF Frames
        <5>2. QED
          BY <1>10, <4>1, <5>1
      <4>3. Complete'
        BY <1>1, <1>4, <3>1, <4>1, <4>2 DEF Complete, Block
      <4>4. QED
        BY <2>3, <3>3, <4>3
    <3>4. CASE Frame # cube.depth - 1
      <4>1. Block(Frame + 1) = b
        BY <1>9, <3>2, <3>4, Blocks
      <4>2. (Passed(Frame, Start))'
        <5> SUFFICES ASSUME NEW f \in Frames
                     PROVE  /\ f < b => Block(f) \in compressed /\ f \notin raw
                            /\ b <= f /\ f < Frame + 1 => f \in raw
          BY <1>4, <2>1, <3>1, <4>1 DEF Passed, Block
        <5>1. f \in Nat
          BY <1>2 DEF Frames
        <5>2. f < Frame + 1 => f <= Frame
          BY <1>9, <5>1
        <5>3. QED
          BY <1>10, <5>2
      <4>3. QED
        BY <2>3, <3>4, <4>2
    <3>5. QED
      BY <3>3, <3>4
  <2>5. CASE BlockAfter(Frame) # {}
    <3>1. PICK k \in BlockAfter(Frame) : Compress(k, raw)
      BY <1>5, <1>6, <1>12, <2>5
    <3>2. k = b /\ (Frame % 4 = 3 \/ Frame = cube.depth - 1)
      BY <1>2, BlockChosen
    <3>3. \A f \in BlockFrames(b) : f \in Frames /\ b <= f /\ f <= Frame
      <4> SUFFICES ASSUME NEW f \in Frames, b <= f, f < b + 4 PROVE f <= Frame
        BY DEF BlockFrames
      <4>1. f \in Nat /\ f < cube.depth
        BY <1>2 DEF Frames
      <4>2. Frame % 4 = 3 => Frame = b + 3
        BY <1>9, Blocks
      <4> HIDE DEF b
      <4>3. QED
        BY <1>2, <1>9, <3>2, <4>1, <4>2
    <3>4. BlockFrames(b) \subseteq raw
      BY <1>10, <3>3
    <3>5. compressed' = compressed \cup {b} /\ fits_cube' = raw \ BlockFrames(b)
      BY <3>1, <3>2, <3>4 DEF Compress, KeepRaw
    <3>6. \A f \in Frames : f <= Frame => Block(f) \in compressed' /\ f \notin fits_cube'
      <4> SUFFICES ASSUME NEW f \in Frames, f <= Frame
                   PROVE  Block(f) \in compressed' /\ f \notin fits_cube'
        OBVIOUS
      <4>1. f \in Nat
        BY <1>2 DEF Frames
      <4>2. CASE f < b
        BY <1>10, <3>5, <4>2
      <4>3. CASE b <= f
        <5>1. f < b + 4
          BY <1>9, <4>1
        <5>2. Block(f) = b
          BY <1>9, <4>1, <4>3, <5>1, SameBlock
        <5>3. f \in BlockFrames(b)
          BY <4>3, <5>1 DEF BlockFrames
        <5>4. QED
          BY <3>5, <5>2, <5>3
      <4>4. QED
        BY <1>9, <4>1, <4>2, <4>3
    <3>7. CASE Frame = cube.depth - 1
      <4>1. \A f \in Frames : f <= Frame
        BY <1>2, <3>7 DEF Frames
      <4>2. fits_cube' \subseteq Frames
        BY <1>2, <1>7, <1>8, <3>5
      <4>3. Complete'
        BY <1>1, <1>4, <3>6, <4>1, <4>2 DEF Complete, Block
      <4>4. QED
        BY <2>3, <3>7, <4>3
    <3>8. CASE Frame # cube.depth - 1
      <4>1. Block(Frame + 1) = Frame + 1
        BY <1>9, <3>2, <3>8, Blocks
      <4>2. (Passed(Frame, Start))'
        <5> SUFFICES ASSUME NEW f \in Frames
                     PROVE  f < Frame + 1 => Block(f) \in compressed' /\ f \notin fits_cube'
          <6>1. \A f \in Frames : f \in Nat
            BY <1>2 DEF Frames
          <6>2. \A f \in Frames : ~ (Frame + 1 <= f /\ f < Frame + 1)
            BY <1>9, <6>1
          <6>3. Block(Frame)' = Frame + 1
            BY <2>1, <4>1 DEF Block
          <6>4. \A f \in Frames : (Block(f))' = Block(f)
            BY DEF Block
          <6>5. QED
            BY <1>4, <2>1, <6>2, <6>3, <6>4 DEF Passed
        <5>1. f < Frame + 1 => f <= Frame
          BY <1>2, <1>9 DEF Frames
        <5>2. QED
          BY <3>6, <5>1
      <4>3. QED
        BY <2>3, <3>8, <4>2
    <3>9. QED
      BY <3>7, <3>8
  <2>6. QED
    BY <2>4, <2>5
<1>13. QED
  BY <1>11, <1>12

LEMMA CubeInit == Init => CubeInv
<1> SUFFICES ASSUME Init PROVE CubeInv
  OBVIOUS
<1>1. running_size = 0 /\ cube \in Cubes /\ fits_cube = {}
  BY DEF Init
<1>2. Frame = 0 /\ Start = 0
  <2>1. 0 = 0 * cube.plane + 0 /\ 0 \in 0 .. cube.plane - 1 /\ cube.plane \in Nat \ {0}
    BY <1>1, CubeTyped
  <2>2. QED
    BY <1>1, <2>1, DivModUnique DEF Frame, Start
<1>3. running_size < Pixels
  BY <1>1, Lengths
<1>4. Passed(0, 0)
  BY CubeTyped, <1>1 DEF Passed, Block, Frames
<1>5. QED
  BY <1>1, <1>2, <1>3, <1>4 DEF CubeInv

LEMMA CubeStep ==
    ASSUME Typed, StreamInv, CubeInv, [Next]_vars
    PROVE  CubeInv'
<1> USE DEF Typed, TypeOK, download
<1>1. CASE UNCHANGED <<cube, bSuccess, starved, running_size, fits_cube, compressed>>
  BY <1>1 DEF CubeInv, Frames, Passed, Complete, Frame, Start, Pixels, Block
<1>2. ASSUME NEW n \in 1 .. Unit, ReceiveData(n) PROVE CubeInv'
  <2>1. CASE cube.depth = 1
    <3>1. cube' = cube /\ UNCHANGED fits_cube
      BY <1>2, <2>1 DEF ReceiveData
    <3>2. QED
      BY <2>1, <3>1 DEF CubeInv, Frames
  <2>2. CASE cube.depth # 1
    <3>1. StorePlane(n) /\ cube' = cube /\ running_size < Pixels /\ cube.depth > 1
      BY <1>2, <2>2, CubeTyped DEF ReceiveData
    <3>2. fits_cube' \subseteq Frames'
      BY <3>1, StoreFrames
    <3>3. QED
      BY <1>2, <3>1, <3>2, StoreCube DEF CubeInv
  <2>3. QED
    BY <2>1, <2>2
<1>3. CASE Crash \/ Stop
  <2>1. /\ running_size' = 0 /\ fits_cube' = {} /\ cube' = cube
    BY <1>3 DEF Crash, Stop, Vanish
  <2>2. Frame' = 0 /\ Start' = 0 /\ Frames' = Frames /\ Pixels' = Pixels
    <3>1. 0 = 0 * cube.plane + 0 /\ 0 \in 0 .. cube.plane - 1 /\ cube.plane \in Nat \ {0}
      BY CubeTyped
    <3>2. 0 \div cube.plane = 0 /\ 0 % cube.plane = 0
      BY <3>1, DivModUnique
    <3>3. QED
      BY <2>1, <3>2 DEF Frame, Start, Frames, Pixels
  <2>3. running_size' < Pixels'
    BY <2>1, <2>2, Lengths
  <2>4. (Passed(Frame, Start))'
    BY <2>1, <2>2, CubeTyped DEF Passed, Block, Frames
  <2>5. QED
    BY <2>1, <2>3, <2>4 DEF CubeInv
<1>4. QED
  <2>1. CASE \/ Create \/ Deserialise \/ TransferEnds \/ Accept \/ Reject \/ Rename
             \/ Return
             \/ (\E r \in Requests : Ask(r) \/ Answer(r))
             \/ (\E n \in 1 .. Unit : ReceiveHeader(n) \/ ReceivePadding(n))
             \/ UNCHANGED vars
    <3>1. CASE Deserialise
      BY <1>1, <3>1 DEF Deserialise, NothingToRestore, ReadFields, RestoreAll, RestorePart,
                        Restore
    <3>2. CASE ~ Deserialise
      BY <1>1, <2>1, <3>2 DEF Create, TransferEnds, Accept, Reject, Rename, Return, Ask,
                              Answer, ReceiveHeader, ReceivePadding, vars
    <3>3. QED
      BY <3>1, <3>2
  <2>2. CASE Begin
    <3>1. UNCHANGED <<cube, bSuccess, running_size, fits_cube, compressed>>
          /\ (~ starved' => ~ starved)
      BY <2>2 DEF Begin
    <3>2. QED
      BY <3>1 DEF CubeInv, Frames, Passed, Complete, Frame, Start, Pixels, Block
  <2>3. QED
    BY <1>2, <1>3, <2>1, <2>2 DEF Next, Receive, Judge

\* An accepted or restored cube has every frame, for every depth.
THEOREM CubeKeptHolds == Spec => []CubeKept
<1> DEFINE Inv == JudgedInv /\ CubeInv
<1>1. Init => Inv
  BY JudgedInit, CubeInit
<1>2. Inv /\ [Next]_vars => Inv'
  BY JudgedStep, CubeStep DEF JudgedInv
<1>3. ASSUME Inv PROVE CubeKept
  <2> USE DEF JudgedInv, JudgeInv
  <2>1. SUFFICES ASSUME phase \in {"accepted", "judged", "done", "restored"},
                        flags.has_data, cube.depth > 1, ~ starved
                 PROVE  /\ \A f \in Frames :
                              \/ f \in fits_cube
                              \/ Block(f) \in IF phase = "restored" THEN cached ELSE compressed
                        /\ cube.depth >= 4 => fits_cube = {}
    BY DEF CubeKept, Block
  <2>2. CASE phase = "restored"
    <3>1. Mapped /\ fits_cube = {}
      BY <1>3, <2>1, <2>2 DEF FlagsInv, StreamInv, FreshInv, Reset
    <3>2. ASSUME NEW f \in Frames PROVE Block(f) \in cached
      <4>1. cube.depth \in Nat /\ cube.depth # 1
        BY <1>3, <2>1, CubeTyped DEF Typed, TypeOK
      <4>2. f \in Nat /\ f < cube.depth
        BY <3>2, <4>1 DEF Frames
      <4>3. Block(f) \in Nat /\ Block(f) <= f /\ Block(f) % 4 = 0
        BY <4>2, Blocks
      <4>4. Block(f) \in Frames
        BY <4>1, <4>2, <4>3 DEF Frames
      <4>5. Block(f) \in AllBlocks
        BY <4>1, <4>3, <4>4 DEF AllBlocks
      <4>6. QED
        BY <3>1, <4>5 DEF Mapped
    <3>3. QED
      BY <2>2, <3>1, <3>2
  <2>3. CASE phase # "restored"
    <3>1. Accepted
      BY <1>3, <2>1, <2>3 DEF FlagsInv
    <3>2. running_size = Pixels /\ bSuccess
      BY <1>3, <3>1, AcceptedArrived DEF Accepted
    <3>3. ~ (running_size < Pixels)
      BY <1>3, <3>2 DEF Typed, TypeOK
    <3>4. Complete
      BY <1>3, <2>1, <3>2, <3>3 DEF CubeInv
    <3>5. QED
      BY <2>3, <3>4 DEF Complete
  <2>4. QED
    BY <2>2, <2>3
<1>4. QED
  BY <1>1, <1>2, <1>3, PTL DEF Spec

(***************************************************************************)
(* The flags, one by one.  An assignment takes one back only if an earlier *)
(* run announced data that is not there.                                   *)
(***************************************************************************)

\* A step of the server that runs on.
LEMMA FlagsStand ==
    ASSUME Typed, StreamInv, JudgeInv, [Next]_vars, phase' # "down",
           NEW f \in FlagNames, flags[f]
    PROVE  flags'[f] \/ (f = "has_data" /\ Stale)
<1> USE DEF Typed, TypeOK, Flags, FlagNames
<1>1. CASE flags' = flags
  BY <1>1
<1>2. ASSUME NEW n \in 1 .. Unit, ReceiveHeader(n) PROVE flags'[f]
  <2>1. flags' = flags \/ flags' = HeaderFlags
    BY <1>2 DEF ReceiveHeader
  <2>2. QED
    BY <2>1 DEF HeaderFlags
<1>3. CASE ReadFields
  <2>1. flags = Defaults
    BY <1>3 DEF ReadFields, StreamInv, FreshInv
  <2>2. QED
    BY <2>1 DEF Defaults
<1>4. ASSUME NEW everything \in BOOLEAN, Restore(everything) PROVE flags'[f] \/ (f = "has_data" /\ Stale)
  <2>1. /\ ~ flags.processed_data /\ (flags.has_data => saved.data)
        /\ flags' = [flags EXCEPT !.has_data = flags.has_data /\ saved.image,
                                 !.processed_header = TRUE, !.processed_data = everything]
    BY <1>4 DEF Restore, JudgeInv, FlagsInv
  <2>2. f # "processed_data"
    BY <2>1
  <2>3. CASE f = "has_data"
    <3>1. flags.has_data /\ saved.data
      BY <2>1, <2>3
    <3>2. saved.image => flags'.has_data
      BY <2>1, <3>1
    <3>3. QED
      BY <2>3, <3>1, <3>2 DEF Stale
  <2>4. CASE f # "has_data"
    BY <2>1, <2>2, <2>4
  <2>5. QED
    BY <2>3, <2>4
<1>5. CASE Accept
  BY <1>5 DEF Accept
<1>6. CASE Reject
  <2>1. flags.has_data => Stale
    BY <1>6 DEF Reject, JudgeInv, FlagsInv
  <2>2. flags' = [flags EXCEPT !.has_data = FALSE, !.has_error = TRUE]
    BY <1>6 DEF Reject
  <2>3. CASE f = "has_data"
    BY <2>1, <2>3
  <2>4. CASE f # "has_data"
    BY <2>2, <2>4
  <2>5. QED
    BY <2>3, <2>4
<1>7. CASE Return
  BY <1>7 DEF Return, Announce
<1>8. QED
  <2>1. CASE \/ Create \/ NothingToRestore \/ Begin \/ TransferEnds \/ Rename
             \/ (\E r \in Requests : Ask(r) \/ Answer(r))
             \/ (\E n \in 1 .. Unit : ReceiveData(n) \/ ReceivePadding(n))
             \/ UNCHANGED vars
    BY <1>1, <2>1 DEF Create, NothingToRestore, Begin, TransferEnds, Rename, Ask, Answer,
                      ReceiveData, ReceivePadding, vars
  <2>2. CASE RestoreAll \/ RestorePart
    BY <1>4, <2>2 DEF RestoreAll, RestorePart
  <2>3. ~ Crash /\ ~ Stop
    BY DEF Crash, Stop, Vanish
  <2>4. QED
    BY <1>2, <1>3, <1>5, <1>6, <1>7, <2>1, <2>2, <2>3, Zenon
       DEF Next, Receive, Judge, Deserialise

\* What was announced of a dataset stands as long as the server runs, except for data
\* that an earlier run announced and that is not there.
THEOREM AnnouncedStandsHolds == Spec => AnnouncedStands
<1> DEFINE Stands ==
        phase' # "down" =>
            \A f \in FlagNames : flags[f] => flags'[f] \/ (f = "has_data" /\ Stale)
<1>1. JudgedInv /\ [Next]_vars => [Stands]_vars
  BY FlagsStand DEF JudgedInv
<1>2. QED
  BY <1>1, JudgedInit, JudgedStep, PTL DEF Spec, AnnouncedStands

(***************************************************************************)
(* Download implements DownloadService.                                    *)
(***************************************************************************)

Up == phase # "down"
Verdict ==
    IF phase \notin {"judged", "done", "restored"} THEN "none"
    ELSE IF flags.has_data THEN "data" ELSE "failed"
Answers == [r \in DataRequests |-> request[r]]

\* What the service does not see.
LEMMA Unseen ==
    ASSUME Up' = Up, Verdict' = Verdict, Stored' = Stored, saved'.error = saved.error,
           Answers' = Answers
    PROVE  UNCHANGED Service!vars
  BY DEF Service!vars, Up, Verdict, Stored, Answers

LEMMA ServiceInit == Init => Service!Init
<1> SUFFICES ASSUME Init PROVE Service!Init
  OBVIOUS
<1>1. phase = "down" /\ file["fits"] = NoFile /\ saved.error = FALSE
  BY DEF Init, NothingSaved
<1>2. [r \in DataRequests |-> request[r]] = [r \in DataRequests |-> "idle"]
  BY DEF Init, Requests
<1>3. QED
  BY <1>1, <1>2 DEF Service!Init

\* A decision: data only with a complete file.
LEMMA Decides ==
    ASSUME phase # "down", phase' # "down", Verdict = "none",
           phase' \in {"judged", "done", "restored"}, flags' \in Flags,
           UNCHANGED <<saved, request>>,
           IF flags'.has_data THEN Stored' ELSE Stored' = Stored
    PROVE  Service!Decide
<1>1. Answers' = Answers
  BY DEF Answers
<1>2. CASE flags'.has_data
  BY <1>1, <1>2 DEF Service!Decide, Verdict, Answers, Stored
<1>3. CASE ~ flags'.has_data
  BY <1>1, <1>3 DEF Service!Decide, Verdict, Answers, Stored
<1>4. QED
  BY <1>2, <1>3

\* Between the decision and the end of the server the verdict is in has_data, and the
\* complete file has its name before anyone else can read that flag under the mutex.
LEMMA ServiceStep ==
    ASSUME JudgedInv, JudgedInv', [Next]_vars
    PROVE  [Service!Next]_(Service!vars)
<1> USE DEF JudgedInv, Typed, TypeOK, download, cache
<1> DEFINE Goal == [Service!Next]_(Service!vars)
<1>1. ASSUME Create PROVE Goal
  <2>1. Answers' = Answers /\ Stored' = Stored
    BY <1>1, FileKept DEF Create, Answers
  <2>2. Service!Open
    BY <1>1, <2>1 DEF Create, Service!Open, Answers, Stored
  <2>3. QED
    BY <2>2 DEF Service!Next
<1>2. ASSUME phase # "down", phase' # "down", Verdict' = Verdict, cube' = cube,
             UNCHANGED <<saved, request>>, file'["fits"] = file["fits"]
      PROVE  Goal
  <2>1. Up' = Up /\ Stored' = Stored /\ Answers' = Answers
    BY <1>2, FileKept DEF Up, Answers
  <2>2. QED
    BY <1>2, <2>1, Unseen
<1>3. ASSUME Deserialise PROVE Goal
  <2>1. /\ phase \in {"created", "read"} /\ phase' \in {"read", "opened", "restored"}
        /\ UNCHANGED <<cube, file, saved, request>>
    BY <1>3 DEF Deserialise, NothingToRestore, ReadFields, RestoreAll, RestorePart, Restore
  <2>2. CASE phase' # "restored"
    <3>1. Verdict' = Verdict
      BY <2>1, <2>2 DEF Verdict
    <3>2. QED
      BY <1>2, <2>1, <3>1
  <2>3. CASE phase' = "restored"
    <3>1. Stored' = Stored
      BY <2>1, FileKept
    <3>2. flags'.has_data => Stored'
      BY <2>3 DEF JudgeInv, FlagsInv, SavedInv
    <3>3. Service!Decide
      BY <2>1, <2>3, <3>1, <3>2, Decides DEF Verdict
    <3>4. QED
      BY <3>3 DEF Service!Next
  <2>4. QED
    BY <2>2, <2>3
<1>4. ASSUME Begin PROVE Goal
  <2>1. /\ phase = "opened" /\ phase' \in {"transfer", "judged"}
        /\ UNCHANGED <<cube, saved, flags, request>>
        /\ file'["fits"] = file["fits"]
    BY <1>4 DEF Begin
  <2>2. CASE phase' = "transfer"
    <3>1. Verdict' = Verdict
      BY <2>1, <2>2 DEF Verdict
    <3>2. QED
      BY <1>2, <2>1, <2>2, <3>1
  <2>3. CASE phase' = "judged"
    <3>1. Stored' = Stored
      BY <2>1, FileKept
    <3>2. flags'.has_data => Stored'
      BY <2>3 DEF JudgeInv, FileInv
    <3>3. Service!Decide
      BY <2>1, <2>3, <3>1, <3>2, Decides DEF Verdict
    <3>4. QED
      BY <3>3 DEF Service!Next
  <2>4. QED
    BY <2>1, <2>2, <2>3
<1>5. ASSUME NEW n \in 1 .. Unit, Receive(n) PROVE Goal
  <2>1. phase = "transfer" /\ Write(n) /\ UNCHANGED <<cube, saved, request>>
    BY <1>5 DEF Receive, ReceiveHeader, ReceiveData, ReceivePadding
  <2>2. phase' \in {"transfer", "ended"} /\ file'["fits"] = file["fits"]
    BY <2>1, Sizes, WriteEffect
  <2>3. Verdict' = Verdict
    BY <2>1, <2>2 DEF Verdict
  <2>4. QED
    BY <1>2, <2>1, <2>2, <2>3
<1>6. ASSUME TransferEnds \/ Accept PROVE Goal
  <2>1. /\ phase \in {"transfer", "ended"} /\ phase' \in {"ended", "accepted"}
        /\ UNCHANGED <<cube, saved, request>> /\ file'["fits"] = file["fits"]
    BY <1>6 DEF TransferEnds, Accept
  <2>2. Verdict' = Verdict
    BY <2>1 DEF Verdict
  <2>3. QED
    BY <1>2, <2>1, <2>2
<1>7. ASSUME Reject PROVE Goal
  <2>1. /\ phase = "ended" /\ phase' = "judged" /\ UNCHANGED <<cube, saved, request>>
        /\ file'["fits"] = file["fits"]
        /\ flags' = [flags EXCEPT !.has_data = FALSE, !.has_error = TRUE]
    BY <1>7 DEF Reject
  <2>2. Stored' = Stored /\ ~ flags'.has_data
    BY <2>1, FileKept DEF Flags
  <2>3. Service!Decide
    BY <2>1, <2>2, Decides DEF Verdict
  <2>4. QED
    BY <2>3 DEF Service!Next
<1>8. ASSUME Rename PROVE Goal
  <2>1. phase = "accepted" /\ phase' = "judged" /\ UNCHANGED <<saved, flags, request>>
    BY <1>8 DEF Rename
  <2>2. flags'.has_data /\ Stored'
    BY <2>1 DEF JudgeInv, FlagsInv, FileInv
  <2>3. Service!Decide
    BY <2>1, <2>2, Decides DEF Verdict
  <2>4. QED
    BY <2>3 DEF Service!Next
<1>9. ASSUME Return PROVE Goal
  <2>1. /\ phase = "judged" /\ phase' = "done" /\ UNCHANGED <<cube, file, saved, request>>
        /\ flags' = [flags EXCEPT !.processed_data = TRUE]
    BY <1>9 DEF Return, Announce
  <2>2. flags'.has_data = flags.has_data
    BY <2>1 DEF Flags
  <2>3. Verdict' = Verdict
    BY <2>1, <2>2 DEF Verdict
  <2>4. QED
    BY <1>2, <2>1, <2>3
<1>10. ASSUME Crash \/ Stop PROVE Goal
  <2>1. phase # "down" /\ phase' = "down" /\ UNCHANGED <<cube, file>>
        /\ request' = [r \in Requests |-> "idle"]
    BY <1>10 DEF Crash, Stop, Vanish
  <2>2. Stored' = Stored
    BY <2>1, FileKept
  <2>3. Answers' = [r \in DataRequests |-> "idle"]
    BY <2>1 DEF Answers, Requests
  <2>4. saved'.error = saved.error \/ (Verdict = "failed" /\ saved'.error = TRUE)
    <3>1. CASE Crash
      BY <3>1 DEF Crash
    <3>2. CASE Stop
      <4>1. PICK image \in SavedImage :
              saved' = IF saved.json \/ hdr_len = 0 THEN [saved EXCEPT !.image = image]
                       ELSE [json |-> TRUE, whole |-> hdr_end, data |-> flags.has_data,
                             error |-> flags.has_error, image |-> image]
        BY <3>2 DEF Stop
      <4>2. CASE saved.json \/ hdr_len = 0
        BY <4>1, <4>2 DEF Saved
      <4>3. CASE ~ (saved.json \/ hdr_len = 0)
        <5>1. saved'.error = flags.has_error /\ saved.error = FALSE
          BY <4>1, <4>3 DEF JudgeInv, SavedInv, Saved
        <5>2. flags.has_error => Verdict = "failed"
          BY <5>1 DEF Verdict, JudgeInv, FlagsInv
        <5>3. flags.has_error \in BOOLEAN
          BY DEF Flags
        <5>4. QED
          BY <5>1, <5>2, <5>3
      <4>4. QED
        BY <4>2, <4>3
    <3>3. QED
      BY <1>10, <3>1, <3>2
  <2>5. Service!Stop
    BY <2>1, <2>2, <2>3, <2>4 DEF Service!Stop, Answers, Stored, Verdict
  <2>6. QED
    BY <2>5 DEF Service!Next
<1>11. ASSUME NEW r \in Requests, NEW a \in {"waiting", "found", "missing"},
              request' = [request EXCEPT ![r] = a],
              UNCHANGED <<cube, phase, file, saved, flags>>,
              r \in DataRequests =>
                \/ Up /\ request[r] # "waiting" /\ a = "waiting"
                \/ Verdict = "data" /\ request[r] = "waiting" /\ a = "found"
                \/ Up /\ (Verdict = "failed" \/ saved.error) /\ a = "missing"
      PROVE  Goal
  <2>1. Up' = Up /\ Verdict' = Verdict /\ Stored' = Stored
    BY <1>11, FileKept DEF Up, Verdict
  <2>2. CASE r \notin DataRequests
    <3>1. Answers' = Answers
      BY <1>11, <2>2 DEF Answers, Requests
    <3>2. QED
      BY <1>11, <2>1, <3>1, Unseen
  <2>3. CASE r \in DataRequests
    <3>1. Answers' = [Answers EXCEPT ![r] = a] /\ Answers[r] = request[r]
      BY <1>11, <2>3 DEF Answers, Requests
    <3>2. Service!Ask(r) \/ Service!Answer(r)
      <4>1. CASE Up /\ request[r] # "waiting" /\ a = "waiting"
        BY <1>11, <2>1, <3>1, <4>1 DEF Service!Ask, Up, Verdict, Stored, Answers
      <4>2. CASE Verdict = "data" /\ request[r] = "waiting" /\ a = "found"
        BY <1>11, <2>1, <3>1, <4>2 DEF Service!Answer, Up, Verdict, Stored, Answers
      <4>3. CASE Up /\ (Verdict = "failed" \/ saved.error) /\ a = "missing"
        BY <1>11, <2>1, <3>1, <4>3 DEF Service!Answer, Up, Verdict, Stored, Answers
      <4>4. QED
        BY <1>11, <2>3, <4>1, <4>2, <4>3
    <3>3. QED
      BY <2>3, <3>2 DEF Service!Next
  <2>4. QED
    BY <2>2, <2>3
<1>12. ASSUME NEW r \in Requests, Ask(r) PROVE Goal
  <2>1. /\ phase # "down" /\ request[r] # "waiting"
        /\ request' = [request EXCEPT ![r] = IF flags.has_error THEN "missing" ELSE "waiting"]
        /\ UNCHANGED <<cube, phase, file, saved, flags>>
    BY <1>12 DEF Ask
  <2>2. flags.has_error => Verdict = "failed" \/ saved.error
    BY DEF Verdict, JudgeInv, FlagsInv
  <2>3. QED
    BY <1>11, <2>1, <2>2 DEF Up
<1>13. ASSUME NEW r \in Requests, Answer(r) PROVE Goal
  <2>1. /\ request[r] = "waiting"
        /\ request' = [request EXCEPT ![r] = IF Has(r) THEN "found" ELSE "missing"]
        /\ UNCHANGED <<cube, phase, file, saved, flags>>
    BY <1>13 DEF Answer
  <2>2. r \in DataRequests =>
          Has(r) = flags.has_data /\ Processed(r) = flags.processed_data
    BY RequestsAssumption DEF Has, Processed
  <2>3. ASSUME r \in DataRequests
        PROVE  Up /\ Verdict = IF flags.has_data THEN "data" ELSE "failed"
    <3>0. flags.processed_data
      BY <1>13, <2>2, <2>3 DEF Answer
    <3>1. phase \notin {"down", "created", "read", "opened"}
      BY <3>0 DEF StreamInv, FreshInv, Defaults, JudgeInv, FlagsInv
    <3>2. phase \in {"done", "restored"}
      BY <1>13, <3>1 DEF Answer, Locked, Phases
    <3>3. QED
      BY <3>2 DEF Up, Verdict
  <2>4. QED
    BY <1>11, <2>1, <2>2, <2>3
<1>14. ASSUME UNCHANGED vars PROVE Goal
  BY <1>14 DEF vars, Service!vars, DataEnd, Pixels, Lost, DiskShort
<1>15. QED
  BY <1>1, <1>3, <1>4, <1>5, <1>6, <1>7, <1>8, <1>9, <1>10, <1>12, <1>13, <1>14
     DEF Next, Judge

\* from_url, its callbacks and the handlers that wait act like a service that decides
\* once, for every cube, chunking and number of requests.
THEOREM DownloadServesData == Spec => ServesData
<1>1. JudgedInv /\ JudgedInv' /\ [Next]_vars => [Service!Next]_(Service!vars)
  BY ServiceStep
<1>2. QED
  BY <1>1, ServiceInit, JudgedInit, JudgedStep, PTL DEF Spec, ServesData, Service!Spec

=============================================================================
