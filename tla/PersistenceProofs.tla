-------------------------- MODULE PersistenceProofs --------------------------
(***************************************************************************)
(* What Persistence promises, proved for any number of blocks and any set  *)
(* of regions.  Type correctness holds whatever fails; that what is        *)
(* committed or ready is complete, that a commit stays as it is, that      *)
(* announcements stand and that the cache is a store, in the absence of    *)
(* Faults, with crashes at any moment.                                     *)
(***************************************************************************)
EXTENDS Persistence, TLAPS

USE NoJsonAssumption

LEMMA InitType == Init => TypeOK
  <1> SUFFICES ASSUME Init PROVE TypeOK
    OBVIOUS
  <1>1. disk \in [Kinds -> [Blocks -> File]]
    <2>1. Empty \in File
      BY DEF Empty, File, Tears
    <2> QED
      BY <2>1 DEF Init
  <1>2. unsaved \in [Kinds -> [Blocks -> SUBSET Regions]]
    BY DEF Init, NothingUnsaved
  <1>3. flags \in Flags
    BY DEF Init, Defaults, Flags
  <1> QED
    BY <1>1, <1>2, <1>3 DEF Init, TypeOK, Sources, Planes, Images, Phases, Restoring, Closing, Headers,
                            NoBlocks, NoImage

LEMMA NextType == TypeOK /\ [Next]_vars => TypeOK'
  <1> SUFFICES ASSUME TypeOK, [Next]_vars PROVE TypeOK'
    OBVIOUS

  <1>1. CASE Start
    BY <1>1 DEF Start, TypeOK, Phases, Restoring, Closing, memory

  <1>2. CASE NothingToRestore
    BY <1>2 DEF NothingToRestore, TypeOK, Phases, Restoring, Closing, memory

  <1>3. CASE ReadJson
    <2>1. json \in Json
      BY <1>3 DEF ReadJson, TypeOK
    <2>2. flags' \in Flags /\ header' \in Headers
      BY <1>3, <2>1 DEF ReadJson, Json, Flags, TypeOK
    <2> QED
      BY <1>3, <2>2 DEF ReadJson, TypeOK, Phases, Restoring, Closing

  <1>21. ASSUME NEW p \in Planes, MapPlane(p) PROVE TypeOK'
    BY <1>21 DEF MapPlane, TypeOK, Phases, Restoring, Closing, Flags

  <1>22. CASE HeaderRestored
    BY <1>22 DEF HeaderRestored, TypeOK, Phases, Restoring, Closing, Flags

  <1>4. ASSUME NEW b \in Blocks, MapBlock(b) PROVE TypeOK'
    BY <1>4 DEF MapBlock, TypeOK, Phases, Restoring, Closing, Sources

  <1>5. CASE MapEnd
    BY <1>5 DEF MapEnd, Announced, TypeOK, Phases, Restoring, Closing, Flags

  <1>6. CASE OpenFails
    BY <1>6 DEF OpenFails, Processed, TypeOK, Phases, Restoring, Closing, Flags, Headers

  <1>7. CASE AlreadyProcessed
    BY <1>7 DEF AlreadyProcessed, TypeOK, Phases, Restoring, Closing, memory

  <1>8. CASE Unsupported
    BY <1>8 DEF Unsupported, Processed, HeaderRead, TypeOK, Phases, Restoring, Closing, Flags, Headers

  <1>9. CASE ReadHeader
    BY <1>9 DEF ReadHeader, HeaderRead, TypeOK, Phases, Restoring, Closing, Flags, Headers, Sources,
                NoBlocks

  <1>10. ASSUME NEW b \in Blocks, ReadBlock(b) PROVE TypeOK'
    BY <1>10 DEF ReadBlock, TypeOK, Phases, Restoring, Closing, Sources

  <1>11. ASSUME NEW b \in Blocks, ReadBlockFails(b) PROVE TypeOK'
    <2>1. blocks' \in [Blocks -> Sources]
      BY <1>11 DEF ReadBlockFails, TypeOK, Sources
    <2>2. UNCHANGED <<disk, image, json, phase, unsaved, img, header, flags, orphan>>
      BY <1>11 DEF ReadBlockFails
    <2>3. todo' \in SUBSET Blocks /\ bSuccess' \in BOOLEAN
      BY <1>11 DEF ReadBlockFails, TypeOK
    <2> QED
      BY <2>1, <2>2, <2>3 DEF TypeOK

  <1>12. CASE ReadEnd
    BY <1>12 DEF ReadEnd, Outcome, TypeOK, Phases, Restoring, Closing, Flags

  <1>13. CASE Destroy
    BY <1>13 DEF Destroy, TypeOK, Phases, Restoring, Closing

  <1>14. ASSUME NEW kind \in Kinds, NEW b \in Blocks, NEW r \in Regions, Append(kind, b, r)
         PROVE  TypeOK'
    <2>1. disk[kind][b] \in File
      BY DEF TypeOK
    <2>2. /\ Appended(disk[kind][b], r, blocks[b] = "good") \in File
          /\ AppendedShort(disk[kind][b], r, "write") \in File
      BY <2>1 DEF Appended, AppendedShort, File, Tears
    <2>3. \A file \in File : Saved(kind, b, file) \in [Kinds -> [Blocks -> File]]
      BY DEF Saved, TypeOK
    <2>4. disk' \in [Kinds -> [Blocks -> File]]
      BY <1>14, <2>2, <2>3 DEF Append, TypeOK
    <2>5. unsaved' \in [Kinds -> [Blocks -> SUBSET Regions]]
      BY <1>14 DEF Append, TypeOK
    <2> QED
      BY <1>14, <2>4, <2>5 DEF Append, TypeOK

  <1>15. CASE DropEnd
    BY <1>15 DEF DropEnd, TypeOK, Phases, Restoring, Closing, memory

  <1>16. ASSUME NEW p \in Planes, SaveImage(p) PROVE TypeOK'
    BY <1>16 DEF SaveImage, TypeOK, Phases, Restoring, Closing, memory, Planes, Images

  <1>17. CASE Serialise
    BY <1>17 DEF Serialise, Vanish, TypeOK, Phases, Restoring, Closing, Json, Flags, Headers, Sources,
                NoBlocks, NoImage, NothingUnsaved, Defaults

  <1>18. CASE SerialiseCrashes
    BY <1>18 DEF SerialiseCrashes, Vanish, Orphaned, TypeOK, Phases, Restoring, Closing, Flags,
                Headers, Sources, NoBlocks, NoImage, NothingUnsaved, Defaults

  <1>19. CASE Crash
    <2>1. disk' \in [Kinds -> [Blocks -> File]]
      <3>1. CASE TornRecord
        <4>1. PICK kind \in Kinds, b \in Blocks : \E r \in unsaved[kind][b] :
                disk' = Saved(kind, b, AppendedShort(disk[kind][b], r, "crash"))
          BY <3>1 DEF TornRecord
        <4>2. PICK r \in unsaved[kind][b] :
                disk' = Saved(kind, b, AppendedShort(disk[kind][b], r, "crash"))
          BY <4>1
        <4>3. disk[kind][b] \in File /\ r \in Regions
          BY DEF TypeOK
        <4>4. AppendedShort(disk[kind][b], r, "crash") \in File
          BY <4>3 DEF AppendedShort, File, Tears
        <4> QED
          BY <4>2, <4>4 DEF Saved, TypeOK
      <3>2. CASE disk' = disk
        BY <3>2 DEF TypeOK
      <3> QED
        BY <1>19, <3>1, <3>2 DEF Crash, TornPlane
    <2>2. image' \in [Planes -> Images]
      BY <1>19 DEF Crash, TornRecord, TornPlane, TypeOK, Images
    <2> QED
      BY <1>19, <2>1, <2>2 DEF Crash, Vanish, Orphaned, TypeOK, Phases, Restoring, Closing, Flags,
         Headers, Sources, NoBlocks, NoImage, NothingUnsaved, Defaults

  <1>20. CASE UNCHANGED vars
    BY <1>20 DEF TypeOK, vars, memory

  <1> QED
    BY <1>1, <1>2, <1>3, <1>4, <1>5, <1>6, <1>7, <1>8, <1>9, <1>10, <1>11, <1>12,
       <1>13, <1>14, <1>15, <1>16, <1>17, <1>18, <1>19, <1>20, <1>21, <1>22 DEF Next, Loader,
       Destructor


\* The on-disk files and the memory of the FITS object keep the shape the model
\* gives them in every run of deserialise, from_path and ~FITS.
THEOREM TypeCorrect == Spec => []TypeOK
  BY InitType, NextType, PTL DEF Spec

-----------------------------------------------------------------------------
(* The inductive invariant.                                                 *)

LEMMA InitInv == Init => IInv
  BY DEF Init, IInv, SavedInv, LoadInv, FreshInv, CommitInv, ReadyIsComplete,
         Committed, Defaults, NoImage, Closing, Restoring, Empty

\* A crash tears a file in its own name only.
LEMMA CrashTears ==
    ASSUME TypeOK, TornRecord,
           \A kind \in Kinds, b \in Blocks : disk[kind][b].torn # "write"
    PROVE  \A kind \in Kinds, b \in Blocks : disk'[kind][b].torn # "write"
  <1>1. PICK k \in Kinds, c \in Blocks : \E r \in unsaved[k][c] :
            disk' = Saved(k, c, AppendedShort(disk[k][c], r, "crash"))
    BY DEF TornRecord
  <1>2. PICK r \in unsaved[k][c] :
            disk' = Saved(k, c, AppendedShort(disk[k][c], r, "crash"))
    BY <1>1
  <1>3. AppendedShort(disk[k][c], r, "crash").torn # "write"
    BY DEF AppendedShort
  <1> QED
    BY <1>2, <1>3 DEF Saved, TypeOK

LEMMA NextInv ==
  ASSUME Faults = {}, TypeOK, IInv, [Next]_vars
  PROVE  IInv'
  <1> USE DEF IInv
  <1>1. CASE Start
    <2>1. SavedInv'
      BY <1>1 DEF Start, memory, TypeOK, SavedInv, Closing, Restoring
    <2>2. LoadInv'
      BY <1>1 DEF Start, memory, TypeOK, LoadInv, Committed, Restoring
    <2>3. FreshInv'
      BY <1>1 DEF Start, memory, TypeOK, FreshInv, Closing, Restoring, RightSize
    <2>4. CommitInv'
      BY <1>1 DEF Start, memory, TypeOK, CommitInv, Committed, Whole
    <2>5. ReadyIsComplete'
      BY <1>1 DEF Start, ReadyIsComplete
    <2> QED
      BY <2>1, <2>2, <2>3, <2>4, <2>5 DEF IInv
  <1>2. CASE NothingToRestore
    <2>1. SavedInv'
      BY <1>2 DEF NothingToRestore, memory, TypeOK, SavedInv, Closing, Restoring
    <2>2. LoadInv'
      BY <1>2 DEF NothingToRestore, memory, TypeOK, LoadInv, Committed, Restoring, FreshInv
    <2>3. FreshInv'
      BY <1>2 DEF NothingToRestore, memory, TypeOK, FreshInv, Closing, Restoring, RightSize
    <2>4. CommitInv'
      BY <1>2 DEF NothingToRestore, memory, TypeOK, CommitInv, Committed, Whole
    <2>5. ReadyIsComplete'
      BY <1>2 DEF NothingToRestore, ReadyIsComplete
    <2> QED
      BY <2>1, <2>2, <2>3, <2>4, <2>5 DEF IInv
  <1>3. CASE ReadJson
    <2>1. SavedInv'
      BY <1>3 DEF ReadJson, TypeOK, SavedInv, Closing, Restoring, Json, Flags
    <2>2. LoadInv'
      BY <1>3 DEF ReadJson, TypeOK, LoadInv, Committed, Restoring, Json, Flags
    <2>3. FreshInv'
      BY <1>3 DEF ReadJson, TypeOK, FreshInv, Closing, Restoring, Json, Flags
    <2>4. CommitInv'
      BY <1>3 DEF ReadJson, TypeOK, CommitInv, Committed, Whole, LoadInv, Whole, Restoring, Json, Flags
    <2>5. ReadyIsComplete'
      BY <1>3 DEF ReadJson, ReadyIsComplete
    <2> QED
      BY <2>1, <2>2, <2>3, <2>4, <2>5 DEF IInv
  <1>21. ASSUME NEW q \in Planes, MapPlane(q) PROVE IInv'
    <2>1. SavedInv'
      BY <1>21 DEF MapPlane, TypeOK, SavedInv, Closing, Restoring, Flags
    <2>2. LoadInv'
      BY <1>21 DEF MapPlane, TypeOK, LoadInv, Committed, Restoring, Flags
    <2>3. FreshInv'
      BY <1>21 DEF MapPlane, TypeOK, FreshInv, Closing, Restoring, Flags
    <2>4. CommitInv'
      BY <1>21 DEF MapPlane, TypeOK, CommitInv, Committed, Whole, LoadInv, Whole, Restoring, Flags
    <2>5. ReadyIsComplete'
      BY <1>21 DEF MapPlane, ReadyIsComplete
    <2> QED
      BY <2>1, <2>2, <2>3, <2>4, <2>5 DEF IInv
  <1>22. CASE HeaderRestored
    <2>1. SavedInv'
      BY <1>22 DEF HeaderRestored, TypeOK, SavedInv, Closing, Restoring, Flags
    <2>2. LoadInv'
      BY <1>22 DEF HeaderRestored, TypeOK, LoadInv, Committed, Restoring, Flags
    <2>3. FreshInv'
      BY <1>22 DEF HeaderRestored, TypeOK, FreshInv, Closing, Restoring, Flags
    <2>4. CommitInv'
      BY <1>22 DEF HeaderRestored, TypeOK, CommitInv, Committed, Whole, LoadInv, Whole, Restoring, Flags
    <2>5. ReadyIsComplete'
      BY <1>22 DEF HeaderRestored, ReadyIsComplete
    <2> QED
      BY <2>1, <2>2, <2>3, <2>4, <2>5 DEF IInv
  <1>4. ASSUME NEW c \in Blocks, MapBlock(c) PROVE IInv'
    <2>1. SavedInv'
      BY <1>4 DEF MapBlock, Mappable, TypeOK, SavedInv, Closing, Restoring
    <2>2. LoadInv'
      BY <1>4 DEF MapBlock, Mappable, TypeOK, LoadInv, Committed, Restoring
    <2>3. FreshInv'
      BY <1>4 DEF MapBlock, Mappable, TypeOK, FreshInv, Closing, Restoring, RightSize
    <2>4. CommitInv'
      <3> SUFFICES ASSUME Committed PROVE CommitInv'
        BY <1>4 DEF MapBlock, CommitInv, Committed, Whole
      <3>1. Mappable(c)
        BY RegionsAssumption DEF CommitInv, Whole, Complete, Empty, Mappable
      <3>2. blocks' = [blocks EXCEPT ![c] = "mmap"] /\ UNCHANGED bSuccess
        BY <1>4, <3>1 DEF MapBlock
      <3> QED
        BY <1>4, <3>2 DEF MapBlock, TypeOK, CommitInv, Committed, Whole
    <2>5. ReadyIsComplete'
      BY <1>4 DEF MapBlock, ReadyIsComplete
    <2> QED
      BY <2>1, <2>2, <2>3, <2>4, <2>5 DEF IInv
  <1>5. CASE MapEnd
    <2>1. SavedInv'
      BY <1>5 DEF MapEnd, Announced, TypeOK, SavedInv, Closing, Restoring
    <2>2. LoadInv'
      BY <1>5 DEF MapEnd, Announced, TypeOK, LoadInv, Committed, Restoring
    <2>3. FreshInv'
      BY <1>5 DEF MapEnd, Announced, TypeOK, FreshInv, Closing, Restoring, RightSize
    <2>4. CommitInv'
      BY <1>5 DEF MapEnd, Announced, TypeOK, CommitInv, Committed, Whole
    <2>5. ReadyIsComplete'
      BY <1>5 DEF MapEnd, ReadyIsComplete
    <2> QED
      BY <2>1, <2>2, <2>3, <2>4, <2>5 DEF IInv
  <1>6. CASE OpenFails
    <2>1. SavedInv'
      BY <1>6 DEF OpenFails, Processed, TypeOK, SavedInv, Closing, Restoring
    <2>2. LoadInv'
      BY <1>6 DEF OpenFails, Processed, TypeOK, LoadInv, Committed, Restoring
    <2>3. FreshInv'
      BY <1>6 DEF OpenFails, Processed, TypeOK, FreshInv, Closing, Restoring, RightSize
    <2>4. CommitInv'
      BY <1>6 DEF OpenFails, Processed, TypeOK, CommitInv, Committed, Whole
    <2>5. ReadyIsComplete'
      BY <1>6 DEF OpenFails, Processed, TypeOK, ReadyIsComplete, AllThere, Whole, Committed, LoadInv,
                  CommitInv
    <2> QED
      BY <2>1, <2>2, <2>3, <2>4, <2>5 DEF IInv
  <1>7. CASE AlreadyProcessed
    <2>1. SavedInv'
      BY <1>7 DEF AlreadyProcessed, memory, TypeOK, SavedInv, Closing, Restoring
    <2>2. LoadInv'
      BY <1>7 DEF AlreadyProcessed, memory, TypeOK, LoadInv, Committed, Restoring
    <2>3. FreshInv'
      BY <1>7 DEF AlreadyProcessed, memory, TypeOK, FreshInv, Closing, Restoring, RightSize
    <2>4. CommitInv'
      BY <1>7 DEF AlreadyProcessed, memory, TypeOK, CommitInv, Committed, Whole
    <2>5. ReadyIsComplete'
      BY <1>7 DEF AlreadyProcessed, memory, TypeOK, ReadyIsComplete, AllThere, Whole, Committed,
                  LoadInv, CommitInv
    <2> QED
      BY <2>1, <2>2, <2>3, <2>4, <2>5 DEF IInv
  <1>8. CASE Unsupported
    <2>1. SavedInv'
      BY <1>8 DEF Unsupported, Processed, HeaderRead, TypeOK, SavedInv, Closing, Restoring
    <2>2. LoadInv'
      BY <1>8 DEF Unsupported, Processed, HeaderRead, TypeOK, LoadInv, Committed, Restoring
    <2>3. FreshInv'
      BY <1>8 DEF Unsupported, Processed, HeaderRead, TypeOK, FreshInv, Closing, Restoring,
                  RightSize
    <2>4. CommitInv'
      BY <1>8 DEF Unsupported, Processed, HeaderRead, TypeOK, CommitInv, Committed, Whole
    <2>5. ReadyIsComplete'
      BY <1>8 DEF Unsupported, Processed, HeaderRead, TypeOK, ReadyIsComplete,
                  Committed, LoadInv, CommitInv
    <2> QED
      BY <2>1, <2>2, <2>3, <2>4, <2>5 DEF IInv
  <1>9. CASE ReadHeader
    <2>1. SavedInv'
      BY <1>9 DEF ReadHeader, HeaderRead, NoBlocks, NoImage, TypeOK, SavedInv, Closing, Restoring
    <2>2. LoadInv'
      BY <1>9 DEF ReadHeader, HeaderRead, NoBlocks, NoImage, TypeOK, LoadInv, Committed, Restoring
    <2>3. FreshInv'
      BY <1>9 DEF ReadHeader, HeaderRead, NoBlocks, NoImage, TypeOK, FreshInv,
                  Closing, Restoring, RightSize
    <2>4. CommitInv'
      BY <1>9 DEF ReadHeader, HeaderRead, NoBlocks, NoImage, TypeOK, CommitInv,
                  Committed
    <2>5. ReadyIsComplete'
      BY <1>9 DEF ReadHeader, ReadyIsComplete
    <2> QED
      BY <2>1, <2>2, <2>3, <2>4, <2>5 DEF IInv
  <1>10. ASSUME NEW c \in Blocks, ReadBlock(c) PROVE IInv'
    <2>1. SavedInv'
      BY <1>10 DEF ReadBlock, TypeOK, SavedInv, Closing, Restoring
    <2>2. LoadInv'
      BY <1>10 DEF ReadBlock, TypeOK, LoadInv, Committed, Restoring
    <2>3. FreshInv'
      BY <1>10 DEF ReadBlock, TypeOK, FreshInv, Closing, Restoring, RightSize
    <2>4. CommitInv'
      BY <1>10 DEF ReadBlock, TypeOK, CommitInv, Committed, Whole
    <2>5. ReadyIsComplete'
      BY <1>10 DEF ReadBlock, ReadyIsComplete
    <2> QED
      BY <2>1, <2>2, <2>3, <2>4, <2>5 DEF IInv
  <1>11. ASSUME NEW c \in Blocks, ReadBlockFails(c) PROVE IInv'
    <2>1. SavedInv'
      BY <1>11 DEF ReadBlockFails, TypeOK, SavedInv, Closing, Restoring
    <2>2. LoadInv'
      BY <1>11 DEF ReadBlockFails, TypeOK, LoadInv, Committed, Restoring
    <2>3. FreshInv'
      BY <1>11 DEF ReadBlockFails, TypeOK, FreshInv, Closing, Restoring, RightSize
    <2>4. CommitInv'
      BY <1>11 DEF ReadBlockFails, TypeOK, CommitInv, Committed, Whole
    <2>5. ReadyIsComplete'
      BY <1>11 DEF ReadBlockFails, ReadyIsComplete
    <2> QED
      BY <2>1, <2>2, <2>3, <2>4, <2>5 DEF IInv
  <1>12. CASE ReadEnd
    <2>1. SavedInv'
      BY <1>12 DEF ReadEnd, Outcome, TypeOK, SavedInv, Closing, Restoring
    <2>2. LoadInv'
      BY <1>12 DEF ReadEnd, Outcome, TypeOK, LoadInv, Committed, Restoring
    <2>3. FreshInv'
      BY <1>12 DEF ReadEnd, Outcome, TypeOK, FreshInv, Closing, Restoring, RightSize, LoadInv,
                   Flags
    <2>4. CommitInv'
      BY <1>12 DEF ReadEnd, Outcome, TypeOK, CommitInv, Committed, Whole
    <2>5. ReadyIsComplete'
      BY <1>12 DEF ReadEnd, Outcome, TypeOK, ReadyIsComplete, AllThere, Whole, Committed, LoadInv,
                   CommitInv
    <2> QED
      BY <2>1, <2>2, <2>3, <2>4, <2>5 DEF IInv
  <1>13. CASE Destroy
    <2>1. SavedInv'
      BY <1>13 DEF Destroy, AppendsItself, NothingUnsaved, TypeOK, SavedInv, Closing, Restoring,
                   File
    <2>2. LoadInv'
      BY <1>13 DEF Destroy, AppendsItself, NothingUnsaved, TypeOK, LoadInv, Committed, Restoring
    <2>3. FreshInv'
      BY <1>13 DEF Destroy, AppendsItself, NothingUnsaved, TypeOK, FreshInv, Closing, Restoring,
                   RightSize
    <2>4. CommitInv'
      BY <1>13 DEF Destroy, AppendsItself, NothingUnsaved, TypeOK, CommitInv, Committed, Whole
    <2>5. ReadyIsComplete'
      BY <1>13 DEF Destroy, ReadyIsComplete
    <2> QED
      BY <2>1, <2>2, <2>3, <2>4, <2>5 DEF IInv
  <1>14. ASSUME NEW kind \in Kinds, NEW c \in Blocks, NEW r \in Regions, Append(kind, c, r)
         PROVE  IInv'
    <2>1. SavedInv'
      <3>1. /\ phase = "drop" /\ phase' = "drop" /\ blocks' = blocks /\ r \in unsaved[kind][c]
            /\ unsaved' = [unsaved EXCEPT ![kind] =
                              [unsaved[kind] EXCEPT ![c] = unsaved[kind][c] \ {r}]]
            /\ disk' = Saved(kind, c, Appended(disk[kind][c], r, blocks[c] = "good"))
        BY <1>14 DEF Append
      <3>2. /\ disk'[kind][c] = Appended(disk[kind][c], r, blocks[c] = "good")
            /\ unsaved'[kind][c] = unsaved[kind][c] \ {r}
        BY <3>1 DEF Saved, TypeOK
      <3>3. \A k \in Kinds, b \in Blocks : k # kind \/ b # c =>
                disk'[k][b] = disk[k][b] /\ unsaved'[k][b] = unsaved[k][b]
        BY <3>1 DEF Saved, TypeOK
      <3>4. disk[kind][c] \in File
        BY DEF TypeOK
      <3>5. disk'[kind][c].torn = disk[kind][c].torn
        BY <3>2, <3>4 DEF Appended, File
      <3>6. blocks[c] = "good" /\ disk[kind][c].torn # "crash" =>
                /\ Regions \subseteq disk'[kind][c].good \cup unsaved'[kind][c]
                /\ disk'[kind][c].bad \subseteq unsaved'[kind][c]
        <4> SUFFICES ASSUME blocks[c] = "good", disk[kind][c].torn # "crash"
                     PROVE  /\ Regions \subseteq disk'[kind][c].good \cup unsaved'[kind][c]
                            /\ disk'[kind][c].bad \subseteq unsaved'[kind][c]
          OBVIOUS
        <4>1. /\ Regions \subseteq disk[kind][c].good \cup unsaved[kind][c]
              /\ disk[kind][c].bad \subseteq unsaved[kind][c]
              /\ disk[kind][c].torn = "no"
          BY <3>1, <3>4 DEF SavedInv, Closing, File, Tears
        <4>2. /\ disk'[kind][c].good = disk[kind][c].good \cup {r}
              /\ disk'[kind][c].bad = disk[kind][c].bad \ {r}
          BY <3>2, <3>4, <4>1 DEF Appended, File
        <4> QED
          BY <3>2, <4>1, <4>2
      <3>7. phase = "drop" /\ phase' = "drop" /\ blocks' = blocks
        BY <3>1
      <3>8. ASSUME NEW k \in Kinds, NEW b \in Blocks
            PROVE  /\ blocks[b] = "good" =>
                        \/ disk'[k][b].torn = "crash"
                        \/ /\ Regions \subseteq disk'[k][b].good \cup unsaved'[k][b]
                           /\ disk'[k][b].bad \subseteq unsaved'[k][b]
                   /\ disk'[k][b].torn # "write"
        <4>1. CASE k = kind /\ b = c
          BY <4>1, <3>5, <3>6 DEF SavedInv
        <4>2. CASE k # kind \/ b # c
          BY <4>2, <3>3, <3>7 DEF SavedInv, Closing
        <4> QED
          BY <4>1, <4>2
      <3> QED
        BY <3>7, <3>8 DEF SavedInv
    <2>2. LoadInv'
      BY <1>14 DEF Append, Appended, Saved, TypeOK, LoadInv, Committed, Restoring
    <2>3. FreshInv'
      BY <1>14 DEF Append, Appended, Saved, TypeOK, FreshInv, Closing, Restoring, RightSize
    <2>4. CommitInv'
      BY <1>14 DEF Append, Appended, Saved, TypeOK, CommitInv, Committed, Whole, NothingUnsaved
    <2>5. ReadyIsComplete'
      BY <1>14 DEF Append, ReadyIsComplete
    <2> QED
      BY <2>1, <2>2, <2>3, <2>4, <2>5 DEF IInv
  <1>15. CASE DropEnd
    <2>1. SavedInv'
      BY <1>15 DEF DropEnd, AllAppended, memory, TypeOK, SavedInv, Closing, Restoring
    <2>2. LoadInv'
      BY <1>15 DEF DropEnd, AllAppended, memory, TypeOK, LoadInv, Committed, Restoring
    <2>3. FreshInv'
      BY <1>15 DEF DropEnd, AllAppended, memory, TypeOK, FreshInv, Closing, Restoring, RightSize
    <2>4. CommitInv'
      BY <1>15 DEF DropEnd, AllAppended, memory, TypeOK, CommitInv, Committed, Whole
    <2>5. ReadyIsComplete'
      BY <1>15 DEF DropEnd, ReadyIsComplete
    <2> QED
      BY <2>1, <2>2, <2>3, <2>4, <2>5 DEF IInv
  <1>16. ASSUME NEW q \in Planes, SaveImage(q) PROVE IInv'
    <2>1. SavedInv'
      BY <1>16 DEF SaveImage, MustSave, memory, TypeOK, SavedInv, Closing, Restoring, Planes
    <2>2. LoadInv'
      BY <1>16 DEF SaveImage, MustSave, memory, TypeOK, LoadInv, Committed, Restoring
    <2>3. FreshInv'
      BY <1>16 DEF SaveImage, MustSave, memory, TypeOK, FreshInv, Closing, Restoring, RightSize,
                   Planes
    <2>4. CommitInv'
      BY <1>16 DEF SaveImage, MustSave, memory, TypeOK, CommitInv, Committed, Whole
    <2>5. ReadyIsComplete'
      BY <1>16 DEF SaveImage, ReadyIsComplete
    <2> QED
      BY <2>1, <2>2, <2>3, <2>4, <2>5 DEF IInv
  <1>17. CASE Serialise
    <2>1. SavedInv'
      BY <1>17 DEF Serialise, Vanish, NoBlocks, NoImage, Defaults, TypeOK, SavedInv,
                   Closing
    <2>2. LoadInv'
      BY <1>17 DEF Serialise, Vanish, NoBlocks, NoImage, Defaults, TypeOK, LoadInv,
                   Committed
    <2>3. FreshInv'
      <3>1. json' # NoJson
        BY <1>17 DEF Serialise, TypeOK, Json, Flags
      <3> QED
        BY <3>1 DEF FreshInv
    <2>4. CommitInv'
      <3>1. CASE json # NoJson
        BY <1>17, <3>1 DEF Serialise, Vanish, NoBlocks, NoImage, CommitInv, Committed, Whole
      <3>2. CASE json = NoJson
        <4> SUFFICES ASSUME Committed' PROVE CommitInv'
          BY DEF CommitInv
        <4>1. flags.has_data
          BY <1>17, <3>2 DEF Serialise, Committed
        <4>2. \A kind \in Kinds, b \in Blocks : Whole(kind, b)
          <5> SUFFICES ASSUME NEW kind \in Kinds, NEW b \in Blocks,
                              disk[kind][b].torn # "crash"
                       PROVE  disk[kind][b] = Complete
            BY DEF Whole
          <5>1. blocks[b] = "good" /\ unsaved[kind][b] = {}
            BY <1>17, <3>2, <4>1 DEF Serialise, FreshInv, SavedInv, Closing,
               NothingUnsaved
          <5>2. disk[kind][b] \in File /\ disk[kind][b].torn # "write"
            BY DEF TypeOK, SavedInv
          <5>3. /\ disk[kind][b].good = Regions
                /\ disk[kind][b].bad = {}
                /\ disk[kind][b].torn = "no"
            BY <1>17, <5>1, <5>2 DEF Serialise, SavedInv, Closing, File, Tears
          <5> QED
            BY <5>2, <5>3 DEF File, Complete
        <4>3. \A p \in Planes : image[p] \in RightSize /\ (image[p] = "good" \/ orphan)
          BY <1>17, <3>2, <4>1 DEF Serialise, FreshInv, Planes, RightSize
        <4> QED
          BY <1>17, <4>2, <4>3 DEF Serialise, Vanish, NoBlocks, NoImage, CommitInv, Whole
      <3> QED
        BY <3>1, <3>2
    <2>5. ReadyIsComplete'
      BY <1>17 DEF Serialise, Vanish, ReadyIsComplete
    <2> QED
      BY <2>1, <2>2, <2>3, <2>4, <2>5 DEF IInv
  <1>18. CASE SerialiseCrashes
    <2>1. SavedInv'
      BY <1>18 DEF SerialiseCrashes, Vanish, SavedInv, Closing, Restoring
    <2>2. LoadInv'
      BY <1>18 DEF SerialiseCrashes, Vanish, LoadInv, Restoring
    <2>3. FreshInv'
      BY <1>18 DEF SerialiseCrashes, Vanish, Orphaned, Defaults, FreshInv, Closing, Restoring,
                   RightSize, TypeOK
    <2>4. CommitInv'
      BY <1>18 DEF SerialiseCrashes, Vanish, Orphaned, NoBlocks, NoImage, CommitInv,
                   Committed, TypeOK
    <2>5. ReadyIsComplete'
      BY <1>18 DEF SerialiseCrashes, Vanish, ReadyIsComplete
    <2> QED
      BY <2>1, <2>2, <2>3, <2>4, <2>5 DEF IInv
  <1>19. CASE Crash
    <2>0. /\ Vanish /\ json' = json
          /\ TornRecord \/ TornPlane \/ UNCHANGED <<disk, image>>
      BY <1>19 DEF Crash
    <2>1. SavedInv'
      <3>1. /\ phase' = "down" /\ unsaved' = NothingUnsaved
        BY <2>0 DEF Vanish
      <3>2. \A kind \in Kinds, b \in Blocks : disk'[kind][b].torn # "write"
        BY <2>0, CrashTears DEF TornPlane, SavedInv
      <3> QED
        BY <3>1, <3>2 DEF SavedInv, Closing
    <2>2. LoadInv'
      BY <2>0 DEF Vanish, LoadInv, Restoring
    <2>3. FreshInv'
      <3>1. \A p \in Planes : image'[p] = "garbage" => image[p] = "garbage"
        BY <2>0 DEF TornRecord, TornPlane, TypeOK
      <3>2. json = NoJson => \A p \in Planes : image'[p] = "garbage" => orphan'
        BY <1>19 DEF Crash, Orphaned
      <3> QED
        BY <2>0, <3>1, <3>2 DEF Vanish, Defaults, FreshInv, Closing, Restoring
    <2>4. CommitInv'
      <3> SUFFICES ASSUME Committed PROVE CommitInv'
        BY <2>0 DEF CommitInv, Committed
      <3>1. ~ TornRecord /\ ~ TornPlane
        BY DEF TornRecord, TornPlane, MustSave, CommitInv, NothingUnsaved
      <3>2. UNCHANGED <<disk, image>>
        BY <2>0, <3>1
      <3>3. orphan => orphan'
        BY <1>19 DEF Crash, Orphaned
      <3> QED
        BY <2>0, <3>2, <3>3 DEF Vanish, NoBlocks, NoImage, CommitInv, Committed, Whole
    <2>5. ReadyIsComplete'
      BY <2>0 DEF Vanish, ReadyIsComplete
    <2> QED
      BY <2>1, <2>2, <2>3, <2>4, <2>5 DEF IInv
  <1>20. CASE UNCHANGED vars
    BY <1>20 DEF vars, memory, IInv, SavedInv, LoadInv, FreshInv, CommitInv,
                 ReadyIsComplete, AllThere, Whole, Committed
  <1> QED
    BY <1>1, <1>2, <1>3, <1>4, <1>5, <1>6, <1>7, <1>8, <1>9, <1>10, <1>11, <1>12,
       <1>13, <1>14, <1>15, <1>16, <1>17, <1>18, <1>19,
       <1>20, <1>21, <1>22 DEF Next, Loader, Destructor

LEMMA Invariance == ASSUME Faults = {} PROVE Spec => [](TypeOK /\ IInv)
  BY InitType, NextType, InitInv, NextInv, PTL DEF Spec

\* A JSON file that says has_data stands for complete .zfp and .lz4 files and a
\* complete image, after any number of crashes, failed reads and restarts, save the
\* files that a crash tore in the middle of a record.
THEOREM CommitHolds == ASSUME Faults = {} PROVE Spec => []CommitIsComplete
  <1>1. IInv => CommitIsComplete
    BY DEF IInv, CommitInv, CommitIsComplete
  <1> QED
    BY <1>1, Invariance, PTL

\* A dataset that from_path leaves with has_data set has every block, either read
\* in this run or mapped from complete files, save those that a crash tore.
THEOREM ReadyHolds == ASSUME Faults = {} PROVE Spec => []ReadyIsComplete
  <1>1. IInv => ReadyIsComplete
    BY DEF IInv
  <1> QED
    BY <1>1, Invariance, PTL

-----------------------------------------------------------------------------
(* The strengthening that the flags and the refinement need.                *)

\* A start after a commit restores it: it has the data before it looks at the FITS
\* file, and keeps it.
RestoredInv ==
    Committed =>
        /\ json.header = "whole"
        /\ phase \in {"open", "ready"} \cup Restoring \cup Closing =>
            flags.has_data /\ header = "whole"
        /\ phase \in {"ready"} \cup Closing => \A b \in Blocks : blocks[b] = "mmap"

\* Only what was compressed in this run waits to be saved.
QueuedInv == \A kind \in Kinds, b \in Blocks : unsaved[kind][b] # {} => AppendsItself(b)

\* Where the flags stand before they are next set.
AnnouncedInv ==
    /\ phase \in {"down", "restore"} => flags = Defaults
    /\ phase \in Restoring => ~ flags.processed_data
    /\ phase = "read" => ~ flags.has_data

StoreInv == TypeOK /\ IInv /\ RestoredInv /\ QueuedInv /\ AnnouncedInv

LEMMA InitStore == Init => RestoredInv /\ QueuedInv /\ AnnouncedInv
  BY DEF Init, RestoredInv, QueuedInv, AnnouncedInv, Committed, NothingUnsaved, Restoring

LEMMA NextQueued ==
    ASSUME TypeOK, IInv, QueuedInv, [Next]_vars
    PROVE  QueuedInv'
  <1> USE DEF QueuedInv
  <1>1. CASE phase # "drop" /\ unsaved' = unsaved
    BY <1>1 DEF IInv, SavedInv, NothingUnsaved
  <1>2. CASE UNCHANGED <<blocks, unsaved>>
    BY <1>2 DEF AppendsItself
  <1>3. CASE Vanish
    BY <1>3 DEF Vanish, NothingUnsaved
  <1>4. CASE Destroy
    BY <1>4 DEF Destroy, AppendsItself
  <1>5. ASSUME NEW kind \in Kinds, NEW b \in Blocks, NEW r \in Regions, Append(kind, b, r)
        PROVE  QueuedInv'
    <2>1. /\ UNCHANGED blocks
          /\ unsaved' = [unsaved EXCEPT ![kind] =
                            [unsaved[kind] EXCEPT ![b] = unsaved[kind][b] \ {r}]]
      BY <1>5 DEF Append
    <2>2. \A k \in Kinds, c \in Blocks : unsaved'[k][c] \subseteq unsaved[k][c]
      BY <2>1 DEF TypeOK
    <2> QED
      BY <2>1, <2>2 DEF AppendsItself
  <1>6. CASE Start \/ Loader
    BY <1>1, <1>6 DEF Start, Loader, NothingToRestore, ReadJson, MapPlane, HeaderRestored,
                      MapBlock, MapEnd, OpenFails, AlreadyProcessed, Unsupported, ReadHeader, ReadBlock, ReadBlockFails,
                      ReadEnd, memory
  <1>7. CASE DropEnd \/ (\E p \in Planes : SaveImage(p)) \/ UNCHANGED vars
    BY <1>2, <1>7 DEF DropEnd, SaveImage, memory, vars
  <1>8. CASE Serialise \/ SerialiseCrashes \/ Crash
    BY <1>3, <1>8 DEF Serialise, SerialiseCrashes, Crash
  <1> QED
    BY <1>4, <1>5, <1>6, <1>7, <1>8 DEF Next, Destructor

LEMMA NextRestored ==
    ASSUME TypeOK, IInv, RestoredInv, [Next]_vars
    PROVE  RestoredInv'
  <1>1. CASE Start \/ NothingToRestore
    BY <1>1 DEF Start, NothingToRestore, RestoredInv, Committed, memory, Closing, Restoring
  <1>2. CASE ReadJson
    BY <1>2 DEF ReadJson, RestoredInv, Committed, Closing, Restoring, TypeOK, Flags
  <1>11. ASSUME NEW p \in Planes, MapPlane(p) PROVE RestoredInv'
    <2>1. /\ phase \in Restoring /\ phase' \in Restoring
          /\ UNCHANGED <<json, header>>
          /\ image[p] \in RightSize /\ header = "whole" => flags' = flags
      BY <1>11 DEF MapPlane, Restoring
    <2>2. Committed => image[p] \in RightSize
      BY DEF IInv, CommitInv
    <2> QED
      BY <2>1, <2>2 DEF RestoredInv, Committed, Closing, Restoring
  <1>12. CASE HeaderRestored
    <2>1. /\ phase \in Restoring /\ phase' \in Restoring
          /\ UNCHANGED <<json, header>> /\ flags'.has_data = flags.has_data
      BY <1>12 DEF HeaderRestored, Restoring, TypeOK, Flags
    <2> QED
      BY <2>1 DEF RestoredInv, Committed, Closing, Restoring
  <1>3. ASSUME NEW c \in Blocks, MapBlock(c) PROVE RestoredInv'
    BY <1>3 DEF MapBlock, RestoredInv, Committed, Closing, Restoring
  <1>4. CASE MapEnd
    <2>1. /\ phase = "map" /\ phase' = "open" /\ UNCHANGED <<json, header>>
          /\ flags' = [flags EXCEPT !.processed_data = bSuccess]
      BY <1>4 DEF MapEnd, Announced
    <2>2. flags'.has_data = flags.has_data
      BY <2>1 DEF TypeOK, Flags
    <2> QED
      BY <2>1, <2>2 DEF RestoredInv, Committed, Closing, Restoring
  <1>5. CASE OpenFails \/ AlreadyProcessed \/ Unsupported
    <2>1. /\ phase = "open" /\ phase' = "ready" /\ UNCHANGED <<json, blocks>>
          /\ flags'.has_data = flags.has_data
          /\ header = "whole" => header' = "whole"
      BY <1>5 DEF OpenFails, AlreadyProcessed, Unsupported, HeaderRead, Processed, memory,
                  TypeOK, Flags
    <2> QED
      BY <2>1 DEF RestoredInv, IInv, CommitInv, Committed
  <1>6. CASE ReadHeader \/ ReadEnd \/ \E b \in Blocks : ReadBlock(b) \/ ReadBlockFails(b)
    <2>1. json' = json
      BY <1>6 DEF ReadHeader, ReadEnd, ReadBlock, ReadBlockFails
    <2>2. ~ Committed
      BY <1>6 DEF ReadHeader, ReadEnd, ReadBlock, ReadBlockFails, IInv, CommitInv
    <2> QED
      BY <2>1, <2>2 DEF RestoredInv, Committed
  <1>7. CASE \/ Destroy \/ DropEnd \/ (\E p \in Planes : SaveImage(p))
             \/ (\E kind \in Kinds, b \in Blocks, r \in Regions : Append(kind, b, r))
    <2>1. /\ UNCHANGED <<json, blocks, header, flags>>
          /\ phase \in {"ready"} \cup Closing
      BY <1>7 DEF Destroy, DropEnd, SaveImage, Append, memory, Closing, Restoring, Planes
    <2> QED
      BY <2>1 DEF RestoredInv, Committed
  <1>8. CASE Serialise
    <2>1. /\ phase = "serialise" /\ phase' = "down"
          /\ json' = IF json = NoJson
                     THEN [header |-> header, data |-> flags.has_data, error |-> flags.has_error]
                     ELSE json
      BY <1>8 DEF Serialise, Vanish
    <2>2. json = NoJson /\ flags.has_data => header = "whole"
      BY <2>1 DEF IInv, FreshInv, Closing, Restoring
    <2> QED
      BY <2>1, <2>2 DEF RestoredInv, Committed, Closing, Restoring
  <1>9. CASE SerialiseCrashes \/ Crash
    BY <1>9 DEF SerialiseCrashes, Crash, Vanish, RestoredInv, Committed, Closing, Restoring
  <1>10. CASE UNCHANGED vars
    BY <1>10 DEF vars, memory, RestoredInv, Committed
  <1> QED
    BY <1>1, <1>2, <1>3, <1>4, <1>5, <1>6, <1>7, <1>8, <1>9, <1>10, <1>11, <1>12
       DEF Next, Loader, Destructor

LEMMA NextAnnounced ==
    ASSUME TypeOK, IInv, AnnouncedInv, [Next]_vars
    PROVE  AnnouncedInv'
  <1> USE DEF TypeOK, Flags, AnnouncedInv, Restoring
  <1>1. CASE Start \/ NothingToRestore
    BY <1>1 DEF Start, NothingToRestore, memory
  <1>9. CASE ReadJson
    <2>1. phase' = "map_pixels" /\ flags'.processed_data = flags.processed_data
      BY <1>9 DEF ReadJson
    <2>2. ~ flags.processed_data
      BY <1>9 DEF ReadJson, Defaults
    <2> QED
      BY <2>1, <2>2
  <1>10. CASE HeaderRestored
    <2>1. /\ phase = "announce" /\ phase' = "map"
          /\ flags'.processed_data = flags.processed_data
      BY <1>10 DEF HeaderRestored
    <2> QED
      BY <2>1
  <1>2. ASSUME NEW p \in Planes, MapPlane(p) PROVE AnnouncedInv'
    BY <1>2 DEF MapPlane
  <1>3. ASSUME NEW b \in Blocks, MapBlock(b) \/ ReadBlock(b) \/ ReadBlockFails(b)
        PROVE  AnnouncedInv'
    BY <1>3 DEF MapBlock, ReadBlock, ReadBlockFails
  <1>4. CASE ReadHeader
    <2>1. ~ flags.has_data
      BY <1>4 DEF ReadHeader, IInv, LoadInv, CommitInv
    <2> QED
      BY <1>4, <2>1 DEF ReadHeader
  <1>5. CASE MapEnd \/ OpenFails \/ AlreadyProcessed \/ Unsupported \/ ReadEnd \/ Destroy
    BY <1>5 DEF MapEnd, OpenFails, AlreadyProcessed, Unsupported, ReadEnd, Destroy
  <1>6. CASE \/ DropEnd \/ (\E p \in Planes : SaveImage(p))
             \/ \E kind \in Kinds, b \in Blocks, r \in Regions : Append(kind, b, r)
    BY <1>6 DEF DropEnd, SaveImage, Append, Planes
  <1>7. CASE Serialise \/ SerialiseCrashes \/ Crash
    BY <1>7 DEF Serialise, SerialiseCrashes, Crash, Vanish
  <1>8. CASE UNCHANGED vars
    BY <1>8 DEF vars, memory
  <1> QED
    BY <1>1, <1>2, <1>3, <1>4, <1>5, <1>6, <1>7, <1>8, <1>9, <1>10
       DEF Next, Loader, Destructor

LEMMA NextStore == ASSUME Faults = {}, StoreInv, [Next]_vars PROVE StoreInv'
  BY NextType, NextInv, NextRestored, NextQueued, NextAnnounced DEF StoreInv

LEMMA StoreInvariance == ASSUME Faults = {} PROVE Spec => []StoreInv
  <1>1. Init => StoreInv
    BY InitType, InitInv, InitStore DEF StoreInv
  <1> QED
    BY <1>1, NextStore, PTL DEF Spec

-----------------------------------------------------------------------------
(* What no later step takes back.                                           *)

\* Nothing that a later run does writes to a committed cache, however the runs
\* before it ended and whatever becomes of the FITS file, as long as every block can
\* be saved: a block without a file, after a failed write, is read and saved again.
THEOREM FrozenHolds == ASSUME Faults = {} PROVE Spec => CommittedFrozen
  <1>1. ASSUME TypeOK, IInv, [Next]_vars, Committed
        PROVE  UNCHANGED <<disk, image, json>>
    <2> USE <1>1
    <2>1. \A kind \in Kinds, b \in Blocks : unsaved[kind][b] = {}
      BY DEF IInv, CommitInv, NothingUnsaved
    <2>2. \A p \in Planes : ~ MustSave(p)
      BY DEF IInv, CommitInv, MustSave
    <2>3. ASSUME NEW kind \in Kinds, NEW b \in Blocks, NEW r \in Regions,
                 Append(kind, b, r)
          PROVE  FALSE
      BY <2>1, <2>3 DEF Append
    <2>4. ASSUME NEW p \in Planes, SaveImage(p)
          PROVE  UNCHANGED <<disk, image, json>>
      BY <2>2, <2>4 DEF SaveImage
    <2>5. ASSUME Serialise \/ SerialiseCrashes \/ Crash
          PROVE  UNCHANGED <<disk, image, json>>
      BY <2>1, <2>2, <2>5 DEF Serialise, SerialiseCrashes, Crash, TornRecord, TornPlane,
                              Committed
    <2>6. ASSUME Start \/ Loader \/ Destroy \/ DropEnd \/ UNCHANGED vars
          PROVE  UNCHANGED <<disk, image, json>>
      BY <2>6 DEF Start, Loader, NothingToRestore, ReadJson, MapPlane, HeaderRestored,
                  MapBlock, MapEnd, OpenFails, AlreadyProcessed, Unsupported, ReadHeader,
                  ReadBlock, ReadBlockFails, ReadEnd, Destroy, DropEnd, vars
    <2> QED
      BY <2>3, <2>4, <2>5, <2>6 DEF Next, Destructor
  <1> QED
    BY <1>1, Invariance, PTL DEF Spec, CommittedFrozen

\* No flag that others may have seen is taken back: what deserialise announced from a
\* commit is never read again from the FITS file, whose outcome could withdraw it.
THEOREM AnnouncedStandsHolds == ASSUME Faults = {} PROVE Spec => AnnouncedStands
  <1>1. ASSUME StoreInv, [Next]_vars, phase' # "down", NEW f \in FlagNames, flags[f]
        PROVE  flags'[f]
    <2> USE <1>1 DEF TypeOK, Flags, FlagNames
    <2>0. flags \in Flags
      BY DEF StoreInv
    <2>1. CASE flags' = flags
      BY <2>1
    <2>2. CASE ReadJson
      BY <2>2 DEF ReadJson, StoreInv, AnnouncedInv, Defaults
    <2>3. ASSUME NEW p \in Planes, MapPlane(p) PROVE flags'[f]
      <3>1. phase \in Restoring
        BY <2>3 DEF MapPlane, Restoring
      <3>2. CASE Committed
        <4>1. image[p] \in RightSize /\ header = "whole"
          BY <3>1, <3>2 DEF StoreInv, IInv, CommitInv, RestoredInv
        <4> QED
          BY <2>1, <2>3, <4>1 DEF MapPlane
      <3>3. CASE ~ Committed
        <4>1. ~ flags.has_data
          BY <3>1, <3>3 DEF StoreInv, IInv, LoadInv
        <4> QED
          BY <2>0, <2>3, <4>1 DEF MapPlane
      <3> QED
        BY <3>2, <3>3
    <2>4. CASE MapEnd
      <3>1. ~ flags.processed_data /\ flags' = [flags EXCEPT !.processed_data = bSuccess]
        BY <2>4 DEF MapEnd, Announced, StoreInv, AnnouncedInv, Restoring
      <3> QED
        BY <2>0, <3>1
    <2>5. CASE HeaderRestored \/ OpenFails \/ Unsupported \/ ReadHeader
      BY <2>0, <2>5 DEF HeaderRestored, OpenFails, Unsupported, ReadHeader, Processed
    <2>6. CASE ReadEnd
      <3>1. /\ ~ flags.has_data
            /\ flags' = [flags EXCEPT !.has_error = flags.has_error \/ ~ bSuccess,
                                      !.has_data = bSuccess,
                                      !.processed_data = TRUE]
        BY <2>6 DEF ReadEnd, Outcome, StoreInv, AnnouncedInv
      <3> QED
        BY <2>0, <3>1
    <2>7. CASE \/ Start \/ NothingToRestore \/ (\E b \in Blocks : MapBlock(b))
               \/ AlreadyProcessed
               \/ (\E b \in Blocks : ReadBlock(b) \/ ReadBlockFails(b))
               \/ Destroy
               \/ (\E kind \in Kinds, b \in Blocks, r \in Regions : Append(kind, b, r))
               \/ DropEnd \/ (\E p \in Planes : SaveImage(p)) \/ UNCHANGED vars
      BY <2>1, <2>7 DEF Start, NothingToRestore, MapBlock, AlreadyProcessed, ReadBlock,
                        ReadBlockFails, Destroy, Append, DropEnd, SaveImage, memory, vars
    <2>8. ~ (Serialise \/ SerialiseCrashes \/ Crash)
      BY DEF Serialise, SerialiseCrashes, Crash, Vanish
    <2> QED
      BY <2>2, <2>3, <2>4, <2>5, <2>6, <2>7, <2>8 DEF Next, Loader, Destructor
  <1>2. StoreInv /\ [Next]_vars
            => [phase' # "down" => \A f \in FlagNames : flags[f] => flags'[f]]_vars
    BY <1>1
  <1> QED
    BY <1>2, StoreInvariance, PTL DEF Spec, AnnouncedStands

-----------------------------------------------------------------------------
(* The refinement.                                                          *)

\* What the dataset has stays the same from the end of the start-up to that of the run:
\* the destructor appends blocks from memory only.
LEMMA HasKept ==
    ASSUME StoreInv,
           \/ Destroy \/ DropEnd \/ (\E p \in Planes : SaveImage(p))
           \/ \E kind \in Kinds, b \in Blocks, r \in Regions : Append(kind, b, r)
    PROVE  UNCHANGED Store!vars
  <1>1. /\ UNCHANGED <<json, blocks, header, flags>>
        /\ phase \in {"ready"} \cup Closing /\ phase' \in {"ready"} \cup Closing
    BY DEF Destroy, DropEnd, SaveImage, Append, memory, Closing, Planes
  <1>2. \A b \in Blocks : blocks[b] = "mmap" =>
            \A kind \in Kinds : disk'[kind][b] = disk[kind][b]
    <2>1. CASE Destroy \/ DropEnd \/ \E p \in Planes : SaveImage(p)
      BY <2>1 DEF Destroy, DropEnd, SaveImage
    <2>2. ASSUME NEW kind \in Kinds, NEW c \in Blocks, NEW r \in Regions, Append(kind, c, r)
          PROVE  \A b \in Blocks : blocks[b] = "mmap" =>
                     \A k \in Kinds : disk'[k][b] = disk[k][b]
      <3>1. blocks[c] # "mmap"
        BY <2>2 DEF Append, StoreInv, QueuedInv, AppendsItself
      <3>2. disk' = disk \/ \E file : disk' = Saved(kind, c, file)
        BY <2>2 DEF Append
      <3>3. \A k \in Kinds, b \in Blocks : b # c => disk'[k][b] = disk[k][b]
        BY <3>2 DEF Saved, StoreInv, TypeOK
      <3> QED
        BY <3>1, <3>3
    <2> QED
      BY <2>1, <2>2
  <1>3. AllThere' = AllThere
    BY <1>1, <1>2 DEF AllThere, Whole
  <1> QED
    BY <1>1, <1>3 DEF Store!vars, Committed, Closing

\* The start-up ends.  After a commit it ends with the data.
LEMMA ServeStep ==
    ASSUME StoreInv, StoreInv', OpenFails \/ AlreadyProcessed \/ Unsupported \/ ReadEnd
    PROVE  Store!Serve
  <1>1. /\ phase \in {"open", "read"} /\ phase' = "ready" /\ json' = json
    BY DEF OpenFails, AlreadyProcessed, Unsupported, ReadEnd
  <1>2. ASSUME Committed
        PROVE  flags'.has_data /\ header' = "whole" /\ AllThere'
    <2>1. Committed'
      BY <1>1, <1>2 DEF Committed
    <2>2. flags'.has_data /\ header' = "whole"
      BY <1>1, <2>1 DEF StoreInv, RestoredInv
    <2>3. AllThere'
      BY <1>1, <2>2 DEF StoreInv, IInv, ReadyIsComplete
    <2> QED
      BY <2>2, <2>3
  <1> QED
    BY <1>1, <1>2 DEF Store!Serve, Committed, Closing

\* The run ends.  What it commits it has.
LEMMA StopStep ==
    ASSUME StoreInv, Serialise \/ SerialiseCrashes \/ Crash
    PROVE  Store!Stop
  <1>1. phase # "down" /\ phase' = "down"
    BY DEF Serialise, SerialiseCrashes, Crash, Vanish
  <1>2. ASSUME Serialise, json = NoJson, flags.has_data
        PROVE  header = "whole" /\ AllThere /\ phase = "serialise"
    <2>1. phase = "serialise"
      BY <1>2 DEF Serialise
    <2> QED
      BY <1>2, <2>1 DEF StoreInv, IInv, FreshInv, Closing, AllThere
  <1>3. CASE Serialise /\ json = NoJson /\ flags.has_data
    <2>1. Committed'
      <3>1. json' = [header |-> header, data |-> flags.has_data, error |-> flags.has_error]
        BY <1>3 DEF Serialise
      <3>2. json' \in Json
        BY <3>1 DEF Json, StoreInv, TypeOK, Flags
      <3> QED
        BY <1>3, <3>1, <3>2 DEF Committed
    <2> QED
      BY <1>1, <1>2, <1>3, <2>1 DEF Store!Stop, Closing
  <1>4. CASE ~ (Serialise /\ json = NoJson /\ flags.has_data)
    <2>1. Committed' = Committed
      BY <1>4 DEF Serialise, SerialiseCrashes, Crash, Committed
    <2> QED
      BY <1>1, <2>1 DEF Store!Stop, Closing
  <1> QED
    BY <1>3, <1>4

LEMMA StoreStep ==
    ASSUME StoreInv, StoreInv', [Next]_vars
    PROVE  [Store!Next]_(Store!vars)
  <1>1. CASE Start
    BY <1>1 DEF Start, Store!Next, Store!Open, Closing, Committed
  <1>2. CASE \/ NothingToRestore \/ ReadJson \/ (\E p \in Planes : MapPlane(p))
             \/ HeaderRestored \/ (\E b \in Blocks : MapBlock(b)) \/ MapEnd
             \/ ReadHeader \/ \E b \in Blocks : ReadBlock(b) \/ ReadBlockFails(b)
    <2>1. /\ phase \in {"restore", "open", "read"} \cup Restoring
          /\ phase' \in {"restore", "open", "read"} \cup Restoring
          /\ json' = json
      BY <1>2 DEF NothingToRestore, ReadJson, MapPlane, HeaderRestored, MapBlock, MapEnd,
                  ReadHeader, ReadBlock, ReadBlockFails, Restoring
    <2> QED
      BY <2>1 DEF Store!vars, Closing, Restoring, Committed
  <1>3. CASE OpenFails \/ AlreadyProcessed \/ Unsupported \/ ReadEnd
    BY <1>3, ServeStep DEF Store!Next
  <1>4. CASE \/ Destroy \/ DropEnd \/ (\E p \in Planes : SaveImage(p))
             \/ \E kind \in Kinds, b \in Blocks, r \in Regions : Append(kind, b, r)
    BY <1>4, HasKept
  <1>5. CASE Serialise \/ SerialiseCrashes \/ Crash
    BY <1>5, StopStep DEF Store!Next
  <1>6. CASE UNCHANGED vars
    BY <1>6 DEF vars, memory, Store!vars, Committed, AllThere, Whole, Closing
  <1> QED
    BY <1>1, <1>2, <1>3, <1>4, <1>5, <1>6 DEF Next, Loader, Destructor

\* Over any number of runs the files of a dataset are a store: what was committed every
\* later run has, all of it and right (save in files that a crash tore), however the
\* runs before ended.
THEOREM CacheStoresData == ASSUME Faults = {} PROVE Spec => StoresData
  <1>3. Init => Store!Init
    BY DEF Init, Store!Init, Committed, Closing
  <1>4. StoreInv /\ StoreInv' /\ [Next]_vars => [Store!Next]_(Store!vars)
    BY StoreStep
  <1> QED
    BY <1>3, <1>4, StoreInvariance, PTL DEF Spec, StoresData, Store!Spec

=============================================================================
