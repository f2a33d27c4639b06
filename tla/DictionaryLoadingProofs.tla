------------------------ MODULE DictionaryLoadingProofs ------------------------
(***************************************************************************)
(* Theorems about DictionaryLoading, for every file system, every change of *)
(* it the modes allow, every dictionary size and every configuration.       *)
(***************************************************************************)
EXTENDS DictionaryLoading, SequenceTheorems, FiniteSetTheorems, TLAPS

USE LoadingAssumption

(***************************************************************************)
(* Types.                                                                   *)
(***************************************************************************)

(* A directive of kind "dict" has the fields of one.                        *)
LEMMA DictFields ==
  ASSUME NEW x \in Directives, x.kind = "dict"
  PROVE  x.path \in Seq(Names) /\ x.block \in Blocks /\ x.literal \in Seq(Bytes)
BY DEF Directives

LEMMA DeliveredBytes ==
  ASSUME TypeOK, File \in Inodes, NEW n \in Nat
  PROVE  /\ Delivered(n) \in Seq(Bytes)
         /\ Len(Delivered(n)) = n
         /\ \A i \in 1..n : Delivered(n)[i][1] = Len(bytes) + i
BY DEF TypeOK, Delivered, Bytes

(* While a dictionary line is worked on, it is the current line; what is     *)
(* descended to is a component of its path.                                 *)
Loading == {"open", "root", "walk", "descend", "vet", "info", "read", "close", "hash"}

AtDict ==
  /\ pc \in Loading => lines # <<>> /\ Head(lines).kind = "dict"
  /\ pc = "descend" => rest # <<>>

(* An entry replaced leaves a tree.                                         *)
LEMMA MoveTypes ==
  ASSUME tree \in [Inodes -> [Names -> Entries]],
         NEW m \in Moves, NEW u \in {"root", "other"}
  PROVE  /\ m[1] \in Inodes /\ m[2] \in Names
         /\ [tree EXCEPT ![m[1]][m[2]] = [node |-> m[3], by |-> u]]
              \in [Inodes -> [Names -> Entries]]
<1>1. m[1] \in Inodes /\ m[2] \in Names /\ m[3] \in Inodes \cup {Nothing}
  OBVIOUS
<1>2. [node |-> m[3], by |-> u] \in Entries
  BY <1>1 DEF Entries
<1>3. [tree[m[1]] EXCEPT ![m[2]] = [node |-> m[3], by |-> u]] \in [Names -> Entries]
  BY <1>1, <1>2
<1> QED BY <1>1, <1>3

(* The calls on files and descriptors change neither the file system nor    *)
(* the configuration.                                                       *)
LEMMA FileSteps ==
  ASSUME Walk \/ Open \/ Read
  PROVE  /\ UNCHANGED <<disk, conf>>
         /\ pc \in Loading \ {"hash"} /\ pc' \in Loading \cup {"failed"}
         /\ pc' = "descend" => rest' # <<>>
<1> USE DEF Loading, Step
<1>1. CASE Walk
  BY <1>1 DEF Walk, OpenRoot, RefuseRelative, VetRoot, RefuseRoot, RefuseNoLeaf, RefuseTooLong,
              RefuseDots, OpenAt, Component, OpenAtFails, CloseParent, VetDir, RefuseDir
<1>2. CASE Open
  BY <1>2 DEF Open, Resolving, Resolve, OpenFile, OpenFileFails
<1>3. CASE Read
  BY <1>3 DEF Read, FdInfo, RefuseFile, GotoFailed, ReadDict, ReadFails, CloseDict, CloseDictFails,
              CloseFailed
<1> QED BY <1>1, <1>2, <1>3

LEMMA LoaderKeepsDisk == Loader => UNCHANGED disk
BY FileSteps DEF Loader, SetStrictPath, SetTrustHashes, BeginDict, RejectLine, AddDict, RejectDict,
                 InitMainConf, MergeConf

(***************************************************************************)
(* Descriptors.                                                             *)
(***************************************************************************)

(* What open hands out was not open.                                        *)
LEMMA NewDescriptor ==
  ASSUME Spare
  PROVE  New \in Descriptors /\ New \notin DOMAIN files
BY DEF Spare, New

(* One descriptor more or one less: every call of the loader takes what is  *)
(* open to what its next label answers for.                                 *)
LEMMA DescriptorsStep ==
  ASSUME NoDescriptorLeft, [Next]_vars
  PROVE  NoDescriptorLeft'
<1> USE DEF NoDescriptorLeft, Step, walk, cursor
<1>n. ASSUME NEW n, Opens(n)
      PROVE  New \notin DOMAIN files /\ DOMAIN files' = DOMAIN files \cup {New}
  BY <1>n, NewDescriptor DEF Opens
<1>c. ASSUME NEW d, Closes(d)
      PROVE  DOMAIN files' = DOMAIN files \ {d}
  BY <1>c DEF Closes
<1>1. CASE SetStrictPath
  BY <1>1 DEF SetStrictPath, Parsing
<1>2. CASE SetTrustHashes
  BY <1>2 DEF SetTrustHashes, Parsing
<1>3. CASE BeginDict
  BY <1>3 DEF BeginDict, Parsing
<1>4. CASE RejectLine
  BY <1>4 DEF RejectLine, Parsing
<1>5. CASE OpenRoot
  BY <1>5, <1>n DEF OpenRoot
<1>6. CASE RefuseRelative
  BY <1>6 DEF RefuseRelative
<1>7. CASE VetRoot
  BY <1>7 DEF VetRoot
<1>8. CASE RefuseRoot
  BY <1>8, <1>c DEF RefuseRoot
<1>9. CASE RefuseNoLeaf
  BY <1>9, <1>c DEF RefuseNoLeaf
<1>10. CASE RefuseTooLong
  BY <1>10, <1>c DEF RefuseTooLong
<1>11. CASE RefuseDots
  BY <1>11, <1>c DEF RefuseDots
<1>12. CASE OpenAt
  <2>1. New \notin DOMAIN files /\ DOMAIN files' = DOMAIN files \cup {New}
    BY <1>12, <1>n DEF OpenAt
  <2> QED BY <1>12, <2>1 DEF OpenAt
<1>13. CASE OpenAtFails
  BY <1>13, <1>c DEF OpenAtFails
<1>14. CASE CloseParent
  <2>1. DOMAIN files = {fd, next} /\ fd # next
    BY <1>14 DEF CloseParent
  <2>2. DOMAIN files' = {fd'}
    BY <1>14, <1>c, <2>1 DEF CloseParent
  <2>3. pc' \in {"info", "vet"}
    BY <1>14 DEF CloseParent
  <2> QED BY <2>2, <2>3
<1>15. CASE VetDir
  BY <1>15 DEF VetDir
<1>16. CASE RefuseDir
  BY <1>16, <1>c DEF RefuseDir
<1>17. CASE Resolve
  BY <1>17 DEF Resolve, Resolving
<1>18. CASE OpenFile
  BY <1>18, <1>n DEF OpenFile, Resolving
<1>19. CASE OpenFileFails
  BY <1>19 DEF OpenFileFails, Resolving
<1>20. CASE FdInfo
  BY <1>20 DEF FdInfo
<1>21. CASE RefuseFile
  BY <1>21 DEF RefuseFile, GotoFailed
<1>22. CASE ReadDict
  BY <1>22 DEF ReadDict
<1>23. CASE ReadFails
  BY <1>23 DEF ReadFails, GotoFailed
<1>24. CASE CloseDict
  BY <1>24, <1>c DEF CloseDict
<1>25. CASE CloseDictFails
  BY <1>25, <1>c DEF CloseDictFails
<1>26. CASE CloseFailed
  BY <1>26, <1>c DEF CloseFailed
<1>27. CASE AddDict
  BY <1>27 DEF AddDict
<1>28. CASE RejectDict
  BY <1>28 DEF RejectDict
<1>29. CASE InitMainConf
  BY <1>29 DEF InitMainConf
<1>30. CASE MergeConf
  BY <1>30 DEF MergeConf
<1>31. CASE Deploy
  BY <1>31 DEF Deploy
<1>32. CASE OtherUser
  BY <1>32 DEF OtherUser
<1>33. CASE UNCHANGED vars
  BY <1>33 DEF vars
<1>w. CASE Walk
  BY <1>w, <1>5, <1>6, <1>7, <1>8, <1>9, <1>10, <1>11, <1>12, <1>13, <1>14, <1>15, <1>16 DEF Walk
<1>o. CASE Open
  BY <1>o, <1>17, <1>18, <1>19 DEF Open
<1>r. CASE Read
  BY <1>r, <1>20, <1>21, <1>22, <1>23, <1>24, <1>25, <1>26 DEF Read
<1> QED BY <1>1, <1>2, <1>3, <1>4, <1>w, <1>o, <1>r, <1>27, <1>28, <1>29, <1>30, <1>31, <1>32,
           <1>33 DEF Next, Loader

LEMMA DescriptorsInit == Init => NoDescriptorLeft
BY DEF Init, NoDescriptorLeft

(* Whatever the calls answer and the other processes do, the loader holds   *)
(* exactly the descriptors it still answers for: none is left behind by a   *)
(* refusal of the walk or the read, none closed while it is still used.     *)
THEOREM DescriptorsClosed == Spec => []NoDescriptorLeft
BY DescriptorsInit, DescriptorsStep, PTL DEF Spec

(***************************************************************************)
(* Types, continued.                                                        *)
(***************************************************************************)

Typed == TypeOK /\ AtDict /\ NoDescriptorLeft

FilesOK == DOMAIN files \subseteq Descriptors /\ \A d \in DOMAIN files : files[d] \in Inodes

(* While fd is used it is open.                                             *)
LEMMA FileNode ==
  ASSUME TypeOK, NoDescriptorLeft, pc \in {"root", "walk", "vet", "info", "read"}
  PROVE  File \in Inodes
BY DEF TypeOK, NoDescriptorLeft, File

LEMMA WalkTypes ==
  ASSUME Typed, Walk
  PROVE  TypeOK'
<1> USE DEF Typed, AtDict, TypeOK, Step, disk, conf, main, cursor, walk, buffer
<1>n. ASSUME NEW n \in Inodes, Opens(n)
      PROVE  FilesOK' /\ New \in Descriptors
  BY <1>n, NewDescriptor DEF Opens, FilesOK
<1>c. ASSUME NEW d, Closes(d)
      PROVE  FilesOK'
  BY <1>c DEF Closes, FilesOK
<1>r. rest # <<>> => Head(rest) \in Names /\ Tail(rest) \in Seq(Names)
  BY HeadTailProperties
<1>1. CASE OpenRoot
  BY <1>1, <1>n DEF OpenRoot, FilesOK
<1>2. CASE RefuseRelative
  BY <1>2 DEF RefuseRelative
<1>3. CASE VetRoot
  BY <1>3 DEF VetRoot
<1>4. CASE RefuseRoot
  BY <1>4, <1>c DEF RefuseRoot, FilesOK
<1>5. CASE RefuseNoLeaf
  BY <1>5, <1>c DEF RefuseNoLeaf, FilesOK
<1>6. CASE RefuseTooLong
  BY <1>6, <1>c DEF RefuseTooLong, FilesOK
<1>7. CASE RefuseDots
  BY <1>7, <1>c DEF RefuseDots, FilesOK
<1>8. CASE OpenAt
  <2>1. Entry \in Entries
    BY <1>8, <1>r, FileNode DEF OpenAt, Component, Entry
  <2>2. Entry.node \in Inodes
    BY <1>8, <2>1 DEF OpenAt, Entries
  <2>3. FilesOK' /\ New \in Descriptors
    BY <1>8, <1>n, <2>2 DEF OpenAt
  <2> QED BY <1>8, <2>3 DEF OpenAt, FilesOK
<1>9. CASE OpenAtFails
  BY <1>9, <1>c DEF OpenAtFails, FilesOK
<1>10. CASE CloseParent
  <2>1. Tail(rest) \in Seq(Names)
    BY <1>10, <1>r DEF CloseParent
  <2> QED BY <1>10, <1>c, <2>1 DEF CloseParent, FilesOK
<1>11. CASE VetDir
  BY <1>11 DEF VetDir
<1>12. CASE RefuseDir
  BY <1>12, <1>c DEF RefuseDir, FilesOK
<1> QED BY <1>1, <1>2, <1>3, <1>4, <1>5, <1>6, <1>7, <1>8, <1>9, <1>10, <1>11, <1>12 DEF Walk

LEMMA OpenTypes ==
  ASSUME TypeOK, Open
  PROVE  TypeOK'
<1> USE DEF TypeOK, Resolving, disk, conf, main, cursor, walk, buffer
<1>r. rest # <<>> => Head(rest) \in Names /\ Tail(rest) \in Seq(Names)
  BY HeadTailProperties
<1>1. CASE Resolve
  <2>1. Found.node \in Inodes
    <3>1. Found \in Entries
      BY <1>1, <1>r DEF Resolve, Found
    <3> QED BY <1>1, <3>1 DEF Resolve, Entries
  <2>2. attr[Found.node].target \in Inodes \X Names
    BY <2>1 DEF Attributes
  <2>3. <<attr[Found.node].target[2]>> \o Tail(rest) \in Seq(Names)
    BY <1>1, <1>r, <2>2 DEF Resolve
  <2>4. at' \in Inodes /\ rest' \in Seq(Names)
    BY <1>1, <1>r, <2>1, <2>2, <2>3 DEF Resolve
  <2>5. clean' \in BOOLEAN
    BY <1>1 DEF Resolve
  <2> QED BY <1>1, <2>4, <2>5 DEF Resolve
<1>2. CASE OpenFile
  <2>1. FilesOK' /\ New \in Descriptors
    BY <1>2, NewDescriptor DEF OpenFile, Opens, FilesOK
  <2> QED BY <1>2, <2>1 DEF OpenFile, FilesOK
<1>3. CASE OpenFileFails
  BY <1>3 DEF OpenFileFails
<1> QED BY <1>1, <1>2, <1>3 DEF Open

LEMMA ReadTypes ==
  ASSUME TypeOK, NoDescriptorLeft, Read
  PROVE  TypeOK'
<1> USE DEF TypeOK, Step, disk, conf, main, cursor, walk, buffer
<1>c. ASSUME NEW d, Closes(d)
      PROVE  FilesOK'
  BY <1>c DEF Closes, FilesOK
<1>1. CASE FdInfo
  <2>1. size' \in 0..MaxDictSize
    BY <1>1 DEF FdInfo, Acceptable
  <2> QED BY <1>1, <2>1 DEF FdInfo
<1>2. CASE RefuseFile
  BY <1>2 DEF RefuseFile, GotoFailed
<1>3. CASE ReadDict
  <2>1. PICK n \in 1..(size - Len(bytes)) : bytes' = bytes \o Delivered(n)
    BY <1>3 DEF ReadDict
  <2>2. bytes' \in Seq(Bytes)
    BY <1>3, <2>1, FileNode, DeliveredBytes DEF ReadDict
  <2> QED BY <1>3, <2>2 DEF ReadDict
<1>4. CASE ReadFails
  BY <1>4 DEF ReadFails, GotoFailed
<1>5. CASE CloseDict
  BY <1>5, <1>c DEF CloseDict, FilesOK
<1>6. CASE CloseDictFails
  BY <1>6, <1>c DEF CloseDictFails, FilesOK
<1>7. CASE CloseFailed
  BY <1>7, <1>c DEF CloseFailed, FilesOK
<1> QED BY <1>1, <1>2, <1>3, <1>4, <1>5, <1>6, <1>7 DEF Read

LEMMA TypeStep ==
  ASSUME Typed, [Next]_vars
  PROVE  Typed'
<1>d. NoDescriptorLeft'
  BY DescriptorsStep DEF Typed
<1>f. CASE Walk \/ Open \/ Read
  <2>1. TypeOK'
    BY <1>f, WalkTypes, OpenTypes, ReadTypes DEF Typed
  <2>2. AtDict'
    BY <1>f, FileSteps DEF Typed, AtDict, conf, Loading
  <2> QED BY <1>d, <2>1, <2>2 DEF Typed
<1>a. ASSUME ~(Walk \/ Open \/ Read)
      PROVE  TypeOK' /\ AtDict'
  <2> USE <1>a DEF Typed, TypeOK, AtDict, Loading, disk, conf, main, walk, cursor, buffer
  <2> HIDE DEF NoDescriptorLeft
  <2>h. lines # <<>> => Head(lines) \in Directives /\ Tail(lines) \in Seq(Directives)
    BY HeadTailProperties
  <2>1. CASE SetStrictPath
    BY <2>1, <2>h DEF SetStrictPath, Parsing, Directives, Unset
  <2>2. CASE SetTrustHashes
    BY <2>2, <2>h DEF SetTrustHashes, Parsing, Directives, Unset
  <2>3. CASE BeginDict
    BY <2>3, <2>h, DictFields DEF BeginDict, Parsing, Unchecked, PaysForHash, HasLiteral, Trust
  <2>4. CASE RejectLine
    BY <2>4 DEF RejectLine
  <2>5. CASE AddDict
    <3>1. Head(lines).block \in Blocks /\ Head(lines).literal \in Seq(Bytes)
      BY <2>5, <2>h, DictFields DEF AddDict
    <3>2. Key \in Seq(Bytes)
      BY <3>1 DEF Key, Hashed
    <3>3. [bytes |-> bytes, hash |-> Key, strict |-> Strict,
           clean |-> clean, way |-> Way] \in Dicts
      BY <3>2 DEF Dicts, Strict, Trusted, Way
    <3>4. dcb_dicts' \in [Blocks -> Seq(Dicts)]
      BY <2>5, <3>1, <3>3 DEF AddDict
    <3> QED BY <2>5, <2>h, <3>4 DEF AddDict, Counted
  <2>6. CASE RejectDict
    BY <2>6 DEF RejectDict, Counted
  <2>7. CASE InitMainConf
    BY <2>7 DEF InitMainConf
  <2>8. CASE MergeConf
    BY <2>8 DEF MergeConf, Blocks
  <2>9. CASE Deploy
    <3>1. tree' \in [Inodes -> [Names -> Entries]]
      <4>1. CASE UNCHANGED tree
        BY <4>1
      <4>2. CASE tree' # tree
        <5>1. PICK m \in Moves : tree' = [tree EXCEPT ![m[1]][m[2]] = [node |-> m[3], by |-> "root"]]
          BY <2>9, <4>2 DEF Deploy
        <5> QED BY <5>1, MoveTypes
      <4> QED BY <4>1, <4>2
    <3>2. content' \in [Inodes -> Contents]
      BY <2>9 DEF Deploy
    <3> QED BY <2>9, <3>1, <3>2 DEF Deploy
  <2>10. CASE OtherUser
    <3>1. tree' \in [Inodes -> [Names -> Entries]]
      <4>1. CASE UNCHANGED tree
        BY <4>1
      <4>2. CASE tree' # tree
        <5>1. PICK m \in Moves : tree' = [tree EXCEPT ![m[1]][m[2]] = [node |-> m[3], by |-> "other"]]
          BY <2>10, <4>2 DEF OtherUser
        <5> QED BY <5>1, MoveTypes
      <4> QED BY <4>1, <4>2
    <3>2. content' \in [Inodes -> Contents]
      BY <2>10 DEF OtherUser
    <3> QED BY <2>10, <3>1, <3>2 DEF OtherUser
  <2>11. CASE UNCHANGED vars
    BY <2>11 DEF vars
  <2> QED BY <2>1, <2>2, <2>3, <2>4, <2>5, <2>6, <2>7, <2>8, <2>9, <2>10, <2>11 DEF Next, Loader
<1> QED BY <1>a, <1>d, <1>f DEF Typed

LEMMA TypeInit == Init => Typed
<1> SUFFICES ASSUME Init PROVE Typed
  OBVIOUS
<1>1. attr \in [Inodes -> Attributes] /\ tree \in [Inodes -> [Names -> Entries]]
      /\ content \in [Inodes -> Contents]
  BY DEF Init
<1>2. dcb_dicts \in [Blocks -> Seq(Dicts)]
  BY DEF Init
<1>3. lines \in Seq(Directives)
  BY DEF Init
<1>4. size \in 0..MaxDictSize /\ bytes \in Seq(Bytes) /\ rest \in Seq(Names)
  BY DEF Init
<1>5. FilesOK
  BY DEF Init, FilesOK
<1> QED BY <1>1, <1>2, <1>3, <1>4, <1>5, DescriptorsInit DEF Init, Typed, TypeOK, AtDict, Loading, FilesOK

(* Every variable keeps its type: in particular the size asked for never    *)
(* exceeds the limit, and an entry pushed before the read is whole.         *)
THEOREM TypeCorrect == Spec => []TypeOK
<1>1. Typed /\ [Next]_vars => Typed'
  BY TypeStep
<1>2. Typed => TypeOK
  BY DEF Typed
<1> QED BY TypeInit, <1>1, <1>2, PTL DEF Spec

(***************************************************************************)
(* What no step changes, and who changes the lists.                         *)
(***************************************************************************)

LEMMA FixedModes == [Next]_vars => UNCHANGED attr
BY LoaderKeepsDisk DEF Next, vars, disk, Deploy, OtherUser

LEMMA ListSteps == [Next]_vars => AddDict \/ MergeConf \/ UNCHANGED dcb_dicts
BY FileSteps DEF Next, Loader, vars, conf, SetStrictPath, SetTrustHashes, BeginDict, RejectLine,
                 RejectDict, InitMainConf, Deploy, OtherUser

Loaded ==
  [bytes |-> bytes, hash |-> Key, strict |-> Strict, clean |-> clean, way |-> Way]

(* Merging lists nothing new; a step that adds lists one dictionary more.   *)
LEMMA ListedSteps ==
  ASSUME TypeOK, TypeOK', AtDict, [Next]_vars
  PROVE  /\ AddDict => Listed' = Listed \cup {Loaded}
         /\ ~AddDict => Listed' \subseteq Listed
         /\ MergeConf => Listed' = Listed
<1>1. CASE AddDict
  <2>1. Head(lines) \in Directives /\ Head(lines).kind = "dict"
    BY <1>1, HeadTailProperties DEF AddDict, AtDict, Loading, TypeOK
  <2> DEFINE h == Head(lines).block
  <2>2. h \in Blocks
    BY <2>1, DictFields
  <2> HIDE DEF h
  <2>3. dcb_dicts' = [dcb_dicts EXCEPT ![h] = Append(@, Loaded)]
    BY <1>1 DEF AddDict, Loaded, h
  <2>4. dcb_dicts'[h] = Append(dcb_dicts[h], Loaded)
    BY <2>2, <2>3 DEF TypeOK
  <2>5. DOMAIN dcb_dicts'[h] = DOMAIN dcb_dicts[h] \cup {Len(dcb_dicts[h]) + 1}
    <3>1. dcb_dicts[h] \in Seq(Dicts) /\ dcb_dicts'[h] \in Seq(Dicts)
      BY <2>2 DEF TypeOK
    <3>2. Len(dcb_dicts'[h]) = Len(dcb_dicts[h]) + 1
      BY <2>4, <3>1
    <3>3. DOMAIN dcb_dicts[h] = 1..Len(dcb_dicts[h]) /\ DOMAIN dcb_dicts'[h] = 1..Len(dcb_dicts'[h])
      BY <3>1, LenProperties
    <3> QED BY <3>1, <3>2, <3>3, LenProperties
  <2>6. /\ \A i \in DOMAIN dcb_dicts[h] : dcb_dicts'[h][i] = dcb_dicts[h][i]
        /\ dcb_dicts'[h][Len(dcb_dicts[h]) + 1] = Loaded
    BY <2>2, <2>4, SMTT(30) DEF TypeOK
  <2>7. \A b \in Blocks \ {h} : dcb_dicts'[b] = dcb_dicts[b]
    BY <2>2, <2>3 DEF TypeOK
  <2>8. Listed' = Listed \cup {Loaded}
    BY <2>2, <2>5, <2>6, <2>7 DEF Listed
  <2>9. ~MergeConf
    BY <1>1 DEF AddDict, MergeConf
  <2> QED BY <1>1, <2>8, <2>9
<1>2. CASE MergeConf
  <2>1. CASE dcb_dicts["location"] = <<>>
    <3>1. dcb_dicts'["location"] = dcb_dicts["main"] /\ dcb_dicts'["main"] = dcb_dicts["main"]
      BY <1>2, <2>1 DEF MergeConf, TypeOK, Blocks
    <3>2. Listed' = {dcb_dicts["main"][i] : i \in DOMAIN dcb_dicts["main"]}
      BY <3>1 DEF Listed, Blocks
    <3>3. Listed = {dcb_dicts["main"][i] : i \in DOMAIN dcb_dicts["main"]}
      BY <2>1 DEF Listed, Blocks
    <3> QED BY <1>2, <3>2, <3>3 DEF MergeConf, AddDict
  <2>2. CASE dcb_dicts["location"] # <<>>
    BY <1>2, <2>2 DEF MergeConf, Listed, AddDict
  <2> QED BY <2>1, <2>2
<1>3. CASE UNCHANGED dcb_dicts /\ ~AddDict
  BY <1>3 DEF Listed
<1> QED BY <1>1, <1>2, <1>3, ListSteps

(***************************************************************************)
(* The walk.                                                                *)
(***************************************************************************)

(* The entries of a directory only root may write are root's.               *)
Planted == \A n \in Inodes, m \in Names : Trusted(n) => tree[n][m].by = "root"

(* In a strict walk the directory next opened relative to is vetted, and    *)
(* nothing passed so far was planted.                                       *)
Walked ==
  Strict => /\ pc \in Loading => clean
            /\ pc = "walk" => Trusted(File)

LEMMA PlantedStep ==
  ASSUME TypeOK, Planted, [Next]_vars
  PROVE  Planted'
<1> USE FixedModes DEF Planted, Trusted, disk
<1>1. CASE Loader
  BY <1>1, LoaderKeepsDisk
<1>2. CASE Deploy
  <2>1. CASE UNCHANGED tree
    BY <1>2, <2>1 DEF Deploy
  <2>2. CASE tree' # tree
    <3>1. PICK m \in Moves : tree' = [tree EXCEPT ![m[1]][m[2]] = [node |-> m[3], by |-> "root"]]
      BY <1>2, <2>2 DEF Deploy
    <3>2. m[1] \in Inodes /\ m[2] \in Names
      OBVIOUS
    <3>3. \A n \in Inodes, k \in Names :
            tree'[n][k] = IF n = m[1] /\ k = m[2] THEN [node |-> m[3], by |-> "root"] ELSE tree[n][k]
      BY <3>1, <3>2 DEF TypeOK
    <3> QED BY <1>2, <3>1, <3>3 DEF Deploy, Trusted
  <2> QED BY <2>1, <2>2
<1>3. CASE OtherUser
  <2>1. CASE UNCHANGED tree
    BY <1>3, <2>1 DEF OtherUser
  <2>2. CASE tree' # tree
    <3>1. PICK m \in Moves : /\ tree' = [tree EXCEPT ![m[1]][m[2]] = [node |-> m[3], by |-> "other"]]
                             /\ ~Trusted(m[1])
      BY <1>3, <2>2 DEF OtherUser
    <3>2. m[1] \in Inodes /\ m[2] \in Names
      OBVIOUS
    <3>3. \A n \in Inodes, k \in Names :
            tree'[n][k] = IF n = m[1] /\ k = m[2] THEN [node |-> m[3], by |-> "other"] ELSE tree[n][k]
      BY <3>1, <3>2 DEF TypeOK
    <3> QED BY <1>3, <3>1, <3>3 DEF OtherUser, Trusted
  <2> QED BY <2>1, <2>2
<1>4. CASE UNCHANGED vars
  BY <1>4 DEF vars
<1> QED BY <1>1, <1>2, <1>3, <1>4 DEF Next

LEMMA WalkedStep ==
  ASSUME TypeOK, NoDescriptorLeft, Planted, Walked, [Next]_vars
  PROVE  Walked'
<1> USE FixedModes DEF Walked, Strict, Trusted, File, Loading, Step, disk, conf, main, walk, cursor
<1>1. CASE SetStrictPath
  BY <1>1 DEF SetStrictPath, Parsing
<1>2. CASE SetTrustHashes
  BY <1>2 DEF SetTrustHashes, Parsing
<1>3. CASE BeginDict
  BY <1>3 DEF BeginDict
<1>4. CASE RejectLine
  BY <1>4 DEF RejectLine
<1>5. CASE Walk
  <2>1. CASE OpenAt
    <3>1. Head(rest) \in Names
      BY <2>1, HeadTailProperties DEF OpenAt, Component, TypeOK
    <3>2. File \in Inodes
      BY <2>1, FileNode DEF OpenAt
    <3>3. Strict => Entry.by = "root"
      BY <2>1, <3>1, <3>2 DEF OpenAt, Entry, Planted
    <3> QED BY <2>1, <3>3 DEF OpenAt
  <2>2. CASE VetRoot \/ VetDir
    BY <2>2 DEF VetRoot, VetDir, Vets
  <2>3. CASE ~OpenAt /\ ~VetRoot /\ ~VetDir
    BY <1>5, <2>3 DEF Walk, OpenRoot, RefuseRelative, RefuseRoot, RefuseNoLeaf, RefuseTooLong,
                      RefuseDots, OpenAtFails, CloseParent, RefuseDir
  <2> QED BY <2>1, <2>2, <2>3
<1>6. CASE Open
  BY <1>6 DEF Open, Resolve, OpenFile, OpenFileFails, Resolving
<1>7. CASE Read
  <2>1. CASE FdInfo
    BY <2>1 DEF FdInfo, Acceptable
  <2>2. CASE ~FdInfo
    BY <1>7, <2>2 DEF Read, RefuseFile, GotoFailed, ReadDict, ReadFails, CloseDict, CloseDictFails,
                      CloseFailed
  <2> QED BY <2>1, <2>2
<1>8. CASE AddDict
  BY <1>8 DEF AddDict
<1>9. CASE RejectDict
  BY <1>9 DEF RejectDict
<1>10. CASE InitMainConf
  BY <1>10 DEF InitMainConf
<1>11. CASE MergeConf
  BY <1>11 DEF MergeConf
<1>12. CASE Deploy
  BY <1>12 DEF Deploy
<1>13. CASE OtherUser
  BY <1>13 DEF OtherUser
<1>14. CASE UNCHANGED vars
  BY <1>14 DEF vars
<1> QED BY <1>1, <1>2, <1>3, <1>4, <1>5, <1>6, <1>7, <1>8, <1>9, <1>10, <1>11, <1>12, <1>13,
           <1>14 DEF Next, Loader

(***************************************************************************)
(* What the records say of the dictionaries loaded.                         *)
(***************************************************************************)

Recorded ==
  /\ ~dict_loaded_before_strict_on =>
       (pc \in Loading => Strict) /\ \A d \in Listed : d.strict
  /\ ~dcb_dict_verified_before_trust_on =>
       (pc \in Loading /\ HasLiteral => Trust) /\ \A d \in Listed : d.way # "verified"
  /\ \A d \in Listed : d.strict => d.clean
  /\ pc \in {"merge", "loaded"} => Ordered

LEMMA RecordedStep ==
  ASSUME TypeOK, TypeOK', AtDict, Walked, Recorded, [Next]_vars
  PROVE  Recorded'
<1> USE DEF Recorded, Strict, Trust, HasLiteral, Ordered, Loading, disk, conf, main, walk, cursor, buffer
<1>l. /\ AddDict => Listed' = Listed \cup {Loaded}
      /\ ~AddDict => Listed' \subseteq Listed
  BY ListedSteps
<1> HIDE DEF Listed
<1>1. CASE SetStrictPath
  BY <1>1, <1>l DEF SetStrictPath, AddDict, Parsing, Unset
<1>2. CASE SetTrustHashes
  BY <1>2, <1>l DEF SetTrustHashes, AddDict, Parsing, Unset
<1>3. CASE BeginDict
  BY <1>3, <1>l DEF BeginDict, AddDict, Unchecked, PaysForHash, Parsing
<1>4. CASE RejectLine
  BY <1>4, <1>l DEF RejectLine, AddDict
<1>5. CASE Walk \/ Open \/ Read
  BY <1>5, FileSteps, <1>l DEF conf, AddDict
<1>6. CASE AddDict
  <2>1. Loaded.strict = Strict /\ (Strict => Loaded.clean)
    BY <1>6 DEF AddDict, Loaded, Walked
  <2>2. Loaded.way = "verified" => HasLiteral /\ ~Trust
    BY DEF Loaded, Way
  <2> QED BY <1>6, <1>l, <2>1, <2>2 DEF AddDict
<1>7. CASE RejectDict
  BY <1>7, <1>l DEF RejectDict, AddDict
<1>8. CASE InitMainConf
  BY <1>8, <1>l DEF InitMainConf, AddDict, Unset
<1>9. CASE MergeConf
  BY <1>9, <1>l DEF MergeConf, AddDict
<1>10. CASE Deploy
  BY <1>10, <1>l DEF Deploy, AddDict
<1>11. CASE OtherUser
  BY <1>11, <1>l DEF OtherUser, AddDict
<1>12. CASE UNCHANGED vars
  BY <1>12, <1>l DEF vars, AddDict
<1> QED BY <1>1, <1>2, <1>3, <1>4, <1>5, <1>6, <1>7, <1>8, <1>9, <1>10, <1>11, <1>12 DEF Next, Loader

LEMMA ListedInit == Init => Listed = {}
BY DEF Init, Listed, Blocks

CleanInv == Typed /\ Planted /\ Walked /\ Recorded

LEMMA CleanInvariant == Spec => []CleanInv
<1>1. Init => CleanInv
  BY TypeInit, ListedInit DEF Init, CleanInv, Planted, Walked, Recorded, Loading, Trusted
<1>2. CleanInv /\ [Next]_vars => CleanInv'
  BY TypeStep, PlantedStep, WalkedStep, RecordedStep DEF CleanInv, Typed
<1> QED BY <1>1, <1>2, PTL DEF Spec

(* However the directives are ordered and the files moved, a configuration  *)
(* that ends strict holds no dictionary another user planted or may write:  *)
(* the walk vets each directory before it opens relative to it, and what    *)
(* was loaded without the walk was recorded.                                *)
THEOREM CleanDictionaries == Spec => []OnlyCleanDictionaries
<1>1. CleanInv => OnlyCleanDictionaries
  BY DEF CleanInv, Recorded, OnlyCleanDictionaries, Ordered, Strict
<1> QED BY CleanInvariant, <1>1, PTL

(***************************************************************************)
(* The bytes.                                                               *)
(***************************************************************************)

Placed(s) == \A i \in 1..Len(s) : s[i][1] = i

Buffered ==
  /\ pc \in {"read", "hash"} => size \in 1..MaxDictSize /\ Len(bytes) <= size /\ Placed(bytes)
  /\ pc = "hash" => Len(bytes) = size

LEMMA BufferedStep ==
  ASSUME TypeOK, NoDescriptorLeft, Buffered, [Next]_vars
  PROVE  Buffered'
<1> USE DEF Buffered, Placed, Step, buffer
<1>1. CASE SetStrictPath
  BY <1>1 DEF SetStrictPath, Parsing
<1>2. CASE SetTrustHashes
  BY <1>2 DEF SetTrustHashes, Parsing
<1>3. CASE BeginDict
  BY <1>3 DEF BeginDict
<1>4. CASE RejectLine
  BY <1>4 DEF RejectLine
<1>5. CASE Walk
  BY <1>5 DEF Walk, OpenRoot, RefuseRelative, VetRoot, RefuseRoot, RefuseNoLeaf, RefuseTooLong,
              RefuseDots, OpenAt, OpenAtFails, CloseParent, VetDir, RefuseDir
<1>6. CASE Open
  BY <1>6 DEF Open, Resolve, OpenFile, OpenFileFails, Resolving
<1>7. CASE FdInfo
  BY <1>7 DEF FdInfo, Acceptable
<1>8. CASE ReadDict
  <2>1. PICK n \in 1..(size - Len(bytes)) : bytes' = bytes \o Delivered(n)
    BY <1>8 DEF ReadDict
  <2>2. size \in Nat /\ Len(bytes) \in Nat /\ n \in Nat
    BY <2>1 DEF TypeOK
  <2>3. Delivered(n) \in Seq(Bytes) /\ Len(Delivered(n)) = n
        /\ \A i \in 1..n : Delivered(n)[i][1] = Len(bytes) + i
    BY <1>8, <2>2, FileNode, DeliveredBytes DEF ReadDict
  <2>4. Len(bytes') = Len(bytes) + n
    <3>1. bytes \in Seq(Bytes)
      BY DEF TypeOK
    <3>2. Len(bytes \o Delivered(n)) = Len(bytes) + Len(Delivered(n))
      BY <2>3, <3>1, ConcatProperties
    <3> QED BY <2>1, <2>3, <3>2
  <2>5. ASSUME NEW i \in 1..(Len(bytes) + n) PROVE bytes'[i][1] = i
    <3>1. CASE i <= Len(bytes)
      <4>1. bytes'[i] = bytes[i]
        BY <2>1, <2>2, <2>3, <3>1, ConcatProperties DEF TypeOK
      <4>2. i \in 1..Len(bytes)
        BY <2>2, <3>1
      <4> QED BY <1>8, <4>1, <4>2 DEF ReadDict
    <3>2. CASE i > Len(bytes)
      <4>1. i - Len(bytes) \in 1..n /\ Len(bytes) + (i - Len(bytes)) = i
        BY <2>2, <3>2
      <4>2. bytes'[i] = Delivered(n)[i - Len(bytes)]
        BY <2>1, <2>2, <2>3, <3>2, ConcatProperties DEF TypeOK
      <4> QED BY <2>3, <4>1, <4>2
    <3> QED BY <2>2, <3>1, <3>2
  <2> QED BY <1>8, <2>1, <2>2, <2>4, <2>5 DEF ReadDict
<1>9. CASE CloseDict
  BY <1>9 DEF CloseDict, Complete
<1>10. CASE RefuseFile \/ ReadFails \/ CloseDictFails \/ CloseFailed
  BY <1>10 DEF RefuseFile, GotoFailed, ReadFails, CloseDictFails, CloseFailed
<1>11. CASE AddDict
  BY <1>11 DEF AddDict
<1>12. CASE RejectDict
  BY <1>12 DEF RejectDict
<1>13. CASE InitMainConf
  BY <1>13 DEF InitMainConf
<1>14. CASE MergeConf
  BY <1>14 DEF MergeConf
<1>15. CASE Deploy
  BY <1>15 DEF Deploy
<1>16. CASE OtherUser
  BY <1>16 DEF OtherUser
<1>17. CASE UNCHANGED vars
  BY <1>17 DEF vars
<1> QED BY <1>1, <1>2, <1>3, <1>4, <1>5, <1>6, <1>7, <1>8, <1>9, <1>10, <1>11, <1>12, <1>13,
           <1>14, <1>15, <1>16, <1>17 DEF Next, Loader, Read

LEMMA WholeStep ==
  ASSUME TypeOK, TypeOK', AtDict, Buffered, DictionariesWhole, [Next]_vars
  PROVE  DictionariesWhole'
<1>1. CASE AddDict
  <2>1. Listed' = Listed \cup {Loaded}
    BY <1>1, ListedSteps
  <2>2. Len(Loaded.bytes) \in 1..MaxDictSize /\ \A i \in DOMAIN Loaded.bytes : Loaded.bytes[i][1] = i
    <3>1. Loaded.bytes = bytes
      BY DEF Loaded
    <3>2. bytes \in Seq(Bytes) /\ DOMAIN bytes = 1..Len(bytes)
      BY DEF TypeOK
    <3> QED BY <1>1, <3>1, <3>2 DEF AddDict, Buffered, Placed
  <2>3. Loaded.way # "trusted" => Loaded.hash = Loaded.bytes
    BY <1>1 DEF Loaded, Way, Key, Hashed
  <2> QED BY <2>1, <2>2, <2>3 DEF DictionariesWhole, BytesInOrder, KeyNamesBytes
<1>2. CASE ~AddDict
  BY <1>2, ListedSteps DEF DictionariesWhole, BytesInOrder, KeyNamesBytes
<1> QED BY <1>1, <1>2

BytesInv == Typed /\ Buffered /\ DictionariesWhole

LEMMA BytesInvariant == Spec => []BytesInv
<1>1. Init => BytesInv
  BY TypeInit, ListedInit DEF Init, BytesInv, Buffered, DictionariesWhole, BytesInOrder, KeyNamesBytes
<1>2. BytesInv /\ [Next]_vars => BytesInv'
  BY TypeStep, BufferedStep, WholeStep DEF BytesInv, Typed
<1> QED BY <1>1, <1>2, PTL DEF Spec

(* A dictionary holds the file's bytes, each once and in its place, for     *)
(* every sequence of short reads and every rewriting in between: the read   *)
(* continues at the position reached and stops at the size taken first.     *)
(* Its key, unless a trusted literal, is the hash of the bytes kept.        *)
THEOREM WholeDictionaries == Spec => []DictionariesWhole
<1>1. BytesInv => DictionariesWhole
  BY DEF BytesInv
<1> QED BY BytesInvariant, <1>1, PTL

(***************************************************************************)
(* Keys.                                                                    *)
(***************************************************************************)

(* A key added is new to its block; an inherited list is a whole one.       *)
LEMMA KeysStep ==
  ASSUME TypeOK, TypeOK', AtDict, KeysDistinct, [Next]_vars
  PROVE  KeysDistinct'
<1>1. CASE AddDict
  <2>1. Head(lines) \in Directives /\ Head(lines).kind = "dict"
    BY <1>1, HeadTailProperties DEF AddDict, AtDict, Loading, TypeOK
  <2> DEFINE h == Head(lines).block
  <2>2. h \in Blocks
    BY <2>1, DictFields
  <2>3. dcb_dicts' = [dcb_dicts EXCEPT ![h] = Append(@, Loaded)] /\ ~Repeats(h)
    BY <1>1 DEF AddDict, Loaded
  <2> HIDE DEF h
  <2>4. dcb_dicts'[h] = Append(dcb_dicts[h], Loaded) /\ dcb_dicts[h] \in Seq(Dicts)
    BY <2>2, <2>3 DEF TypeOK
  <2> DEFINE n == Len(dcb_dicts[h])
  <2>5. /\ n \in Nat
        /\ DOMAIN dcb_dicts[h] = 1..n
        /\ DOMAIN dcb_dicts'[h] = 1..(n + 1)
        /\ dcb_dicts'[h][n + 1] = Loaded
        /\ \A i \in 1..n : dcb_dicts'[h][i] = dcb_dicts[h][i]
    <3>1. dcb_dicts'[h] \in Seq(Dicts) /\ Len(dcb_dicts'[h]) = n + 1
      BY <2>2, <2>4, SMTT(30) DEF TypeOK
    <3>2. DOMAIN dcb_dicts'[h] = 1..(n + 1)
      BY <3>1, LenProperties
    <3> QED BY <2>4, <3>2
  <2> HIDE DEF n
  <2>6. \A i \in 1..n : dcb_dicts[h][i].hash # Loaded.hash
    BY <2>3, <2>5 DEF Repeats, Loaded
  <2>7. ASSUME NEW i \in 1..(n + 1), NEW j \in 1..(n + 1), dcb_dicts'[h][i].hash = dcb_dicts'[h][j].hash
        PROVE  i = j
    <3>1. \A k \in 1..(n + 1) : k \in 1..n \/ k = n + 1
      BY <2>5
    <3>2. CASE i \in 1..n /\ j \in 1..n
      BY <2>2, <2>5, <2>7, <3>2 DEF KeysDistinct
    <3> QED BY <2>5, <2>6, <2>7, <3>1, <3>2
  <2>8. \A b \in Blocks \ {h} : dcb_dicts'[b] = dcb_dicts[b]
    BY <2>2, <2>3 DEF TypeOK
  <2> QED BY <2>5, <2>7, <2>8 DEF KeysDistinct
<1>2. CASE MergeConf
  <2>1. \A b \in Blocks : \E c \in Blocks : dcb_dicts'[b] = dcb_dicts[c]
    BY <1>2 DEF MergeConf, TypeOK, Blocks
  <2> QED BY <2>1 DEF KeysDistinct
<1>3. CASE UNCHANGED dcb_dicts
  BY <1>3 DEF KeysDistinct
<1> QED BY <1>1, <1>2, <1>3, ListSteps

(* In no block do two dictionaries share a key.                             *)
THEOREM DistinctKeys == Spec => []KeysDistinct
<1>1. Init => Typed /\ KeysDistinct
  BY TypeInit DEF Init, KeysDistinct
<1>2. Typed /\ KeysDistinct /\ [Next]_vars => Typed' /\ KeysDistinct'
  BY TypeStep, KeysStep DEF Typed
<1> QED BY TypeInit, <1>1, <1>2, PTL DEF Spec

(***************************************************************************)
(* The count.                                                               *)
(***************************************************************************)

Tally ==
  pc \notin {"loaded", "failed"} =>
    IsFiniteSet(HashedOnes) /\ dcb_dicts_hashed = Cardinality(HashedOnes)

LEMMA TallyAdd ==
  ASSUME TypeOK, TypeOK', AtDict, Tally, AddDict
  PROVE  Tally'
<1>1. Head(lines) \in Directives /\ Head(lines).kind = "dict"
  BY HeadTailProperties DEF AddDict, AtDict, Loading, TypeOK
<1> DEFINE h == Head(lines).block
           n == Len(dcb_dicts[h])
<1>2. h \in Blocks
  BY <1>1, DictFields
<1>3. dcb_dicts' = [dcb_dicts EXCEPT ![h] = Append(@, Loaded)]
  BY DEF AddDict, Loaded
<1> HIDE DEF h
<1>4. dcb_dicts'[h] = Append(dcb_dicts[h], Loaded) /\ dcb_dicts[h] \in Seq(Dicts)
  BY <1>2, <1>3 DEF TypeOK
<1>5. /\ n \in Nat
      /\ DOMAIN dcb_dicts[h] = 1..n
      /\ DOMAIN dcb_dicts'[h] = 1..(n + 1)
      /\ dcb_dicts'[h][n + 1] = Loaded
      /\ \A i \in 1..n : dcb_dicts'[h][i] = dcb_dicts[h][i]
  <2>1. dcb_dicts'[h] \in Seq(Dicts) /\ Len(dcb_dicts'[h]) = n + 1
    BY <1>2, <1>4, SMTT(30) DEF TypeOK
  <2>2. DOMAIN dcb_dicts'[h] = 1..(n + 1)
    BY <2>1, LenProperties
  <2> QED BY <1>4, <2>2
<1> HIDE DEF n
<1>6. 1..(n + 1) = (1..n) \cup {n + 1} /\ n + 1 \notin 1..n
  BY <1>5
<1>7. \A b \in Blocks \ {h} : dcb_dicts'[b] = dcb_dicts[b]
  BY <1>2, <1>3 DEF TypeOK
<1>8. CASE Way = "trusted"
  <2>1. HashedOnes' = HashedOnes
    <3> DEFINE hashed(dicts) == {<<h, i>> : i \in {j \in DOMAIN dicts : dicts[j].way # "trusted"}}
    <3>1. Loaded.way = "trusted"
      BY <1>8 DEF Loaded
    <3>2. hashed(dcb_dicts'[h]) = hashed(dcb_dicts[h])
      BY <1>5, <1>6, <3>1
    <3>3. \A b \in Blocks :
            {<<b, i>> : i \in {j \in DOMAIN dcb_dicts'[b] : dcb_dicts'[b][j].way # "trusted"}}
              = {<<b, i>> : i \in {j \in DOMAIN dcb_dicts[b] : dcb_dicts[b][j].way # "trusted"}}
      BY <1>7, <3>2
    <3> QED BY <3>3 DEF HashedOnes
  <2> QED BY <1>8, <2>1 DEF Tally, AddDict, Counted
<1>9. CASE Way # "trusted"
  <2>1. HashedOnes' = HashedOnes \cup {<<h, n + 1>>}
    BY <1>2, <1>5, <1>6, <1>7, <1>9, SMTT(30) DEF HashedOnes, Loaded
  <2>2. <<h, n + 1>> \notin HashedOnes
    BY <1>5, <1>6 DEF HashedOnes
  <2>3. IsFiniteSet(HashedOnes') /\ Cardinality(HashedOnes') = Cardinality(HashedOnes) + 1
    <3>1. IsFiniteSet(HashedOnes)
      BY DEF Tally, AddDict
    <3> QED BY <2>1, <2>2, <3>1, FS_AddElement
  <2> QED BY <1>9, <2>3 DEF Tally, AddDict, Counted
<1> QED BY <1>8, <1>9

LEMMA TallyStep ==
  ASSUME TypeOK, TypeOK', AtDict, Tally, [Next]_vars
  PROVE  Tally'
<1>1. CASE AddDict
  BY <1>1, TallyAdd
<1> USE DEF disk, conf, main, walk, cursor, buffer
<1>t. ASSUME UNCHANGED <<dcb_dicts, dcb_dicts_hashed>>, pc' \in {"loaded", "failed"} \/ pc \notin {"loaded", "failed"}
      PROVE  Tally'
  BY <1>t DEF Tally, HashedOnes
<1>2. CASE SetStrictPath
  BY <1>2, <1>t DEF SetStrictPath, Parsing
<1>3. CASE SetTrustHashes
  BY <1>3, <1>t DEF SetTrustHashes, Parsing
<1>4. CASE BeginDict
  BY <1>4, <1>t DEF BeginDict, Parsing
<1>5. CASE RejectLine
  BY <1>5, <1>t DEF RejectLine, Parsing
<1>6. CASE Walk \/ Open \/ Read
  BY <1>6, FileSteps, <1>t DEF conf, Loading
<1>7. CASE RejectDict
  BY <1>7 DEF RejectDict, Tally
<1>8. CASE InitMainConf
  BY <1>8, <1>t DEF InitMainConf
<1>9. CASE MergeConf
  BY <1>9 DEF MergeConf, Tally
<1>10. CASE Deploy
  BY <1>10, <1>t DEF Deploy
<1>11. CASE OtherUser
  BY <1>11, <1>t DEF OtherUser
<1>12. CASE UNCHANGED vars
  BY <1>12, <1>t DEF vars
<1> QED BY <1>1, <1>2, <1>3, <1>4, <1>5, <1>6, <1>7, <1>8, <1>9, <1>10, <1>11, <1>12 DEF Next, Loader

(* The counter is the number of dictionaries whose key is not a trusted     *)
(* literal, as long as the configuration is parsed.                         *)
THEOREM CountExact == Spec => []HashesCounted
<1>1. Init => Tally
  <2>1. Init => HashedOnes = {}
    BY DEF Init, HashedOnes, Blocks
  <2> QED BY <2>1, FS_EmptySet DEF Init, Tally
<1>2. Init => Typed /\ Tally
  BY <1>1, TypeInit
<1>3. Typed /\ Tally /\ [Next]_vars => Typed' /\ Tally'
  BY TypeStep, TallyStep DEF Typed
<1>4. Tally => HashesCounted
  BY DEF Tally, HashesCounted
<1> QED BY <1>2, <1>3, <1>4, PTL DEF Spec

(***************************************************************************)
(* The policies.                                                            *)
(***************************************************************************)

Mapped == {[strict |-> d.strict, way |-> d.way] : d \in Listed}

LEMMA PolicyStep ==
  ASSUME CleanInv, CleanInv', [Next]_vars
  PROVE  [Policy!Next]_(Policy!vars)
<1> USE DEF CleanInv, Strict, Trust, disk, conf, main, walk, cursor, buffer
<1>v. TypeOK /\ TypeOK' /\ AtDict /\ Recorded /\ Recorded'
  BY DEF Typed
<1> HIDE DEF CleanInv
<1>l. UNCHANGED dcb_dicts => UNCHANGED Listed
  BY DEF Listed
<1>s. ASSUME UNCHANGED <<dcb_dicts, dict_strict_path, dcb_dict_trust_hashes>>,
             pc' # "loaded" \/ pc = "loaded", pc' = "failed" => pc = "failed",
             pc \in {"loaded", "failed"} => pc' = pc
      PROVE  [Policy!Next]_(Policy!vars)
  BY <1>s, <1>l DEF Policy!vars
<1>f. ASSUME UNCHANGED <<dcb_dicts, dict_strict_path, dcb_dict_trust_hashes>>,
             pc \notin {"loaded", "failed"}, pc' = "failed"
      PROVE  [Policy!Next]_(Policy!vars)
  BY <1>f, <1>l DEF Policy!Next, Policy!Reject
<1>1. CASE SetStrictPath
  <2>1. CASE dict_strict_path = Unset
    BY <1>1, <2>1, <1>l DEF SetStrictPath, Parsing, Unset, Policy!Next, Policy!Declare, Policy!vars
  <2>2. CASE dict_strict_path # Unset
    BY <1>1, <2>2, <1>f DEF SetStrictPath, Parsing
  <2> QED BY <2>1, <2>2
<1>2. CASE SetTrustHashes
  <2>1. CASE dcb_dict_trust_hashes = Unset
    BY <1>2, <2>1, <1>l DEF SetTrustHashes, Parsing, Unset, Policy!Next, Policy!Declare, Policy!vars
  <2>2. CASE dcb_dict_trust_hashes # Unset
    BY <1>2, <2>2, <1>f DEF SetTrustHashes, Parsing
  <2> QED BY <2>1, <2>2
<1>3. CASE BeginDict
  BY <1>3, <1>s DEF BeginDict, Parsing
<1>4. CASE RejectLine
  BY <1>4, <1>f DEF RejectLine, Parsing
<1>5. CASE Walk \/ Open \/ Read
  <2>1. CASE pc' = "failed"
    BY <1>5, <2>1, FileSteps, <1>f DEF conf, Loading
  <2>2. CASE pc' # "failed"
    BY <1>5, <2>2, FileSteps, <1>s DEF conf, Loading
  <2> QED BY <2>1, <2>2
<1>6. CASE AddDict
  <2>1. Listed' = Listed \cup {Loaded}
    BY <1>6, <1>v, ListedSteps
  <2> DEFINE d == [strict |-> Loaded.strict, way |-> Loaded.way]
  <2>2. Mapped' = Mapped \cup {d}
    BY <2>1 DEF Mapped
  <2>3. d \in Policy!Loads /\ d.strict = Strict
    BY DEF Policy!Loads, Loaded, Way
  <2>4. d.way = "trusted" => Trust
    BY DEF Loaded, Way
  <2>5. d.way = "verified" => ~Trust
    BY DEF Loaded, Way
  <2> HIDE DEF d, Strict, Trust
  <2>6. Policy!Load
    BY <1>6, <2>2, <2>3, <2>4, <2>5 DEF Policy!Load, AddDict, Mapped, Strict, Trust
  <2> QED BY <2>6 DEF Policy!Next
<1>7. CASE RejectDict
  BY <1>7, <1>f DEF RejectDict
<1>8. CASE InitMainConf
  <2>1. (Strict' <=> Strict) /\ (Trust' <=> Trust)
    BY <1>8 DEF InitMainConf, Unset
  <2>2. UNCHANGED Listed /\ pc = "parse" /\ pc' \in {"merge", "failed"}
    BY <1>8, <1>l DEF InitMainConf
  <2>3. (dict_strict_path = 1)' = (dict_strict_path = 1) /\ (dcb_dict_trust_hashes = 1)' = (dcb_dict_trust_hashes = 1)
    BY <1>8 DEF InitMainConf, Unset
  <2> QED BY <2>2, <2>3 DEF Policy!Next, Policy!Reject, Policy!vars
<1>9. CASE MergeConf
  <2>1. Listed' = Listed
    BY <1>9, <1>v, ListedSteps
  <2>2. Ordered
    BY <1>9, <1>v DEF MergeConf, Recorded
  <2>3. Strict => \A d \in Mapped : d.strict
    BY <1>v, <2>2 DEF Ordered, Recorded, Mapped
  <2>4. Trust => \A d \in Mapped : d.way # "verified"
    BY <1>v, <2>2 DEF Ordered, Recorded, Mapped
  <2>5. Policy!Accept
    BY <1>9, <2>1, <2>3, <2>4 DEF Policy!Accept, MergeConf, Mapped
  <2> QED BY <2>5 DEF Policy!Next
<1>10. CASE Deploy
  BY <1>10, <1>s DEF Deploy
<1>11. CASE OtherUser
  BY <1>11, <1>s DEF OtherUser
<1>12. CASE UNCHANGED vars
  BY <1>12, <1>s DEF vars
<1> QED BY <1>1, <1>2, <1>3, <1>4, <1>5, <1>6, <1>7, <1>8, <1>9, <1>10, <1>11, <1>12 DEF Next, Loader

(* Whatever loads fulfils the policies in force at its end, although each   *)
(* dictionary was loaded under those parsed before it.                      *)
THEOREM PolicyImplemented == Spec => ImplementsPolicy
<1>1. Init => Policy!Init
  BY ListedInit DEF Init, Policy!Init, Strict, Trust, Unset
<1>2. CleanInv /\ CleanInv' /\ [Next]_vars => [Policy!Next]_(Policy!vars)
  BY PolicyStep
<1> QED BY CleanInvariant, <1>1, <1>2, PTL DEF Spec, ImplementsPolicy, Policy!Spec

=============================================================================
