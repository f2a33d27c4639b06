-------------------------- MODULE DictionaryLoading --------------------------
(***************************************************************************)
(* brotli_dcb_dict_file and the two policies that govern it, from the       *)
(* configuration's first line to the merged configuration, while the file   *)
(* system changes: src/filter/ngx_http_brotli_filter_module.c.  Between two *)
(* system calls root may deploy other files and another user may do what    *)
(* the modes allow.  Owners and modes are fixed; nothing is persisted, a    *)
(* configuration that fails is dropped whole.                               *)
(***************************************************************************)
EXTENDS Integers, Sequences, FiniteSets

CONSTANTS
  Inodes, Root,         \* the file system's nodes, "/" among them
  Names,                \* names of directory entries
  Nothing,              \* what an entry holds that does not exist
  Layouts,              \* file systems to start from: attr, tree, content
  Moves,                \* entries <<directory, name, node>> that may come to be
  Contents,             \* what a file may hold: its length, and which writing it is
  Rewrites,             \* files <<node, content>> that may be rewritten
  MaxDictSize,          \* NGX_HTTP_BROTLI_MAX_DICT_SIZE
  Configs,              \* configurations: sequences of directives
  TooLong,              \* names of NGX_MAX_PATH bytes or more
  Descriptors,          \* the descriptors the process has to give
  NoFile                \* NGX_INVALID_FILE

Unset == -1             \* NGX_CONF_UNSET
NoLiteral == <<>>                       \* a dictionary line without a hash
Malformed == <<<<0, "malformed">>>>     \* one whose hash is not 64 hex digits

(* owner is "root", "euid" (who loads) or "other"; loose: writable by group *)
(* or other; target: the entry a symbolic link stands for.                  *)
Attributes ==
  [kind : {"dir", "file", "link", "fifo"}, owner : {"root", "euid", "other"},
   loose : BOOLEAN, target : Inodes \X Names]

Entries == [node : Inodes \cup {Nothing}, by : {"root", "other"}]

(* Byte number i of the writing gen is <<i, gen>>, so that a byte tells     *)
(* where in which version of a file it comes from.                          *)
Bytes == Nat \X STRING

Blocks == {"main", "location"}

Directives ==
  [kind : {"strict", "trust"}, value : {0, 1}]
    \cup [kind : {"dict"}, path : Seq(Names), block : Blocks,
          literal : Seq(Bytes)]

(* strict and way say how it was loaded, clean whether all entries on the   *)
(* way to it were root's and nobody else may write the file.                *)
Dicts ==
  [bytes : Seq(Bytes), hash : Seq(Bytes), strict : BOOLEAN, clean : BOOLEAN,
   way : {"computed", "verified", "trusted"}]

ASSUME LoadingAssumption ==
  /\ Root \in Inodes
  /\ Nothing \notin Inodes
  /\ NoFile \notin Descriptors
  /\ MaxDictSize \in Nat \ {0}
  /\ Contents \subseteq [len : Nat, gen : STRING]
  /\ Rewrites \subseteq Inodes \X Contents
  /\ Moves \subseteq Inodes \X Names \X (Inodes \cup {Nothing})
  /\ Configs \subseteq Seq(Directives)
  /\ Layouts \subseteq [attr : [Inodes -> Attributes], tree : [Inodes -> [Names -> Entries]],
                        content : [Inodes -> Contents]]
  /\ \A l \in Layouts, n \in Inodes, m \in Names :
       l.attr[n].owner # "other" /\ ~l.attr[n].loose => l.tree[n][m].by = "root"

VARIABLES
  attr, tree, content,  \* the file system
  lines,                \* the directives not done with, the current one first
  dict_strict_path, dict_loaded_before_strict_on,
  dcb_dict_trust_hashes, dcb_dict_verified_before_trust_on,
  dcb_dicts_hashed,     \* the main configuration
  dcb_dicts,            \* the list of each block; empty is NGX_CONF_UNSET_PTR
  pc,
  files,                \* the open descriptors, each with the node it stands for
  fd, next,             \* the loader's own two
  at, rest, clean,      \* where the kernel's walk is, the components left
  size, bytes           \* the read: what is asked for, and the buffer so far

disk == <<attr, tree, content>>
main == <<dict_strict_path, dict_loaded_before_strict_on, dcb_dict_trust_hashes,
          dcb_dict_verified_before_trust_on, dcb_dicts_hashed>>
conf == <<lines, main, dcb_dicts>>
cursor == <<fd, next, at, rest, clean>>
walk == <<files, cursor>>
buffer == <<size, bytes>>
vars == <<disk, conf, pc, walk, buffer>>

(* Owned by root or by who loads, writable by nobody else.                  *)
Trusted(n) == attr[n].owner # "other" /\ ~attr[n].loose

(***************************************************************************)
(* The file system while nginx loads: external.                             *)
(***************************************************************************)
(* root renames a file into place or removes one, or rewrites it in place.  *)
Deploy ==
  /\ \/ \E m \in Moves :
          /\ attr[m[1]].kind = "dir"
          /\ tree' = [tree EXCEPT ![m[1]][m[2]] = [node |-> m[3], by |-> "root"]]
          /\ UNCHANGED content
     \/ \E w \in Rewrites :
          /\ attr[w[1]].kind = "file"
          /\ content' = [content EXCEPT ![w[1]] = w[2]]
          /\ UNCHANGED tree
  /\ UNCHANGED <<attr, conf, pc, walk, buffer>>

(* The other user does so where the modes let him.                          *)
OtherUser ==
  /\ \/ \E m \in Moves :
          /\ attr[m[1]].kind = "dir" /\ ~Trusted(m[1])
          /\ tree' = [tree EXCEPT ![m[1]][m[2]] = [node |-> m[3], by |-> "other"]]
          /\ UNCHANGED content
     \/ \E w \in Rewrites :
          /\ attr[w[1]].kind = "file" /\ ~Trusted(w[1])
          /\ content' = [content EXCEPT ![w[1]] = w[2]]
          /\ UNCHANGED tree
  /\ UNCHANGED <<attr, conf, pc, walk, buffer>>

(***************************************************************************)
(* The directives.                                                          *)
(***************************************************************************)
Parsing(kind) == pc = "parse" /\ lines # <<>> /\ Head(lines).kind = kind

Step(a, b) == pc = a /\ pc' = b

(* A flag may be given once.                                                *)
SetStrictPath ==
  /\ Parsing("strict")
  /\ IF dict_strict_path = Unset
     THEN dict_strict_path' = Head(lines).value /\ lines' = Tail(lines) /\ UNCHANGED pc
     ELSE pc' = "failed" /\ UNCHANGED <<dict_strict_path, lines>>
  /\ UNCHANGED <<disk, dict_loaded_before_strict_on, dcb_dict_trust_hashes,
                 dcb_dict_verified_before_trust_on, dcb_dicts_hashed, dcb_dicts, walk, buffer>>

SetTrustHashes ==
  /\ Parsing("trust")
  /\ IF dcb_dict_trust_hashes = Unset
     THEN dcb_dict_trust_hashes' = Head(lines).value /\ lines' = Tail(lines) /\ UNCHANGED pc
     ELSE pc' = "failed" /\ UNCHANGED <<dcb_dict_trust_hashes, lines>>
  /\ UNCHANGED <<disk, dict_strict_path, dict_loaded_before_strict_on,
                 dcb_dict_verified_before_trust_on, dcb_dicts_hashed, dcb_dicts, walk, buffer>>

Strict == dict_strict_path = 1

Trust == dcb_dict_trust_hashes = 1

HasLiteral == Head(lines).literal # NoLiteral

(* Mutant: only an explicit "off" before the load is remembered.            *)
UncheckedIfOff == dict_strict_path = 0

Unchecked == dict_strict_path # 1

PaysForHash == HasLiteral /\ ~Trust

(* The literal is read and what this load runs under is remembered, before  *)
(* anything is opened.                                                      *)
BeginDict ==
  /\ Parsing("dict")
  /\ Head(lines).literal # Malformed
  /\ dict_loaded_before_strict_on' = (dict_loaded_before_strict_on \/ Unchecked)
  /\ dcb_dict_verified_before_trust_on' = (dcb_dict_verified_before_trust_on \/ PaysForHash)
  /\ fd' = NoFile /\ next' = NoFile
  /\ at' = Root /\ rest' = Head(lines).path /\ clean' = TRUE
  /\ pc' = "open"
  /\ UNCHANGED <<disk, lines, dict_strict_path, dcb_dict_trust_hashes, dcb_dicts_hashed,
                 dcb_dicts, files, buffer>>

(* A malformed literal, or no memory.                                       *)
RejectLine ==
  /\ Parsing("dict")
  /\ pc' = "failed"
  /\ UNCHANGED <<disk, conf, walk, buffer>>

(***************************************************************************)
(* open(2) and close(2): external.  A descriptor that close fails on is     *)
(* gone as well; one that is not open is left alone.                        *)
(***************************************************************************)
Spare == \E d \in Descriptors : d \notin DOMAIN files

New == CHOOSE d \in Descriptors : d \notin DOMAIN files

Opens(n) ==
  /\ Spare
  /\ files' = [d \in DOMAIN files \cup {New} |-> IF d = New THEN n ELSE files[d]]

Closes(d) == files' = [e \in DOMAIN files \ {d} |-> files[e]]

(* What fd stands for.                                                      *)
File == files[fd]

(* Mutant: the leaf is opened without O_NONBLOCK.                           *)
Waits == FALSE

Nonblocking == TRUE

(* The open of a FIFO waits for a writer unless told otherwise.             *)
Returns(n) == ~Nonblocking /\ n # Nothing => attr[n].kind # "fifo"

(***************************************************************************)
(* ngx_http_brotli_open_dict_strict: one component after the other, each    *)
(* directory vetted before anything is opened relative to it.               *)
(***************************************************************************)
OpenRoot ==
  /\ Strict
  /\ Step("open", "root")
  /\ Opens(Root)
  /\ fd' = New
  /\ UNCHANGED <<disk, conf, next, at, rest, clean, buffer>>

(* The path is not absolute, or "/" cannot be opened: nothing is open yet.  *)
RefuseRelative ==
  /\ Strict
  /\ Step("open", "failed")
  /\ UNCHANGED <<disk, conf, walk, buffer>>

(* Mutant: a directory may belong to anybody while it is not writable by    *)
(* all.                                                                     *)
VetsMode(n) == ~attr[n].loose

(* ngx_http_brotli_check_strict_dir                                         *)
Vets(n) == Trusted(n)

VetRoot ==
  /\ Step("root", "walk")
  /\ Vets(File)
  /\ UNCHANGED <<disk, conf, walk, buffer>>

(* Not vetted; here and below also when fstat fails.                        *)
RefuseRoot ==
  /\ Step("root", "failed")
  /\ Closes(fd)
  /\ UNCHANGED <<disk, conf, cursor, buffer>>

(* Only separators are left.                                                *)
RefuseNoLeaf ==
  /\ Step("walk", "failed")
  /\ rest = <<>>
  /\ Closes(fd)
  /\ UNCHANGED <<disk, conf, cursor, buffer>>

RefuseTooLong ==
  /\ Step("walk", "failed")
  /\ rest # <<>> /\ Head(rest) \in TooLong
  /\ Closes(fd)
  /\ UNCHANGED <<disk, conf, cursor, buffer>>

RefuseDots ==
  /\ Step("walk", "failed")
  /\ rest # <<>> /\ Head(rest) \in {".", ".."}
  /\ Closes(fd)
  /\ UNCHANGED <<disk, conf, cursor, buffer>>

Component == rest # <<>> /\ Head(rest) \notin TooLong \cup {".", ".."}

Last == Len(rest) = 1

Entry == tree[File][Head(rest)]

(* O_NOFOLLOW for every component, O_DIRECTORY for all but the last.  The   *)
(* directory stays open beside what it holds.                               *)
OpenAt ==
  /\ Step("walk", "descend")
  /\ Component
  /\ Entry.node # Nothing
  /\ attr[Entry.node].kind # "link"
  /\ IF Last THEN Returns(Entry.node) ELSE attr[Entry.node].kind = "dir"
  /\ Opens(Entry.node)
  /\ next' = New
  /\ clean' = (clean /\ Entry.by = "root")
  /\ UNCHANGED <<disk, conf, fd, at, rest, buffer>>

(* Missing, a link, not a directory, or any other error of openat.          *)
OpenAtFails ==
  /\ Step("walk", "failed")
  /\ Component
  /\ Last => Returns(Entry.node)
  /\ Closes(fd)
  /\ UNCHANGED <<disk, conf, cursor, buffer>>

CloseParent ==
  /\ pc = "descend"
  /\ Closes(fd)
  /\ fd' = next
  /\ rest' = Tail(rest)
  /\ pc' = IF Last THEN "info" ELSE "vet"
  /\ UNCHANGED <<disk, conf, next, at, clean, buffer>>

VetDir ==
  /\ Step("vet", "walk")
  /\ Vets(File)
  /\ UNCHANGED <<disk, conf, walk, buffer>>

(* Mutant: what is refused stays open.                                      *)
RefuseDirOpen ==
  /\ Step("vet", "failed")
  /\ UNCHANGED <<disk, conf, walk, buffer>>

RefuseDir ==
  /\ Step("vet", "failed")
  /\ Closes(fd)
  /\ UNCHANGED <<disk, conf, cursor, buffer>>

(***************************************************************************)
(* ngx_open_file, when the policy is off: the kernel resolves the path,     *)
(* links included.                                                          *)
(***************************************************************************)
Resolving == pc = "open" /\ ~Strict

Found == tree[at][Head(rest)]

Resolve ==
  /\ Resolving /\ rest # <<>> /\ attr[at].kind = "dir"
  /\ Found.node # Nothing
  /\ IF attr[Found.node].kind = "link"
     THEN /\ at' = attr[Found.node].target[1]
          /\ rest' = <<attr[Found.node].target[2]>> \o Tail(rest)
     ELSE at' = Found.node /\ rest' = Tail(rest)
  /\ clean' = (clean /\ Found.by = "root")
  /\ UNCHANGED <<disk, conf, pc, files, fd, next, buffer>>

OpenFile ==
  /\ Resolving /\ rest = <<>>
  /\ Returns(at)
  /\ Opens(at)
  /\ fd' = New
  /\ pc' = "info"
  /\ UNCHANGED <<disk, conf, next, at, rest, clean, buffer>>

(* Missing, or any other error: nothing is open.                            *)
OpenFileFails ==
  /\ Resolving
  /\ rest = <<>> => Returns(at)
  /\ pc' = "failed"
  /\ UNCHANGED <<disk, conf, walk, buffer>>

(***************************************************************************)
(* The open file.                                                           *)
(***************************************************************************)
(* goto failed: the descriptor is closed there, before the return.          *)
GotoFailed ==
  /\ pc' = "close"
  /\ UNCHANGED <<disk, conf, walk, buffer>>

(* It is regular, trustworthy where that is asked, not too large, not empty. *)
Acceptable ==
  /\ attr[File].kind = "file"
  /\ Strict => Trusted(File)
  /\ content[File].len \in 1..MaxDictSize

FdInfo ==
  /\ Step("info", "read")
  /\ Acceptable
  /\ size' = content[File].len
  /\ bytes' = <<>>
  /\ clean' = (clean /\ Trusted(File))
  /\ UNCHANGED <<disk, conf, files, fd, next, at, rest>>

(* Not acceptable, fstat fails, or no memory for the list or the buffer.    *)
RefuseFile ==
  /\ pc = "info"
  /\ GotoFailed

(* The bytes read(2) delivers: those at the position of the descriptor.     *)
Delivered(n) == [i \in 1..n |-> <<Len(bytes) + i, content[File].gen>>]

Complete == Len(bytes) = size

(* One pass of ngx_http_brotli_read_dict_file.  read(2) may deliver less    *)
(* than it is asked for; interrupted (EINTR) it changes nothing.            *)
ReadDict ==
  /\ pc = "read"
  /\ \E n \in 1..(size - Len(bytes)) :
       /\ Len(bytes) + n <= content[File].len
       /\ bytes' = bytes \o Delivered(n)
  /\ UNCHANGED <<disk, conf, pc, walk, size>>

(* A read error, or the end of the file before the size it had.             *)
ReadFails ==
  /\ pc = "read"
  /\ ~Complete
  /\ GotoFailed

CloseDict ==
  /\ Step("read", "hash")
  /\ Complete
  /\ Closes(fd)
  /\ UNCHANGED <<disk, conf, cursor, buffer>>

(* A failing close returns at once and is not repeated.                     *)
CloseDictFails ==
  /\ Step("read", "failed")
  /\ Complete
  /\ Closes(fd)
  /\ UNCHANGED <<disk, conf, cursor, buffer>>

(* The label failed; an error of close is logged.                           *)
CloseFailed ==
  /\ Step("close", "failed")
  /\ Closes(fd)
  /\ UNCHANGED <<disk, conf, cursor, buffer>>

(***************************************************************************)
(* The negotiation key.                                                     *)
(***************************************************************************)
(* Mutant: the hash leaves out the last byte.                               *)
HashedShort(b) == SubSeq(b, 1, Len(b) - 1)

(* An ideal hash: no two dictionaries have the same.                        *)
Hashed(b) == b

Key == IF HasLiteral /\ Trust THEN Head(lines).literal ELSE Hashed(bytes)

Way == IF ~HasLiteral THEN "computed" ELSE IF Trust THEN "trusted" ELSE "verified"

Counted == IF Way = "trusted" THEN dcb_dicts_hashed ELSE dcb_dicts_hashed + 1

Matches == Way = "verified" => Key = Head(lines).literal

(* Mutant: the list's first entry is not looked at.                         *)
RepeatsLater(b) == \E i \in 2..Len(dcb_dicts[b]) : dcb_dicts[b][i].hash = Key

Repeats(b) == \E i \in DOMAIN dcb_dicts[b] : dcb_dicts[b][i].hash = Key

(* The entry, pushed before the read, is complete only now.                 *)
AddDict ==
  /\ pc = "hash"
  /\ Matches /\ ~Repeats(Head(lines).block)
  /\ dcb_dicts_hashed' = Counted
  /\ dcb_dicts' = [dcb_dicts EXCEPT ![Head(lines).block] =
                     Append(@, [bytes |-> bytes, hash |-> Key, strict |-> Strict,
                                clean |-> clean, way |-> Way])]
  /\ lines' = Tail(lines)
  /\ pc' = "parse"
  /\ UNCHANGED <<disk, dict_strict_path, dict_loaded_before_strict_on, dcb_dict_trust_hashes,
                 dcb_dict_verified_before_trust_on, walk, buffer>>

RejectDict ==
  /\ pc = "hash"
  /\ ~Matches \/ Repeats(Head(lines).block)
  /\ dcb_dicts_hashed' = Counted
  /\ pc' = "failed"
  /\ UNCHANGED <<disk, lines, dict_strict_path, dict_loaded_before_strict_on,
                 dcb_dict_trust_hashes, dcb_dict_verified_before_trust_on, dcb_dicts,
                 walk, buffer>>

(***************************************************************************)
(* The end of the configuration.                                            *)
(***************************************************************************)
Ordered ==
  /\ Strict => ~dict_loaded_before_strict_on
  /\ Trust => ~dcb_dict_verified_before_trust_on

InitMainConf ==
  /\ pc = "parse" /\ lines = <<>>
  /\ dict_strict_path' = IF dict_strict_path = Unset THEN 0 ELSE dict_strict_path
  /\ dcb_dict_trust_hashes' = IF dcb_dict_trust_hashes = Unset THEN 0 ELSE dcb_dict_trust_hashes
  /\ pc' = IF Ordered THEN "merge" ELSE "failed"
  /\ UNCHANGED <<disk, lines, dict_loaded_before_strict_on, dcb_dict_verified_before_trust_on,
                 dcb_dicts_hashed, dcb_dicts, walk, buffer>>

(* A location without a list of its own inherits.                           *)
MergeConf ==
  /\ pc = "merge"
  /\ dcb_dicts' = IF dcb_dicts["location"] = <<>>
                  THEN [dcb_dicts EXCEPT !["location"] = dcb_dicts["main"]] ELSE dcb_dicts
  /\ pc' = "loaded"
  /\ UNCHANGED <<disk, lines, main, walk, buffer>>

Init ==
  /\ \E l \in Layouts : attr = l.attr /\ tree = l.tree /\ content = l.content
  /\ lines \in Configs
  /\ dict_strict_path = Unset /\ dcb_dict_trust_hashes = Unset
  /\ dict_loaded_before_strict_on = FALSE /\ dcb_dict_verified_before_trust_on = FALSE
  /\ dcb_dicts_hashed = 0
  /\ dcb_dicts = [b \in Blocks |-> <<>>]
  /\ pc = "parse"
  /\ files = [d \in {} |-> Root] /\ fd = NoFile /\ next = NoFile
  /\ at = Root /\ rest = <<>> /\ clean = TRUE
  /\ size = 0 /\ bytes = <<>>

Walk == OpenRoot \/ RefuseRelative \/ VetRoot \/ RefuseRoot \/ RefuseNoLeaf \/ RefuseTooLong
        \/ RefuseDots \/ OpenAt \/ OpenAtFails \/ CloseParent \/ VetDir \/ RefuseDir

Open == Resolve \/ OpenFile \/ OpenFileFails

Read == FdInfo \/ RefuseFile \/ ReadDict \/ ReadFails \/ CloseDict \/ CloseDictFails
        \/ CloseFailed

Loader == SetStrictPath \/ SetTrustHashes \/ BeginDict \/ RejectLine \/ Walk \/ Open \/ Read
          \/ AddDict \/ RejectDict \/ InitMainConf \/ MergeConf

Next == Loader \/ Deploy \/ OtherUser

Spec == Init /\ [][Next]_vars

FairSpec == Spec /\ WF_vars(Loader)

(***************************************************************************)
(* Properties.                                                              *)
(***************************************************************************)
TypeOK ==
  /\ attr \in [Inodes -> Attributes] /\ tree \in [Inodes -> [Names -> Entries]]
  /\ content \in [Inodes -> Contents]
  /\ lines \in Seq(Directives)
  /\ dict_strict_path \in {Unset, 0, 1} /\ dcb_dict_trust_hashes \in {Unset, 0, 1}
  /\ dict_loaded_before_strict_on \in BOOLEAN /\ dcb_dict_verified_before_trust_on \in BOOLEAN
  /\ dcb_dicts_hashed \in Nat
  /\ dcb_dicts \in [Blocks -> Seq(Dicts)]
  /\ pc \in {"parse", "open", "root", "walk", "descend", "vet", "info", "read", "close", "hash",
             "merge", "loaded", "failed"}
  /\ DOMAIN files \subseteq Descriptors /\ \A d \in DOMAIN files : files[d] \in Inodes
  /\ fd \in Descriptors \cup {NoFile} /\ next \in Descriptors \cup {NoFile}
  /\ at \in Inodes /\ rest \in Seq(Names) /\ clean \in BOOLEAN
  /\ size \in 0..MaxDictSize /\ bytes \in Seq(Bytes)

Listed == UNION {{dcb_dicts[b][i] : i \in DOMAIN dcb_dicts[b]} : b \in Blocks}

(* "Symlink-free end to end", also when a component is swapped during the   *)
(* walk: whatever changes while it loads, a configuration that ends under   *)
(* "brotli_dcb_dict_strict_path on" holds no dictionary that another user   *)
(* put in its place or may write, however its directives are ordered.       *)
OnlyCleanDictionaries == pc = "loaded" /\ Strict => \A d \in Listed : d.clean

(* A dictionary is the file's bytes, each once and in its place, whatever   *)
(* the short reads, and however the file shrinks or grows meanwhile.        *)
BytesInOrder ==
  \A d \in Listed : Len(d.bytes) \in 1..MaxDictSize /\ \A i \in DOMAIN d.bytes : d.bytes[i][1] = i

(* Clients are offered a dictionary by the hash of the bytes the encoder    *)
(* will use, also of a file rewritten while it is read; only a trusted      *)
(* literal may be something else.                                           *)
KeyNamesBytes == \A d \in Listed : d.way # "trusted" => d.hash = d.bytes

(* Both: what a client names is what the encoder uses, all of it.           *)
DictionariesWhole == BytesInOrder /\ KeyNamesBytes

(* A client's hash selects one dictionary of a block.                       *)
KeysDistinct ==
  \A b \in Blocks : \A i, j \in DOMAIN dcb_dicts[b] :
    dcb_dicts[b][i].hash = dcb_dicts[b][j].hash => i = j

HashedOnes ==
  UNION {{<<b, i>> : i \in {j \in DOMAIN dcb_dicts[b] : dcb_dicts[b][j].way # "trusted"}} :
         b \in Blocks}

(* $brotli_dcb_dicts_hashed is "the observable witness" that trusted        *)
(* literals skip the pass: it counts the other dictionaries exactly.        *)
HashesCounted ==
  pc \notin {"loaded", "failed"} => dcb_dicts_hashed = Cardinality(HashedOnes)

(* What is open is what the loader still answers for: fd while it walks and *)
(* reads, its parent beside it between openat and close, and nothing once   *)
(* the directive has returned, by whichever of its ways out.  So no refusal *)
(* leaves a descriptor behind, and no close comes too early or hits the     *)
(* wrong one of the two.                                                    *)
NoDescriptorLeft ==
  /\ pc = "descend" => fd # next
  /\ DOMAIN files = CASE pc \in {"root", "walk", "vet", "info", "read", "close"} -> {fd}
                      [] pc = "descend" -> {fd, next}
                      [] OTHER -> {}

Policy == INSTANCE DictionaryPolicy WITH
  config <- IF pc \in {"loaded", "failed"} THEN pc ELSE "parsing",
  strict <- Strict,
  trust <- Trust,
  dicts <- {[strict |-> d.strict, way |-> d.way] : d \in Listed}

(* The records kept while parsing are enough: what loads fulfils the        *)
(* policies at its end, in whichever order the directives stand.            *)
ImplementsPolicy == Policy!Spec

(* Loading ends, also at a FIFO nobody writes to.                           *)
LoadingEnds == <>(pc \in {"loaded", "failed"})
==============================================================================
